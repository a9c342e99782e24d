------------------------------- MODULE Pager -------------------------------
(***************************************************************************)
(* The pager that getPageableMethodBody emits, and the service it reads    *)
(* from.  A URL is abstracted to the page it leads to and to its query: the *)
(* API version, the other parameters and the continuation token.           *)
(*                                                                         *)
(* The pager of azure_core, which is external, calls the emitted closure   *)
(* with PagerState::Initial and then with the continuation of every        *)
(* PagerResult::More.  After a failure the caller may call the method      *)
(* again and resume from the last continuation, which PagerOptions holds.  *)
(*                                                                         *)
(* The service is external as well.  Its links may lack the API version,   *)
(* name another one, and lack the parameters that the description of the   *)
(* operation marks for reinjection; they have all other parameters.        *)
(* Relative links, which the closure joins with the URL of the method, the *)
(* path to a nested link and request headers other than the token are left *)
(* out.                                                                    *)
(*                                                                         *)
(* A definition Name_Fault is Name with a plausible mistake in the code;   *)
(* no specification uses it: the properties must fail with it.             *)
(***************************************************************************)
EXTENDS Naturals

CONSTANTS LastPage,  \* the pages are numbered from 1
          Params     \* query parameters other than version and token

ASSUME PagerAssumption == LastPage \in Nat \ {0}

Pages    == 1..LastPage
Versions == {"current", "other"}

\* strategy: a link to the next page in the body, a token for the next page in
\* the query or in a header, or one page only.  versioned: the API version is a
\* query parameter.  reinjected: parameters the links may lack.
Method == [strategy : {"nextLink", "query", "header", "none"},
           versioned : BOOLEAN, reinjected : SUBSET Params]

\* A token t leads to page t; page 0 is the URL of the method, which needs a
\* token for every page but the first.  All values of a query parameter are kept.
Url == [page : 0..LastPage, versions : SUBSET Versions, params : SUBSET Params,
        tokens : SUBSET Pages]

\* PagerState, or the part of an answer from which it is made.
Continuation == [kind : {"Initial", "Token", "Link", "Empty", "Absent"},
                 token : 0..LastPage, link : Url]

Answer == [page : Pages, next : Continuation]

VARIABLES method,  \* the kind of the method
          given,   \* the parameters the caller has given
          start,   \* the token the caller has given, or 0
          pc,      \* what the pager does
          state,   \* PagerState
          url,     \* the URL of the request
          header,  \* the token in the request header, or 0
          answer,  \* the last answer
          last     \* the page the caller got last, or 0

vars == <<method, given, start, pc, state, url, header, answer, last>>

args == <<method, given, start>>

NoUrl       == [page |-> 0, versions |-> {}, params |-> {}, tokens |-> {}]
Without(kind) == [kind |-> kind, token |-> 0, link |-> NoUrl]
Token(t)    == [Without("Token") EXCEPT !.token = t]
Link(u)     == [Without("Link") EXCEPT !.link = u]
NoAnswer    == [page |-> 1, next |-> Without("Absent")]

Init == /\ method \in Method
        /\ given \in SUBSET Params
        /\ start \in IF method.strategy \in {"query", "header"} THEN 0..LastPage ELSE {0}
        /\ pc = "ready" /\ state = Without("Initial")
        /\ url = NoUrl /\ header = 0 /\ answer = NoAnswer /\ last = 0

----------------------------------------------------------------------------
(* The pager. *)

\* constructUrl: the parameters the caller has given, the token included.
FirstUrl == [page |-> 0,
             versions |-> IF method.versioned THEN {"current"} ELSE {},
             params |-> given,
             tokens |-> IF method.strategy = "query" /\ start # 0 THEN {start} ELSE {}]

More == state.kind # "Initial"

\* set_pair replaces every value the key may have; append_pair does not.
WithToken_Appended(u, t) == [u EXCEPT !.tokens = @ \cup {t}]

WithToken(u, t) == [u EXCEPT !.tokens = {t}]

Reinjected_Appended(u) ==
    [u EXCEPT !.versions = IF method.versioned THEN @ \cup {"current"} ELSE @,
              !.params = @ \cup (method.reinjected \cap given)]

Reinjected(u) ==
    [u EXCEPT !.versions = IF method.versioned THEN {"current"} ELSE @,
              !.params = @ \cup (method.reinjected \cap given)]

RequestUrl == IF method.strategy = "query" /\ More THEN WithToken(FirstUrl, state.token)
              ELSE IF method.strategy = "nextLink" /\ More THEN Reinjected(state.link)
              ELSE FirstUrl

\* The token in the header: that of the continuation goes before the option.
RequestHeader_OptionFirst ==
    IF method.strategy # "header" THEN 0
    ELSE IF start = 0 /\ More THEN state.token ELSE start

RequestHeader == IF method.strategy # "header" THEN 0
                 ELSE IF More THEN state.token ELSE start

Request == /\ pc = "ready"
           /\ url' = RequestUrl
           /\ header' = RequestHeader
           /\ pc' = "sent"
           /\ UNCHANGED <<args, state, answer, last>>

HasNext_LinksOnly(next) == method.strategy = "nextLink" /\ next.kind = "Link"

\* A missing next page and an empty one are the same.
HasNext(next) == method.strategy # "none" /\ next.kind \notin {"Absent", "Empty"}

\* PagerResult::More hands out the page and the continuation.
Continue == /\ pc = "answered" /\ HasNext(answer.next)
            /\ last'  = answer.page
            /\ state' = answer.next
            /\ pc' = "ready"
            /\ UNCHANGED <<args, url, header, answer>>

Finish == /\ pc = "answered" /\ ~HasNext(answer.next)
          /\ last' = answer.page
          /\ pc' = "done"
          /\ UNCHANGED <<args, state, url, header, answer>>

\* A request fails, or its answer is lost or cannot be parsed.
Fail == /\ pc \in {"sent", "answered"}
        /\ pc' = "failed"
        /\ UNCHANGED <<args, state, url, header, answer, last>>

----------------------------------------------------------------------------
(* The caller. *)

\* The method is called again, with the same parameters and the continuation of
\* the last page.  The token in its options need not be the same, but without a
\* continuation it says where to begin.
Resume == /\ pc = "failed"
          /\ IF More /\ method.strategy \in {"query", "header"}
             THEN start' \in 0..LastPage
             ELSE UNCHANGED start
          /\ pc' = "ready"
          /\ UNCHANGED <<method, given, state, url, header, answer, last>>

----------------------------------------------------------------------------
(* The service. *)

\* The page that is asked for; with several tokens it may take any of them.
Asked == CASE method.strategy = "nextLink" -> {IF url.page = 0 THEN 1 ELSE url.page}
           [] method.strategy = "query"    -> IF url.tokens = {} THEN {1} ELSE url.tokens
           [] method.strategy = "header"   -> {IF header = 0 THEN 1 ELSE header}
           [] method.strategy = "none"     -> {1}

LinksTo(p) == {u \in Url : /\ u.page = p /\ u.tokens = {}
                           /\ given \ method.reinjected \subseteq u.params
                           /\ u.params \subseteq given
                           /\ ~method.versioned => u.versions = {}}

NextOf(p) == IF p = LastPage \/ method.strategy = "none"
             THEN {Without("Absent"), Without("Empty")}
             ELSE IF method.strategy = "nextLink" THEN {Link(u) : u \in LinksTo(p + 1)}
             ELSE {Token(p + 1)}

Serve == /\ pc = "sent"
         /\ \E p \in Asked : \E next \in NextOf(p) :
               answer' = [page |-> p, next |-> next]
         /\ pc' = "answered"
         /\ UNCHANGED <<args, state, url, header, last>>

----------------------------------------------------------------------------
Closure == Request \/ Continue \/ Finish \/ Fail

Over == pc = "done" /\ UNCHANGED vars

Next == Closure \/ Serve \/ Resume \/ Over

Spec == Init /\ [][Next]_vars

\* The caller reads to the end and the service answers.
FairSpec == Spec /\ WF_vars(Closure) /\ WF_vars(Serve)

----------------------------------------------------------------------------
TypeOK == /\ method \in Method /\ given \subseteq Params /\ start \in 0..LastPage
          /\ pc \in {"ready", "sent", "answered", "done", "failed"}
          /\ state \in Continuation /\ state.kind \in {"Initial", "Token", "Link"}
          /\ url \in Url /\ header \in 0..LastPage
          /\ answer \in Answer /\ last \in 0..LastPage

\* The pages arrive in order, each one once, across failures and resumptions:
\* an answer is the page after the last one, or the page to start with.
InOrder == pc = "answered" => answer.page = IF last # 0 THEN last + 1
                                            ELSE IF start # 0 THEN start ELSE 1

\* Every request, not only the first, has exactly the parameters the caller gave
\* and the version of the client, whatever the link of the service lacks or says.
RequestComplete ==
    pc = "sent" => /\ url.params = given
                   /\ url.versions = IF method.versioned THEN {"current"} ELSE {}

\* The page that comes next.
Wanted == IF last # 0 THEN last + 1 ELSE IF start # 0 THEN start ELSE 1

\* The caller gets the pages in order, each one once, also when requests fail and
\* reading is taken up again, and is told that there are no more after the last
\* page and not before: Pager implements PageReader.
Reader == INSTANCE PageReader WITH single <- method.strategy = "none",
                                   next <- Wanted, over <- pc = "done"

ReadsPages == Reader!InTurn

\* The pager ends, unless the caller takes up what has failed.
PagerEnds == <>(pc \in {"done", "failed"})
=============================================================================
