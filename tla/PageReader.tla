----------------------------- MODULE PageReader -----------------------------
(***************************************************************************)
(* What a pager promises its caller: the pages from the one that was asked *)
(* for to the last, in order and each one once, or the only page of a      *)
(* method that has no more.  Failures do not show, but that a caller who   *)
(* has got no page yet may ask for another one first.                      *)
(***************************************************************************)
EXTENDS Naturals

CONSTANT LastPage  \* the pages are numbered from 1

VARIABLES single,  \* whether the method has one page only
          next,    \* the page that comes next
          last,    \* the page the caller has got, or 0
          over

pages == <<single, next, last, over>>

Reading == /\ single \in BOOLEAN /\ next \in 1..LastPage /\ single => next = 1
           /\ last = 0 /\ ~over

HandOut == /\ ~over /\ next <= LastPage
           /\ last' = next /\ next' = next + 1
           /\ over' = (single \/ next = LastPage)
           /\ UNCHANGED single

BeginElsewhere == /\ ~over /\ ~single /\ last = 0
                  /\ next' \in 1..LastPage
                  /\ UNCHANGED <<single, last, over>>

InTurn == Reading /\ [][HandOut \/ BeginElsewhere]_pages
=============================================================================
