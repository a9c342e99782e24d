------------------------------ MODULE MCPager ------------------------------
(* Three pages and two parameters for Pager. *)
EXTENDS Pager

CONSTANTS top, filter

MCParams == {top, filter}
=============================================================================
