---------------------------- MODULE PageHandlers ----------------------------
(***************************************************************************)
(* What a handler of the three browser applications is, for WebApps: where *)
(* it starts, what it compares its answer with and what a good answer      *)
(* does.  Each application lists its own handlers (FleetDesk,              *)
(* CustomerPortal, SoloCab); handlers that behave alike are one record.    *)
(*   at       the panel it belongs to                                      *)
(*   starts   "render": by drawing the panel; "detail": by drawing a trip; *)
(*            "press": by a button or a form; "open": by a row of a list;  *)
(*            "then": by the good answer of another handler                *)
(*   check    the answer is thrown away when the outlet was drawn anew     *)
(*            ("outlet"), when the panel was ("panel"), or never ("none")  *)
(*   expires  401 ends the session                                         *)
(*   bearer   the request carries the session's token                      *)
(*   ok       what a good answer does: fill the "page", change a "part" or *)
(*            a "note" of it, fetch the list again ("reload"), draw a trip *)
(*            or a load ("detail"), or go on elsewhere                     *)
(***************************************************************************)
EXTENDS Naturals

Loader(p) == [at |-> p, starts |-> "render", check |-> "none", expires |-> FALSE,
              bearer |-> TRUE, ok |-> "page"]
\* Opens a session: at is the form, or the boot of the page.
Entry(p, what) == [Loader(p) EXCEPT !.starts = "enter", !.ok = what]
Press(p, what) == [Loader(p) EXCEPT !.starts = "press", !.ok = what]

=============================================================================
