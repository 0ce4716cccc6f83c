----------------------------- MODULE MCBrowserTasks -----------------------------
(* Small instances of BrowserTasks, all explored in one run: a companion that *)
(* restarts, a bridge whose handlers die, two completions of one claim, and   *)
(* two rows for one request.                                                  *)
EXTENDS BrowserTasks
CONSTANTS h1, h2

MCHandlers == {h1, h2}

With(formal, attempts, rows, consumers, handlers, restarts, crashes) ==
  [formal |-> formal, attempts |-> attempts, rows |-> rows,
   consumers |-> consumers, handlers |-> handlers, restarts |-> restarts,
   crashes |-> crashes]

MCSetups == {With(TRUE, 2, 1, 2, {h1}, 1, 0), With(TRUE, 2, 1, 2, {h1}, 0, 1),
             With(FALSE, 1, 2, 2, {h1}, 0, 0), With(TRUE, 1, 1, 2, {h1, h2}, 0, 0),
             With(TRUE, 1, 1, 3, {h1}, 0, 0)}
===============================================================================
