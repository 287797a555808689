----------------------------- MODULE MCMonitor -----------------------------
(* A project of two blocks sent to the target or read from it, the log of   *)
(* one block read while connected, one rung displayed.                      *)
EXTENDS Monitor

MCFiles == {0, 10}
MCBlocks == (0 :> 2) @@ (10 :> 1)
Menu(f, send, conn) == [file |-> f, send |-> send, connected |-> conn]
Project == {Menu(0, TRUE, FALSE), Menu(0, FALSE, FALSE)}
Log == {Menu(10, FALSE, TRUE)}

All == ToSet(Priority)

\* two orders; each order once; two transfers; a transfer while connected; one
\* with a restart
Plan(o, k, t, m, c, r, f) ==
  [orders |-> o, kinds |-> k, transfers |-> t, menus |-> m, clicks |-> c,
   restarts |-> r, flight |-> f]
MCPlans == {Plan(2, {"SetState", "WriteVar"}, 0, {}, 1, 0, 2), Plan(1, All, 0, {}, 1, 0, 1),
            Plan(0, {}, 2, Project, 0, 0, 2), Plan(0, {}, 1, Log, 1, 0, 1),
            Plan(0, {}, 1, Project, 0, 1, 2)}
=============================================================================
