---------------------------- MODULE MCLifecycle ----------------------------
(***************************************************************************)
(* Instances of RtemsLifecycle for TLC.                                    *)
(***************************************************************************)
EXTENDS RtemsLifecycle

Any ==
    {"socket", "lookup", "mutex", "killsem", "tickerCreate", "tickerStart",
     "daemonCreate", "daemonStart"}

Use(pictimer, lives, failures, readers) ==
    [USE_PICTIMER |-> pictimer, lives |-> lives, failures |-> failures,
     readers |-> readers]

(* Both builds with every failure, each initialized twice, and one life of *)
(* the default build with two readers.                                     *)
AllBuilds ==
    {Use(FALSE, 2, Any, {}),
     Use(TRUE, 2, Any \cup {"timer", "timerCleanup"}, {}),
     Use(FALSE, 1, {}, {1, 2})}

PlainBuild == {Use(FALSE, 1, {}, {})}
=============================================================================
