--------------------------- MODULE MCDaemonStart ---------------------------
EXTENDS DaemonStart, TLC

CONSTANTS c1, c2, c3

MCInfo == c1 :> "old" @@ c2 :> "new" @@ c3 :> "new"
=============================================================================
