------------------------------- MODULE MCCron -------------------------------
(* Model instance of Cron: a continuous or one-tenure loop beside a single    *)
(* run or a second continuous loop.                                           *)
EXTENDS Cron, TLC

CONSTANTS a, b

MCCalls ==
    {(a :> "continuous") @@ (b :> "try_run_once"),
     (a :> "tenure")     @@ (b :> "run_once"),
     (a :> "continuous") @@ (b :> "continuous")}
=============================================================================
