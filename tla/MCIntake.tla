------------------------------- MODULE MCIntake -------------------------------
EXTENDS Intake, TLC

CONSTANTS serve, cli, api

(* One syncer with every fault, two that overlap, the extension alone, and a *)
(* little of both.                                                           *)
Budget(changes, expiries, serves, syncs, errors, crashes, moves, saves, drops) ==
    "changes" :> changes @@ "expiries" :> expiries @@ "serves" :> serves
    @@ "syncs" :> syncs @@ "errors" :> errors @@ "deaths" :> crashes
    @@ "moves" :> moves @@ "saves" :> saves @@ "drops" :> drops
MCBudgets == {Budget(3, 1, 1, 0, 1, 1, 0, 0, 0),
              Budget(2, 1, 1, 1, 0, 1, 0, 0, 0),
              Budget(0, 0, 0, 0, 0, 0, 3, 2, 1),
              Budget(1, 0, 0, 1, 0, 1, 1, 2, 0)}
=============================================================================
