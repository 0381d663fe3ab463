----------------------------- MODULE MCPipeline -----------------------------
(* Pipeline with the serve loop beside other commands on one database.       *)
EXTENDS Pipeline, TLC

MCTrust == ("obsidian" :> 80) @@ ("google" :> 60)
MCCanon == ("Berlin" :> "Berlin") @@ ("Munich" :> "Munich")
Draft(s, v) == [cell |-> "job", src |-> s, val |-> v, at |-> 1]
MCDrafts == {Draft("obsidian", "Berlin"), Draft("obsidian", "Munich"), Draft("google", "Berlin")}
ServeAndCli == ("serve" :> "serve") @@ ("sync" :> "cli")
ServeAndApi == ("serve" :> "serve") @@ ("api" :> "api")
ServeAndTui == ("serve" :> "serve") @@ ("tui" :> "tui")
AllThree == ServeAndTui @@ ServeAndCli
=============================================================================
