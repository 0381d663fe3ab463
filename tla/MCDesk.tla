-------------------------------- MODULE MCDesk --------------------------------
EXTENDS Desk, TLC

CONSTANTS ada, bob, acme, serve, cli, tui

(* ada's employer by either spelling of a link, and bob's as plain text. *)
MCLink ==
    "[[Acme]]" :> [src |-> ada, type |-> "member_of", tries |-> <<"Acme.md", "Acme">>]
    @@ "[[Acme.md]]" :> [src |-> ada, type |-> "member_of",
                         tries |-> <<"Acme.md.md", "Acme.md">>]
    @@ "Acme Inc" :> [src |-> bob, type |-> "member_of", tries |-> <<>>]
MCTierWeight == "inner" :> 20 @@ "close" :> 13 @@ "loose" :> 10
MCCadenceDefault == "inner" :> 1 @@ "close" :> 2 @@ "loose" :> 2
MCEventWeight == "job.title" :> 10 @@ "person.lives" :> 7

(* The profile of a person: importance, cadence, job and home. *)
Profile(importance, cadence, job, home) ==
    [importance |-> importance, cadence |-> cadence,
     says |-> "job.title" :> job @@ "person.lives" :> home]
MCGiven ==
    ada :> Profile("inner", Unset, "clerk", Unset)
    @@ bob :> Profile("friend", 1, "clerk", "Rome")
MCProfiles ==
    {MCGiven[ada], MCGiven[bob], Profile("close", 0, "judge", "Oslo"),
     Profile("inner", 1, "clerk", "Oslo")}

Budget(syncs, serves, records, choices, crashes, meetings, actions, changes, day) ==
    "syncs" :> syncs @@ "serves" :> serves @@ "records" :> records
    @@ "choices" :> choices @@ "crashes" :> crashes @@ "talks" :> meetings
    @@ "acts" :> actions @@ "news" :> changes @@ "today" :> day
(* The graph with a crash, and with another sync; the queue alone, with pins, *)
(* and with interactions in any order; a person of whom something new is told *)
(* in a sync, beside a call; and a snooze while a reference is resolved.      *)
MCBudgets == {Budget(0, 1, 2, 1, 1, 0, 0, 0, 2),
              Budget(1, 1, 2, 0, 0, 0, 0, 0, 2),
              Budget(0, 0, 0, 0, 0, 2, 1, 0, 0),
              Budget(0, 0, 0, 0, 0, 3, 0, 0, 2),
              Budget(1, 0, 0, 0, 0, 1, 0, 1, 1),
              Budget(1, 0, 0, 0, 0, 0, 1, 1, 1),
              Budget(0, 1, 2, 0, 0, 0, 1, 0, 1)}
=============================================================================
