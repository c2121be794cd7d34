---------------------------- MODULE MCExitPolicy ----------------------------
(* ExitPolicy with the default plans, per mille of a share's or a coin's    *)
(* entry and per cent of an option's, the scalp's with an R of 3 % (stop at *)
(* -1 R, target at 1.8 R, trail armed at 0.8 R), and feeds with a price at  *)
(* the stop and one past the lock-in or the arming level of the trail.      *)
EXTENDS ExitPolicy, TLC

SharePlan  == [entry |-> 1000, stop |-> 975, target |-> 1050, arm |-> 1020,
               keep |-> 65, lock |-> 1030, scalp |-> FALSE, equity |-> TRUE]
OptionPlan == [entry |-> 100, stop |-> 65, target |-> 160, arm |-> 130,
               keep |-> 80, lock |-> 0, scalp |-> FALSE, equity |-> TRUE]
ScalpPlan  == [entry |-> 1000, stop |-> 970, target |-> 1054, arm |-> 1024,
               keep |-> 65, lock |-> 1020, scalp |-> TRUE, equity |-> FALSE]

MCPlans == ("share" :> SharePlan) @@ ("option" :> OptionPlan)
             @@ ("scalp" :> ScalpPlan)
MCFeed  == ("share" :> {975, 1040}) @@ ("option" :> {0, 65, 150})
             @@ ("scalp" :> {970, 1000, 1030})
PlansInUse == [m \in Markets |-> MCPlans[m]]
FeedInUse  == [m \in Markets |-> MCFeed[m]]

OneOption     == ("o" :> "option")
ShareAndScalp == ("s" :> "share") @@ ("c" :> "scalp")
==============================================================================
