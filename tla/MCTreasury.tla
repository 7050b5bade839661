----------------------------- MODULE MCTreasury -----------------------------
(* Ada and Ben approve what Fay asks for. The first two withdrawals fit the   *)
(* daily limit and exceed the goal they are drawn on, the third fits the      *)
(* limit alone, and the goal would cover the first one twice.                 *)
EXTENDS Treasury
CONSTANTS ada, ben, fay, t1, t2, t3, g1, g2
MCInitRole == [u \in User |-> IF u = ada THEN "ADMIN" ELSE "FINANCE"]
MCGoalOf == [t \in Withdrawal |-> g1]
MCAmount == [t \in Withdrawal |-> CASE t = t1 -> 2 [] t = t2 -> 3 [] OTHER -> 4]
MCInitGoal == [g \in {g1} |-> 4]
=============================================================================
