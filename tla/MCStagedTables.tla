---------------------------- MODULE MCStagedTables ----------------------------
(* The staged tables with two processes, as many actions as a round takes and*)
(* one to misuse, a second round where it adds more than states, and balances*)
(* that fall short of a stake.                                               *)
EXTENDS StagedTables

TwoDeals == {"hi_lo", "plinko", "andar_bahar"}
Actions23 ==
    [t \in Tables |-> IF t \in TwoDeals \cup {"mississippi_stud", "caribbean_stud"} THEN 3 ELSE 2]
Deals12 == [t \in Tables |-> IF t \in TwoDeals THEN 2 ELSE 1]

Balances ==
    [t \in Tables |->
        CASE t \in {"hi_lo", "pai_gow_poker", "double_bonus", "plinko", "andar_bahar",
                    "jacks_or_better"} -> {1}
          [] t \in {"four_card_poker", "casino_holdem", "teen_patti", "caribbean_stud"} -> {1, 2}
          [] t = "mississippi_stud" -> {3}
          [] OTHER -> {0, 1}]
===============================================================================
