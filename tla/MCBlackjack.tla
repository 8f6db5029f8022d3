------------------------------ MODULE MCBlackjack ------------------------------
(* A bounded instance of Blackjack.                                           *)
EXTENDS Blackjack, TLC

Rules(hands, loose, payout) ==
    [max_split_hands |-> hands, double_after_split |-> loose, late_surrender |-> loose,
     split_aces_one_card |-> TRUE, blackjack_payout |-> payout]

Deal(cards, ace, blackjack) == [cards |-> cards, ace |-> ace, dealer_blackjack |-> blackjack]
FewDeals == {Deal("natural", TRUE, FALSE), Deal("pair", FALSE, FALSE),
             Deal("aces", FALSE, FALSE), Deal("natural", FALSE, TRUE)}
FewRules == {Rules(2, TRUE, 150), Rules(3, FALSE, 120)}
===============================================================================
