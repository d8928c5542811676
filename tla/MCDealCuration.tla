--------------------------- MODULE MCDealCuration ---------------------------
(* Two filings of a French target, the second not stored yet, a German cash and a
   German mixed offer, an Italian exchange offer. *)
EXTENDS DealCuration, TLC

MCJur == <<"FR", "FR", "DE", "DE", "IT">>
MCTarget == <<"a", "a", "b", "c", "d">>
MCAnnounced == <<1, 2, 3, 4, 5>>
Cash(price, trusted) == [got |-> "read", price |-> price, flag |-> "verified_cash",
                         trusted |-> trusted]
Mixed == [got |-> "read", price |-> None, flag |-> "suspect_mixed", trusted |-> FALSE]
Broken == [got |-> "raises", price |-> None, flag |-> Default, trusted |-> FALSE]
NoPdf == [Broken EXCEPT !.got = "noPdf"]
MCReads == << <<Cash(1000, TRUE), Cash(None, FALSE), Cash(1005, TRUE), Mixed, Broken>>,
              <<Cash(1200, TRUE), Cash(1200, TRUE), NoPdf, Mixed, Broken>> >>
MCLegs == <<[cash |-> None, ratio |-> 0, acquirer |-> FALSE],
            [cash |-> None, ratio |-> 0, acquirer |-> FALSE],
            [cash |-> None, ratio |-> 0, acquirer |-> FALSE],
            [cash |-> 400, ratio |-> 2, acquirer |-> TRUE],
            [cash |-> None, ratio |-> 0, acquirer |-> FALSE]>>
Old(price) == [NoRow EXCEPT !.price = price]
MCLegacy == <<{Old(1000), Old(900)}, {}, {Old(300), Old(900), Old(1000)}, {Old(900)},
              {Old(800)}>>

MCCloses == {None, 350, 2000}

=============================================================================
