------------------------- MODULE MCTickerResolution -------------------------
(* A fresh French deal, on Euronext Growth first and on the main market later, and an
   older German one, first listed abroad; the French offer price is wrong at first. *)
EXTENDS TickerResolution, TLC

MCJur == <<"FR", "DE">>
MCIsin == <<"i1", "i2">>
MCCountry == [i1 |-> "FR", i2 |-> "DE"]
At(exch, ticker, figi) == [exch |-> exch, ticker |-> ticker, figi |-> figi]
MCListings ==
    << [i1 |-> <<At("GR", "AG", "g"), At("XS", "AX", "a")>>,
        i2 |-> <<At("US", "CU", "u"), At("LN", "CL", "l"), At("LN", "CM", "l")>>],
       [i1 |-> <<At("GR", "AG", "g"), At("XS", "AX", "a"), At("FP", "AP", "a")>>,
        i2 |-> <<At("LN", "CL", "l"), At("GY", "CY", "c"), At("GR", "CG", "c")>>] >>
MCCloses == [t \in {<<"AP", ".PA">>, <<"CL", ".L">>, <<"CG", ".DE">>} |->
                IF t[1] = "CG" THEN NoClose ELSE 10]
MCMapped == <<"AZ", None>>
MCOffers == << <<100, 12>>, <<12>> >>

=============================================================================
