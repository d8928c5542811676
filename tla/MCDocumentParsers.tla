------------------------- MODULE MCDocumentParsers -------------------------
(* Prices with and without an introduction, in the forms that matter: plain, digits run
   together, groups after a dot with and without decimals, a decimal dot, "EUR". *)
EXTENDS DocumentParsers, TLC

Amount(thousands, units, cents, sep, mark) ==
    [thousands |-> thousands, units |-> units, cents |-> cents, sep |-> sep, mark |-> mark,
     currency |-> "euro", intro |-> 15, lead |-> FALSE]

MCWritten ==
    [plain |-> Amount(0, 12, 50, "none", "comma"),
     bare |-> [Amount(0, 9, 0, "none", "comma") EXCEPT !.intro = 0],
     sign |-> [Amount(0, 14, 75, "none", "comma") EXCEPT !.currency = "sign"],
     francs |-> [Amount(0, 11, 25, "none", "comma") EXCEPT !.currency = "CHF"],
     run_on |-> Amount(1, 234, 0, "none", "none"),
     dotted |-> Amount(1, 234, 0, "dot", "none"),
     full |-> Amount(1, 234, 50, "dot", "comma"),
     point |-> [Amount(0, 20, 50, "none", "dot") EXCEPT !.lead = TRUE, !.currency = "EUR"],
     nbsp |-> Amount(2, 100, 50, "nbsp", "comma")]

MCWords ==
    [FR |-> {"engage", "engageait", "releve", "nominal", "page6", "page9",
             "plain", "bare", "run_on", "dotted", "point"},
     DE |-> {"par", "share", "share_open", "plain", "bare", "sign", "full", "dotted", "point",
             "nbsp"},
     IT |-> {"plain", "sign", "francs", "run_on", "full", "dotted", "point", "nbsp"}]

\* On both sides of every window: 22, 73, 103, and 400 to the amount and to "prix".
MCLayouts ==
    [FR |-> {<<50, 123, 241, 360>>, <<50, 124, 450, 524>>, <<50, 465, 866, 940>>,
             <<50, 466, 860, 875>>},
     DE |-> {<<50, 72, 95, 117>>, <<50, 73, 150, 172>>},
     IT |-> {<<50, 100, 150, 200>>}]

=============================================================================
