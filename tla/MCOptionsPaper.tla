--------------------------- MODULE MCOptionsPaper ---------------------------
EXTENDS OptionsPaper

MCRegistry == <<"daily_close", "options_paper">>
MCJobSlot == [daily_close |-> 1, options_paper |-> 2]
MCWeekdays == Day \ {2}
MCSession == MCWeekdays \ {5}
MCOldest == {0, 1}
MCDisputed == {1}
MCListed == {3, 4}
MCPrices == {[d \in Day |-> IF d = 3 THEN c[1] ELSE IF d = 4 THEN c[2] ELSE "target"] :
                c \in {<<"stop", "target">>, <<"between", "between">>}}
=============================================================================
