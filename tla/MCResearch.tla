------------------------------ MODULE MCResearch ------------------------------
(* One stock of each market and one that is neither, beside an analysis.      *)
EXTENDS BacktestEngine

TW  == [market |-> "TW", length |-> 4, kind |-> "digits"]
US  == [market |-> "US", length |-> 4, kind |-> "letters"]
Bad == [market |-> "TW", length |-> 4, kind |-> "letters"]
MCCodes == {TW, US, Bad}
MCListed(code) == IF code = US THEN {1} ELSE IF code = TW THEN 0 .. LastDay ELSE {}
MCRanges == {<<0, 3>>, <<2, 2>>}
MCTested == <<TW>>
MCGrid == <<1, 2>>
MCOne == <<1>>

\* Buys on the first day and sells on the last, or the other way round in the
\* second half of the days.
MCSignals(params, days) ==
  LET first == Min(days) last == Max(days)
      price(d) == 10 + (IF params = 1 THEN d ELSE -d)
      at(d, type) == [type |-> type, day |-> d, price |-> price(d)]
  IN  <<at(first, "BUY"), at(first + 1, "SELL"), at(first + 1, "BUY"), at(last, "SELL")>>
=============================================================================
