----------------------------- MODULE MCBacktest -----------------------------
(* Backtest for TLC: a stock traded in New York, on Thursday, Friday, the  *)
(* Monday or Tuesday after (Monday is a holiday there) and on Wednesday,   *)
(* and a call on it traded in Hong Kong, whose bar of Friday may be in the *)
(* small hours of Saturday there.  The call expires on Monday, in or out   *)
(* of the money; in one history before the stock has any bar, in the last  *)
(* on a bar of its own that closes at nothing.                             *)
EXTENDS Backtest

Hour(day, hour) == 24 * day + hour  \* from Monday, day 0

MCContracts ==
    [s \in {"CALL"} |-> [underlying_symbol |-> "AAPL", strike |-> 8, right |-> "CALL",
                         expiry |-> Hour(7, 14), multiplier |-> 2]]

MCSessions ==
    [m \in {"US", "HK"} |->
       IF m = "US" THEN [offset |-> -5, holidays |-> {7}]
                   ELSE [offset |-> 8, holidays |-> {}]]

Stock(day, o, c) ==
    [symbol |-> "AAPL", rank |-> 1, market |-> "US", timestamp |-> Hour(day, 14),
     open |-> o, close |-> c]

Option(day, hour, o, c) ==
    [symbol |-> "CALL", rank |-> 2, market |-> "HK", timestamp |-> Hour(day, hour),
     open |-> o, close |-> c]

Options(hour, last) ==
    {Option(3, 14, 4, 4), Option(4, hour, 6, 6), Option(7, 14, 4, last)}

MCHistories ==
    {{Stock(3, 6, 8), Stock(4, 10, 12), Stock(day, x, x), Stock(9, 8, 10)} \cup Options(hour, 6) :
       x \in {6, 12}, day \in {7, 8}, hour \in {14, 17}}
    \cup {{Stock(8, 6, 8), Stock(9, 10, 12)} \cup Options(14, 6)}
    \cup {{Stock(3, 6, 8), Stock(4, 10, 12), Stock(7, 6, 6)} \cup Options(14, 0)}

MCSignals ==
    {[instrument_id |-> "AAPL", asset_class |-> "EQUITY", side |-> side, lot |-> lot] :
       side \in {"BUY", "SELL"}, lot \in {1, 2}}
    \cup
    {[instrument_id |-> "CALL", asset_class |-> class, side |-> side, lot |-> 1] :
       side \in {"BUY", "SELL"}, class \in AssetClasses}

MCPerUnit == [c \in AssetClasses |-> IF c = "OPTION" THEN 2 ELSE 1]
=============================================================================
