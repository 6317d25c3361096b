------------------------------ MODULE Calendar ------------------------------
(* Trading days (market_data/calendar.py).  A timestamp is a number of     *)
(* hours since a Monday, 0:00 UTC; a session has the hours its market's    *)
(* zone is ahead of UTC and the local days on which the market is closed.  *)
EXTENDS Integers

TradingSession == [offset: -12..14, holidays: SUBSET Int]

LocalDay(timestamp, session) == (timestamp + session.offset) \div 24

IsTradingDay(timestamp, session) ==
    /\ LocalDay(timestamp, session) % 7 < 5
    /\ LocalDay(timestamp, session) \notin session.holidays
=============================================================================
