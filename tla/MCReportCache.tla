---------------------------- MODULE MCReportCache ----------------------------
(***************************************************************************)
(* Instances of ReportCache for TLC: one period that ends on day 0, seen    *)
(* for a few days more.                                                    *)
(***************************************************************************)
EXTENDS ReportCache, TLC

CONSTANTS c1, c2

\* A day's sales come a day later than the code counts on, which the day it
\* adds makes up for; so may statistics, which are called complete before the
\* last of them is in.  Earnings and a month's sales are there in time.
Lags == [daily |-> 2, monthly |-> 2, stats |-> 3, earnings |-> 2]
Claims == [daily |-> 1, monthly |-> 3, stats |-> 2, earnings |-> 4]

Alike == Permutations(Calls)
=============================================================================
