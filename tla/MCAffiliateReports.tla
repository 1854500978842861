------------------------ MODULE MCAffiliateReports ------------------------
(* Small instances of the statistics pages.                                 *)
EXTENDS AffiliateReports, TLC

\* Nothing happens on day 2.
TwoDays == {1, 3}
EarlierDays == {1, 2}

\* A payment of day 3 may be converted by the rates of the day before, which are
\* known when those of day 3 are not.
NightBefore == [d \in TwoDays |-> IF d = 3 THEN {2, 3} ELSE {d}]

\* Two accounts that share an affiliate id under different names, and a third.
SharedId == {[id |-> 1, affiliateId |-> 1, name |-> "n"], [id |-> 2, affiliateId |-> 1, name |-> "m"],
             [id |-> 3, affiliateId |-> 2, name |-> "n"]}

\* A page of the range: of all affiliates, rows 1 to 9.
Ask(asked, start, end) ==
    [page |-> asked, from |-> start, to |-> end, affiliateId |-> Null, names |-> Names,
     limit |-> 9, offset |-> 0]
One(request, name) == [request EXCEPT !.affiliateId = 1, !.names = {name}]

\* Gaps before, between and after the days; a range of one day; no range.
ChartRequests == {Ask("chart", 1, 3), Ask("chart", 0, 4), Ask("chart", 3, 3), Ask("chart", Null, 3)}
\* One row, all but one, one affiliate's by a name, and every row of a range
\* without a first day.
GridRequests ==
    {[Ask("grid", 1, 3) EXCEPT !.limit = 1], [Ask("grid", 2, 3) EXCEPT !.offset = 1],
     One(Ask("grid", 2, 3), "n"), Ask("grid", Null, 2)}
TotalRequests == {Ask("totals", 1, 3), One(Ask("totals", 2, 3), "n"), Ask("totals", 2, Null)}

Requests == ChartRequests \cup GridRequests \cup TotalRequests
WholeChart == {Ask("chart", 1, 3)}
WholeGrid == {Ask("grid", 1, 3)}

Symmetric == Permutations(Trxs) \cup Permutations(Users)
===========================================================================
