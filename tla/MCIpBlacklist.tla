-------------------------- MODULE MCIpBlacklist --------------------------
(* Small instances of the IP blacklist: "a" is a prefix of "ab".           *)
EXTENDS IpBlacklist

PrefixPairs == {<<"a", "ab">>}

Entry(ip, user, active) ==
    [id |-> Null, ip |-> ip, list |-> "l1", user |-> user, active |-> active, admin |-> 7]

\* Entries for everyone or for one user, one with an id of its own, and calls
\* that Insert refuses.
Entries ==
    {Entry("a", Null, TRUE), Entry("ab", 1, FALSE), Entry("ab", 9, TRUE),
     [Entry("ab", Null, TRUE) EXCEPT !.id = 2], [Entry("a", Null, TRUE) EXCEPT !.list = Null]}

\* Off, on under another list, and calls that Update refuses.
Toggles ==
    {Entry(Null, Null, FALSE), [Entry(Null, Null, TRUE) EXCEPT !.list = "l2", !.admin = 8],
     [Entry(Null, Null, TRUE) EXCEPT !.admin = Null],
     Entry(Null, Null, Null), [Entry(Null, Null, TRUE) EXCEPT !.list = Null]}

ChangeFilters ==
    {NoFilter, [NoFilter EXCEPT !.ip = "a"], [NoFilter EXCEPT !.ips = {"a"}],
     [NoFilter EXCEPT !.everyone = TRUE], [NoFilter EXCEPT !.everyone = FALSE],
     [NoFilter EXCEPT !.id = 1], [NoFilter EXCEPT !.ids = {2, 3}]}

ListFilters == {NoFilter, [NoFilter EXCEPT !.active = TRUE, !.admin = 7]}
===========================================================================
