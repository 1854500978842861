----------------------- MODULE MCAffiliateAccounts -----------------------
(* Instances of AffiliateAccounts for TLC. *)
EXTENDS AffiliateAccounts, TLC

CONSTANTS e1, e2

WithEmail(e) == [NoAccount EXCEPT !.email = e, !.fee = DefaultUserFee]

\* Two complete accounts and one without the required fee.
InsertTwo == {WithEmail(e) : e \in Emails}
InsertMixed == InsertTwo \cup {[NoAccount EXCEPT !.email = e1]}
InsertOne == {WithEmail(e1), [WithEmail(e1) EXCEPT !.id = 1]}

\* Updates of single columns, and one without the row's id.
UpdateNone == {}
UpdateId == {NoAccount, [NoAccount EXCEPT !.id = 1, !.affiliateId = 2]}
UpdateEmail == {[NoAccount EXCEPT !.id = 1, !.email = e2]}

OneUnit == {1}

\* E-mails are interchangeable where no account names one of them.
Symmetric == Permutations(Sessions) \cup Permutations(Emails)
=============================================================================
