---------------------------- MODULE PageAccounts ----------------------------
(***************************************************************************)
(* The accounts of the visitors of the marketplace pages; NoAccount is the *)
(* zero address of the market and the missing account of a session.        *)
(***************************************************************************)
CONSTANTS Accounts, NoAccount

ASSUME PageAccountsAssumption == NoAccount \notin Accounts

MaybeAccount == Accounts \cup {NoAccount}
=============================================================================
