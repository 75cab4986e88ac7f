---------------------------- MODULE MCAuctionPage ----------------------------
(* Instances of AuctionPage for TLC.                                       *)
EXTENDS AuctionPage

CONSTANTS lot, s, b

(* A wallet that is connected from the start and stays on its network, save *)
(* for `changes`; a visitor without a wallet connects while he is there.   *)
Use(kinds, actions, pages, who, changes0, moves0, edits0) ==
  [kinds |-> kinds, actions |-> actions, pages |-> pages,
   account |-> who, chain |-> IF who = NoAccount THEN "other" ELSE "sepolia",
   requests |-> who = NoAccount, changes |-> changes0, moves |-> moves0, edits |-> edits0]

(* Each pair of actions is used together while the wallet is left alone,   *)
(* and one at a time while its account or its network changes.             *)
Uses == {
  Use({"lock", "bid"}, 2, {"auction"}, b, 0, 0, 0),
  Use({"lock", "bid"}, 1, {"auction"}, b, 1, 0, 0),
  Use({"trigger", "claim"}, 2, {"auction"}, s, 0, 2, 0),
  Use({"claim"}, 1, {"auction"}, s, 1, 3, 0),
  Use({"cancel", "payout"}, 2, {"auction"}, s, 0, 0, 0),
  Use({"cancel", "payout"}, 1, {"auction"}, s, 1, 0, 0),
  Use({"create"}, 2, {"create"}, s, 1, 0, 1),
  Use({"create"}, 1, {"create"}, s, 0, 0, 3),
  Use({}, 0, {"auction", "portfolio"}, b, 0, 4, 0),
  Use({}, 0, {"auction"}, NoAccount, 0, 0, 0) }
=============================================================================
