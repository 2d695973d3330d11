---------------------------- MODULE MarketSettles ----------------------------
(***************************************************************************)
(* The market implements Settlement: what sellers have earned and buyers   *)
(* have spent is read off the ledger's log, so the mapping sees money that *)
(* moved and not what a status claims.  Tasks, the open transaction, time, *)
(* crashes, settings and threads are internal.                             *)
(***************************************************************************)
EXTENDS Market

Spent(q) == Volume(books.log, RowsOfInvoice(q, "query_price"))

Promise == INSTANCE Settlement WITH
  Reward <- PublishReward,
  Fee    <- ListingFee,
  Price  <- QueryPrice,
  earned <- [e \in Events |-> Earned(e)],
  deal   <- [e \in Events |-> escrow[e].status],
  bill   <- invoice,
  spent  <- [q \in Queries |-> Spent(q)]

\* payout.py, executor.py: every committed transaction of the market is one
\* promised deal or invisible; in particular a royalty transaction pays all
\* citations or none, and no crash or failure leaves half a deal.
MarketSettlesDeals == Promise!Spec
=============================================================================
