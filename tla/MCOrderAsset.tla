---------------------------- MODULE MCOrderAsset ----------------------------
(* Assets of either pricing and of every kind of template.                  *)
EXTENDS OrderAsset

Asset(pricing, template, sameToken, feeGiven) ==
  [pricing |-> pricing, template |-> template, sameToken |-> sameToken,
   feeGiven |-> feeGiven]

\* Everything that can be asked for, unsupported pricings and templates included.
MCAllAssets ==
  {Asset(p, t, s, g) : p \in {"fixed", "free", "NOT_ALLOWED"}, t \in 1..4,
                       s \in BOOLEAN, g \in BOOLEAN}

\* Fetched fees, in a token of their own.
MCFetchedAssets ==
  {Asset(p, t, FALSE, FALSE) : p \in {"fixed", "free"}, t \in {1, 4}}

\* One token for the fee and the price.
MCSharedAssets == {Asset("fixed", 2, TRUE, TRUE)}
=============================================================================
