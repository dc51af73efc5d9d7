--------------------------- MODULE MCHouseholdRules ---------------------------
\* A home of this computer and one phone; a shop, its advertising and its clock;
\* two calls, which differ in nothing.
EXTENDS HouseholdRules

CONSTANTS Phone, Ads, C1, C2

Shop == <<"com", "shop">>
ShopAds == <<"com", "shop", "ads">>
ShopTime == <<"com", "shop", "time">>

MCLabels == {"com", "shop", "ads", "time"}
MCNames == {Shop, ShopAds, ShopTime}
MCEntries == [n \in {ShopAds, ShopTime} |-> IF n = ShopAds THEN Ads ELSE Expected]
MCContracts == {ShopAds}
MCCalls == Permutations({C1, C2})

=============================================================================
