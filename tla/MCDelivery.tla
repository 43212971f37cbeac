------------------------------ MODULE MCDelivery ------------------------------
EXTENDS Delivery, TLC

CONSTANTS m1, m2, m3, g1, g2, c1, c2

\* Two messages on the account, of two campaigns; one whose provider queues.
CampaignOfThree == (m1 :> g1 @@ m2 :> g2 @@ m3 :> g1)
=============================================================================
