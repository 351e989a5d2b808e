-------------------------- MODULE MCCheckoutStock --------------------------
\* One customer buys, and the order comes back: how many units the shop starts with.
EXTENDS CheckoutStock

CONSTANTS SeedUnits

MCSeed == [v \in Variants |-> SeedUnits]
=============================================================================
