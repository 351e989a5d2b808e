------------------------- MODULE MCPaymentProtocol -------------------------
EXTENDS PaymentProtocol, Naturals, TLC

VARIABLE setting  \* two charges and one request at a time, or two requests and one charge

mcVars == <<vars, setting>>

Symmetry == Permutations(Charges) \cup Permutations(Requests)

OneAtATime == Cardinality({w \in Requests : work'[w] # Resting}) <= 1
OneCharge  == Cardinality({c \in Charges : att'[c] # "NONE"}) <= 1

MCInit == setting \in {"charges", "requests"} /\ Init
MCNext == /\ Next /\ UNCHANGED setting
          /\ IF setting = "charges" THEN OneAtATime ELSE OneCharge
MCSpec == MCInit /\ [][MCNext]_mcVars
=============================================================================
