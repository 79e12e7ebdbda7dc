-------------------------- MODULE MCTronApprovals --------------------------
\* Instances of TronApprovals for TLC.
EXTENDS TronApprovals, TLC

CONSTANTS a1, a2, s1, s2, other

\* One list that takes two pages, with a spender that comes twice and another
\* token between; one with a spender beyond MaxSpenders.
MCListing == a1 :> <<s1, other, s1>> @@ a2 :> <<s1, s2>>
MCDays == 0..1
MCRequests == 1..2
MCInstances == 1..2
=============================================================================
