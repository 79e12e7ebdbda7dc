------------------------- MODULE MCTransactionIndex ------------------------
(* TransactionIndex on a small chain: a native transfer and the ERC-20      *)
(* transfer it makes, and a transfer that reverts.                          *)
EXTENDS TransactionIndex, TLC

CONSTANTS t1, t2, l1, w1, w2

MCTxs      == {t1, t2}
MCLogs     == {l1}
MCWallets  == {w1, w2}
MCTxOf     == [l \in {l1} |-> t1]
MCParties  == (t1 :> {w1} @@ t2 :> {w1}) @@ (l1 :> {w1, w2})
MCFrom     == [l \in {l1} |-> {w1}]
MCTo       == [l \in {l1} |-> {w2}]
MCReverted == {t2}

\* The native transfers alone, of a single wallet.
OneWallet   == {w1}
NativeParty == [t \in {t1, t2} |-> {w1}]
NoLogs      == [l \in {} |-> t1]

\* Nothing distinguishes the instances.
Instances == Permutations(Scanners)
=============================================================================
