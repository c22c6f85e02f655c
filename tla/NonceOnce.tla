------------------------------ MODULE NonceOnce -----------------------------
(***************************************************************************)
(* What the nonce allocation of the proxy promises, without segments,      *)
(* cursors or ledgers: the nonces of a job are a stock, a grant moves some *)
(* of the stock to one miner, nothing ever returns to the stock, and the   *)
(* next job of the link starts a new stock.  Two miners therefore never    *)
(* search the same nonce of the same job (README, Proxy: "it slices the    *)
(* nonce space so no two miners overlap").                                 *)
(***************************************************************************)
CONSTANTS
    Links,      \* pool links
    Holders,    \* miners, and who stands for the miners that have left
    Gone,       \* the holder that stands for the miners that have left
    Nonces      \* the nonces a job can have

VARIABLES
    free,       \* free[l]: nonces of the job of link l not granted yet
    held        \* held[l][h]: nonces of that job granted to h

onceVars == <<free, held>>

OnceInit ==
    /\ free = [l \in Links |-> {}]
    /\ held = [l \in Links |-> [h \in Holders |-> {}]]

\* A new job on the link.
Publish(l, stock) ==
    /\ free' = [free EXCEPT ![l] = stock]
    /\ held' = [held EXCEPT ![l] = [h \in Holders |-> {}]]

\* A grant: some of the stock goes to one miner.
Hand(l, h, some) ==
    /\ some # {} /\ some \subseteq free[l]
    /\ free' = [free EXCEPT ![l] = @ \ some]
    /\ held' = [held EXCEPT ![l][h] = @ \union some]

\* A miner leaves: what it held is not handed out again.
Leave(h) ==
    /\ held' = [l \in Links |->
                   [held[l] EXCEPT ![Gone] = @ \union held[l][h], ![h] = {}]]
    /\ UNCHANGED free

OnceNext ==
    \/ \E l \in Links, stock \in SUBSET Nonces : Publish(l, stock)
    \/ \E l \in Links, h \in Holders \ {Gone} :
          \E some \in SUBSET free[l] : Hand(l, h, some)
    \/ \E h \in Holders \ {Gone} : Leave(h)

OnceSpec == OnceInit /\ [][OnceNext]_onceVars

\* No nonce of a job is with two holders, or with one and still in stock.
HeldOnce ==
    \A l \in Links : \A h \in Holders :
        /\ held[l][h] \intersect free[l] = {}
        /\ \A g \in Holders \ {h} : held[l][h] \intersect held[l][g] = {}
=============================================================================
