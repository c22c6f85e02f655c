---------------------------- MODULE ReliableLink ----------------------------
(***************************************************************************)
(* What a Datagram link promises over a network that loses, repeats and    *)
(* reorders: every payload is delivered at most once, and once unless the  *)
(* link is given up.  Order is not promised.                               *)
(***************************************************************************)
EXTENDS Integers, Sequences

CONSTANT Payloads   \* payloads are told apart by when they were sent: numbers

VARIABLES
    sent,       \* payloads handed to the link
    out,        \* payloads delivered, in order
    up          \* the link has not been given up

linkVars == <<sent, out, up>>

Delivered == {out[i] : i \in DOMAIN out}

LinkInit == sent = {} /\ out = <<>> /\ up = TRUE

Put(n) ==
    /\ n \notin sent
    /\ sent' = sent \union {n}
    /\ UNCHANGED <<out, up>>

Get(n) ==
    /\ n \in sent \ Delivered
    /\ out' = Append(out, n)
    /\ UNCHANGED <<sent, up>>

Break ==
    /\ up' = FALSE
    /\ UNCHANGED <<sent, out>>

LinkNext == (\E n \in Payloads : Put(n) \/ Get(n)) \/ Break

\* Every payload is delivered, or the link is given up and its owner told.
Honest == \A n \in Payloads : n \in sent ~> n \in Delivered \/ ~ up

LinkSpec == LinkInit /\ [][LinkNext]_linkVars /\ Honest
=============================================================================
