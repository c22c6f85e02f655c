------------------------------ MODULE Datagram ------------------------------
(***************************************************************************)
(* One direction of a Datagram link of src/js/udp.ts: the outbox of one    *)
(* end, the window of numbers seen of the other, and the network between.  *)
(*                                                                         *)
(* A payload is its number.  The network loses, repeats and reorders: what *)
(* was written once may arrive any number of times, or never.  There is    *)
(* one limit: no copy arrives Lag or more numbers after the newest that    *)
(* has arrived.  Due times become a choice: any part of the outbox may be  *)
(* due when the sweeper runs.                                              *)
(***************************************************************************)
EXTENDS Integers, Sequences, FiniteSets

CONSTANTS
    Retries,    \* RETRIES
    Window,     \* SEEN_WINDOW
    Lag,        \* how late a copy may be
    MaxSend     \* bound: payloads sent

ASSUME DatagramAssumption ==
    /\ Retries \in Nat \ {0} /\ Window \in Nat \ {0} /\ MaxSend \in Nat
    /\ Lag \in Nat \ {0} /\ 2 * Lag - 2 < Window

Numbers == 1 .. MaxSend

Empty == -1         \* a place of the ring not used yet

VARIABLES
    seq,        \* Datagram.seq of the sender
    outbox,     \* outbox[n]: how often n has been sent, for n without an ack
    waiting,    \* the sender is in the set the sweeper looks at
    up,         \* its owner has not dropped the link
    wire, acks, \* the numbers, and the acks of numbers, that were written
    seen, ring, at,  \* the receiver's window
    delivered   \* what it delivered, in order

sender   == <<seq, outbox, waiting, up>>
receiver == <<seen, ring, at, delivered>>
vars     == <<seq, outbox, waiting, up, wire, acks, seen, ring, at, delivered>>

Nothing == [n \in {} |-> 0]

Init ==
    /\ seq = 0 /\ outbox = Nothing /\ waiting = FALSE /\ up = TRUE
    /\ wire = {} /\ acks = {}
    /\ seen = {} /\ ring = [k \in 0 .. Window - 1 |-> Empty] /\ at = 0
    /\ delivered = <<>>

-----------------------------------------------------------------------------
\* send(): also on a link that was stopped, when a handler of UdpEdge answers
\* after its peer was dropped.
Send ==
    /\ seq < MaxSend
    /\ seq' = seq + 1
    /\ outbox' = [n \in DOMAIN outbox \union {seq + 1} |->
                    IF n = seq + 1 THEN 1 ELSE outbox[n]]
    /\ wire' = wire \union {seq + 1}
    /\ waiting' = TRUE
    /\ UNCHANGED <<up, acks, receiver>>

Drop(box, ns) == [n \in DOMAIN box \ ns |-> box[n]]

Again(box, ns) == [n \in DOMAIN box |-> IF n \in ns THEN box[n] + 1 ELSE box[n]]

\* resend() when no entry that is due has used its tries.
Resend(due) ==
    /\ waiting /\ due # {} /\ due \subseteq DOMAIN outbox
    /\ \A n \in due : outbox[n] < Retries
    /\ outbox' = Again(outbox, due)
    /\ wire' = wire \union due
    /\ UNCHANGED <<seq, waiting, up, acks, receiver>>

\* resend() that comes to an entry which has: those before it are sent again,
\* and dead() is called.  The owner stops the link it still has, which empties
\* the outbox; one it has dropped already it does not find.
GiveUp(due, n) ==
    /\ waiting /\ n \in due /\ due \subseteq DOMAIN outbox
    /\ outbox[n] >= Retries
    /\ \A m \in due : m < n => outbox[m] < Retries
    /\ LET before == {m \in due : m < n}
       IN  /\ wire' = wire \union before
           /\ outbox' = IF up THEN Nothing ELSE Drop(Again(outbox, before), {n})
    /\ waiting' = FALSE
    /\ up' = FALSE
    /\ UNCHANGED <<seq, acks, receiver>>

\* stop(): the owner drops the link for another reason (a reset, a time-out).
Stop ==
    /\ up
    /\ up' = FALSE /\ waiting' = FALSE /\ outbox' = Nothing
    /\ UNCHANGED <<seq, wire, acks, receiver>>

\* mutant: an ack stops the retransmission of everything
ReceiveAckAll(n) ==
    /\ n \in acks
    /\ outbox' = Drop(outbox, {n})
    /\ waiting' = (waiting /\ n \notin DOMAIN outbox)
    /\ UNCHANGED <<seq, up, wire, acks, receiver>>

\* mutant: an ack stands for all numbers up to it
ReceiveAckUpTo(n) ==
    /\ n \in acks
    /\ outbox' = Drop(outbox, 1 .. n)
    /\ waiting' = (waiting /\ outbox' # Nothing)
    /\ UNCHANGED <<seq, up, wire, acks, receiver>>

\* receive() of an ack.
ReceiveAck(n) ==
    /\ n \in acks
    /\ outbox' = Drop(outbox, {n})
    /\ waiting' = (waiting /\ (n \in DOMAIN outbox => DOMAIN outbox # {n}))
    /\ UNCHANGED <<seq, up, wire, acks, receiver>>

-----------------------------------------------------------------------------
\* A copy is not too late: no number that has arrived is Lag above it.
Timely(n) == \A i \in DOMAIN delivered : delivered[i] < n + Lag

\* receive() of a number that was seen: it is acknowledged again.
ReceiveAgain(n) ==
    /\ n \in wire /\ Timely(n)
    /\ n \in seen
    /\ acks' = acks \union {n}
    /\ UNCHANGED <<sender, wire, receiver>>

\* mutant: the ring does not turn
ReceiveStuck(n) ==
    /\ n \in wire /\ Timely(n)
    /\ n \notin seen
    /\ acks' = acks \union {n}
    /\ seen' = (seen \ {ring[at]}) \union {n}
    /\ ring' = [ring EXCEPT ![at] = n]
    /\ delivered' = Append(delivered, n)
    /\ UNCHANGED <<sender, wire, at>>

\* receive() of a number that is not in the window: it takes the place of the
\* oldest, and the payload is delivered.
Receive(n) ==
    /\ n \in wire /\ Timely(n)
    /\ n \notin seen
    /\ acks' = acks \union {n}
    /\ seen' = (seen \ {ring[at]}) \union {n}
    /\ ring' = [ring EXCEPT ![at] = n]
    /\ at' = (at + 1) % Window
    /\ delivered' = Append(delivered, n)
    /\ UNCHANGED <<sender, wire>>

-----------------------------------------------------------------------------
\* A turn of the sweeper.
Sweep == \E due \in SUBSET DOMAIN outbox : Resend(due) \/ \E n \in due : GiveUp(due, n)

Next ==
    \/ Send \/ Stop \/ Sweep
    \/ \E n \in Numbers : ReceiveAck(n) \/ ReceiveAgain(n) \/ Receive(n)

Spec == Init /\ [][Next]_vars

\* The interval timer of the sweeper runs.  The network owes nothing.
FairSpec == Spec /\ WF_vars(Sweep)

-----------------------------------------------------------------------------
\* Type invariant.
TypeOK ==
    /\ seq \in 0 .. MaxSend
    /\ DOMAIN outbox \subseteq 1 .. seq
    /\ \A n \in DOMAIN outbox : outbox[n] \in 1 .. Retries
    /\ waiting \in BOOLEAN /\ up \in BOOLEAN
    /\ wire \subseteq 1 .. seq /\ acks \subseteq 1 .. seq
    /\ seen \subseteq 1 .. seq
    /\ ring \in [0 .. Window - 1 -> Numbers \union {Empty}] /\ at \in 0 .. Window - 1
    /\ delivered \in Seq(1 .. seq)

\* No payload is delivered twice: the window of the last numbers that arrived
\* recognises every copy that is not too late, although it is in order of
\* arrival and not of number (Datagram.receive).
AtMostOnce == \A i, j \in DOMAIN delivered : i # j => delivered[i] # delivered[j]

\* While the owner has the link, nothing is lost without its knowing: what has
\* not been delivered is kept, and retransmitted (send, resend, receive).
NothingLost ==
    up => \A n \in 1 .. seq :
        \/ \E i \in DOMAIN delivered : delivered[i] = n
        \/ n \in DOMAIN outbox /\ waiting

\* The link keeps what ReliableLink promises, liveness included.
Link == INSTANCE ReliableLink WITH Payloads <- Numbers, sent <- 1 .. seq, out <- delivered

ImplementsLink == Link!LinkSpec
=============================================================================
