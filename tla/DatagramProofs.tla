--------------------------- MODULE DatagramProofs ---------------------------
(* What a Datagram link keeps, for every number of payloads and tries and   *)
(* every window.                                                            *)
EXTENDS Datagram, FiniteSetTheorems, TLAPS

Got == {delivered[i] : i \in DOMAIN delivered}

\* An ack, and a place in the window, stand for a payload that was delivered.
AckedIsGot == acks \subseteq Got
SeenIsGot  == seen \subseteq Got

\* A link that is up and has something to send again is looked at.
KeptIsWatched == up /\ DOMAIN outbox # {} => waiting

\* What has not been delivered is kept.
Kept == up => 1 .. seq \subseteq Got \union DOMAIN outbox

IInv == TypeOK /\ AckedIsGot /\ SeenIsGot /\ KeptIsWatched /\ Kept

-----------------------------------------------------------------------------
\* The part of TypeOK the sender and the network can change.
SenderType ==
    /\ seq \in 0 .. MaxSend
    /\ DOMAIN outbox \subseteq 1 .. seq
    /\ \A n \in DOMAIN outbox : outbox[n] \in 1 .. Retries
    /\ waiting \in BOOLEAN /\ up \in BOOLEAN
    /\ wire \subseteq 1 .. seq /\ acks \subseteq 1 .. seq

\* The part the receiver can.
ReceiverType ==
    /\ seen \subseteq 1 .. seq
    /\ ring \in [0 .. Window - 1 -> Numbers \union {Empty}] /\ at \in 0 .. Window - 1
    /\ delivered \in Seq(1 .. seq)

LEMMA TypeParts == TypeOK <=> SenderType /\ ReceiverType
BY DEF TypeOK, SenderType, ReceiverType

LEMMA TypePartsNext == SenderType' /\ ReceiverType' => TypeOK'
BY DEF TypeOK, SenderType, ReceiverType

\* What is dropped, sent again or put away is gone, counted or gone.
LEMMA DropDomain ==
    ASSUME NEW box, NEW ns
    PROVE  /\ DOMAIN Drop(box, ns) = DOMAIN box \ ns
           /\ \A n \in DOMAIN box \ ns : Drop(box, ns)[n] = box[n]
BY DEF Drop

LEMMA AgainDomain ==
    ASSUME NEW box, NEW ns
    PROVE  /\ DOMAIN Again(box, ns) = DOMAIN box
           /\ \A n \in DOMAIN box : Again(box, ns)[n] = IF n \in ns THEN box[n] + 1 ELSE box[n]
BY DEF Again

LEMMA NothingDomain == DOMAIN Nothing = {}
BY DEF Nothing

LEMMA WiderSeq ==
    ASSUME NEW a \in Nat, NEW s \in Seq(1 .. a)
    PROVE  s \in Seq(1 .. (a + 1))
<1>1. \A i \in 1 .. Len(s) : s[i] \in 1 .. (a + 1)
  OBVIOUS
<1>2. s = [i \in 1 .. Len(s) |-> s[i]]
  OBVIOUS
<1> QED
  BY <1>1, <1>2

LEMMA SeqElements ==
    ASSUME NEW S, NEW s \in Seq(S)
    PROVE  /\ Len(s) \in Nat /\ DOMAIN s = 1 .. Len(s)
           /\ \A i \in 1 .. Len(s) : s[i] \in S
OBVIOUS

LEMMA InitIInv == Init => IInv
<1> SUFFICES ASSUME Init PROVE IInv
  OBVIOUS
<1>1. SenderType
  <2>1. DOMAIN outbox = {} /\ waiting = FALSE /\ up = TRUE
    BY NothingDomain DEF Init
  <2>2. waiting \in BOOLEAN /\ up \in BOOLEAN
    BY <2>1
  <2>3. seq \in 0 .. MaxSend /\ wire \subseteq 1 .. seq /\ acks \subseteq 1 .. seq
    BY DatagramAssumption DEF Init
  <2> QED
    BY <2>1, <2>2, <2>3 DEF SenderType
<1>2. ring \in [0 .. Window - 1 -> Numbers \union {Empty}] /\ at \in 0 .. Window - 1
  BY DatagramAssumption DEF Init
<1>3. ReceiverType
  BY <1>2 DEF Init, ReceiverType
<1>4. AckedIsGot /\ SeenIsGot /\ KeptIsWatched /\ Kept
  BY NothingDomain DEF Init, AckedIsGot, SeenIsGot, KeptIsWatched, Kept
<1> QED
  BY <1>1, <1>3, <1>4, TypeParts DEF IInv

LEMMA SendStep == ASSUME IInv, Send PROVE IInv'
<1>1. SenderType /\ ReceiverType
  BY TypeParts DEF IInv
<1>2. /\ seq < MaxSend /\ seq' = seq + 1 /\ seq \in Nat /\ waiting' = TRUE
      /\ wire' = wire \union {seq + 1}
      /\ UNCHANGED <<up, acks, seen, ring, at, delivered>>
  BY <1>1, DatagramAssumption DEF Send, SenderType, receiver
<1>3. /\ DOMAIN outbox' = DOMAIN outbox \union {seq + 1}
      /\ \A n \in DOMAIN outbox' : outbox'[n] = IF n = seq + 1 THEN 1 ELSE outbox[n]
  BY DEF Send
<1>4. SenderType'
  BY <1>1, <1>2, <1>3, DatagramAssumption DEF SenderType
<1>5. delivered' \in Seq(1 .. seq')
  BY <1>1, <1>2, WiderSeq DEF ReceiverType
<1>6. ReceiverType'
  BY <1>1, <1>2, <1>5 DEF ReceiverType
<1>7. Got' = Got
  BY <1>2 DEF Got
<1>8. AckedIsGot' /\ SeenIsGot' /\ KeptIsWatched'
  BY <1>2, <1>7 DEF IInv, AckedIsGot, SeenIsGot, KeptIsWatched
<1>9. Kept'
  BY <1>2, <1>3, <1>7 DEF IInv, Kept
<1> QED
  BY <1>4, <1>6, <1>8, <1>9, TypePartsNext DEF IInv

\* A step of the sender that changes neither numbers nor what was delivered.
LEMMA SenderStep ==
    ASSUME IInv, SenderType', UNCHANGED <<seq, acks, receiver>>, KeptIsWatched', Kept'
    PROVE  IInv'
<1>1. ReceiverType'
  BY TypeParts DEF IInv, ReceiverType, receiver
<1>2. Got' = Got
  BY DEF Got, receiver
<1>3. AckedIsGot' /\ SeenIsGot'
  BY <1>2 DEF IInv, AckedIsGot, SeenIsGot, receiver
<1> QED
  BY <1>1, <1>3, TypePartsNext DEF IInv

LEMMA ResendStep ==
    ASSUME IInv, NEW due \in SUBSET DOMAIN outbox, Resend(due)
    PROVE  IInv'
<1>1. SenderType
  BY TypeParts DEF IInv
<1>2. /\ UNCHANGED <<seq, waiting, up, acks, receiver>>
      /\ outbox' = Again(outbox, due) /\ wire' = wire \union due
      /\ \A n \in due : outbox[n] < Retries
  BY DEF Resend
<1>3. DOMAIN outbox' = DOMAIN outbox
  BY <1>2, AgainDomain
<1>4. \A n \in DOMAIN outbox' : outbox'[n] \in 1 .. Retries
  BY <1>1, <1>2, <1>3, AgainDomain, DatagramAssumption DEF SenderType
<1>5. SenderType'
  BY <1>1, <1>2, <1>3, <1>4 DEF SenderType
<1>6. KeptIsWatched' /\ Kept'
  BY <1>2, <1>3 DEF IInv, KeptIsWatched, Kept, Got, receiver
<1> QED
  BY <1>2, <1>5, <1>6, SenderStep

LEMMA GiveUpStep ==
    ASSUME IInv, NEW due \in SUBSET DOMAIN outbox, NEW n \in due, GiveUp(due, n)
    PROVE  IInv'
<1> DEFINE before == {m \in due : m < n}
<1>1. SenderType
  BY TypeParts DEF IInv
<1>2. /\ UNCHANGED <<seq, acks, receiver>> /\ waiting' = FALSE /\ up' = FALSE
      /\ wire' = wire \union before
      /\ outbox' = IF up THEN Nothing ELSE Drop(Again(outbox, before), {n})
      /\ \A m \in before : outbox[m] < Retries
  BY DEF GiveUp
<1> HIDE DEF before
<1>3. before \subseteq DOMAIN outbox
  BY DEF before
<1>4. /\ DOMAIN outbox' \subseteq DOMAIN outbox
      /\ \A m \in DOMAIN outbox' : outbox'[m] \in 1 .. Retries
  <2>1. CASE up
    BY <1>2, <2>1, NothingDomain
  <2>2. CASE ~ up
    <3>1. outbox' = Drop(Again(outbox, before), {n})
      BY <1>2, <2>2
    <3> DEFINE box == Again(outbox, before)
    <3>2. DOMAIN box = DOMAIN outbox /\ \A m \in DOMAIN box : box[m] \in 1 .. Retries
      BY <1>1, <1>2, AgainDomain, DatagramAssumption DEF SenderType
    <3> HIDE DEF box
    <3>3. DOMAIN Drop(box, {n}) = DOMAIN box \ {n}
      BY DropDomain
    <3>4. \A m \in DOMAIN box \ {n} : Drop(box, {n})[m] = box[m]
      BY DropDomain
    <3>5. outbox' = Drop(box, {n})
      BY <3>1 DEF box
    <3> QED
      BY <3>2, <3>3, <3>4, <3>5
  <2> QED
    BY <2>1, <2>2
<1>5. SenderType'
  BY <1>1, <1>2, <1>3, <1>4 DEF SenderType
<1>6. KeptIsWatched' /\ Kept'
  BY <1>2 DEF KeptIsWatched, Kept
<1> QED
  BY <1>2, <1>5, <1>6, SenderStep

LEMMA StopStep == ASSUME IInv, Stop PROVE IInv'
<1>1. SenderType'
  BY TypeParts, NothingDomain DEF IInv, Stop, SenderType
<1>2. KeptIsWatched' /\ Kept'
  BY DEF Stop, KeptIsWatched, Kept
<1> QED
  BY <1>1, <1>2, SenderStep DEF Stop

LEMMA ReceiveAckStep ==
    ASSUME IInv, NEW n \in Numbers, ReceiveAck(n)
    PROVE  IInv'
<1>1. SenderType
  BY TypeParts DEF IInv
<1>2. /\ n \in acks /\ UNCHANGED <<seq, up, wire, acks, receiver>>
      /\ waiting' = (waiting /\ (n \in DOMAIN outbox => DOMAIN outbox # {n}))
  BY DEF ReceiveAck
<1>3. /\ DOMAIN outbox' = DOMAIN outbox \ {n}
      /\ \A m \in DOMAIN outbox' : outbox'[m] = outbox[m]
  <2>1. outbox' = Drop(outbox, {n})
    BY DEF ReceiveAck
  <2>2. DOMAIN Drop(outbox, {n}) = DOMAIN outbox \ {n}
    BY DropDomain
  <2>3. \A m \in DOMAIN outbox \ {n} : Drop(outbox, {n})[m] = outbox[m]
    BY DropDomain
  <2> QED
    BY <2>1, <2>2, <2>3
<1>4. waiting' \in BOOLEAN
  BY <1>2
<1>5. SenderType'
  BY <1>1, <1>2, <1>3, <1>4 DEF SenderType
<1>6. n \in Got
  BY <1>2 DEF IInv, AckedIsGot
<1>7. Kept'
  BY <1>2, <1>3, <1>6 DEF IInv, Kept, Got, receiver
<1>8. KeptIsWatched'
  <2>1. SUFFICES ASSUME up, DOMAIN outbox \ {n} # {} PROVE waiting'
    BY <1>2, <1>3 DEF KeptIsWatched
  <2>2. waiting
    BY <2>1 DEF IInv, KeptIsWatched
  <2> QED
    BY <1>2, <2>1, <2>2
<1> QED
  BY <1>2, <1>5, <1>7, <1>8, SenderStep

LEMMA ReceiveAgainStep ==
    ASSUME IInv, NEW n \in Numbers, ReceiveAgain(n)
    PROVE  IInv'
<1>1. SenderType /\ ReceiverType
  BY TypeParts DEF IInv
<1>2. /\ n \in wire /\ n \in seen /\ acks' = acks \union {n}
      /\ UNCHANGED <<seq, outbox, waiting, up, wire, seen, ring, at, delivered>>
  BY DEF ReceiveAgain, sender, receiver
<1>3. SenderType' /\ ReceiverType'
  BY <1>1, <1>2 DEF SenderType, ReceiverType
<1>4. Got' = Got
  BY <1>2 DEF Got
<1>5. AckedIsGot' /\ SeenIsGot' /\ KeptIsWatched' /\ Kept'
  BY <1>2, <1>4 DEF IInv, AckedIsGot, SeenIsGot, KeptIsWatched, Kept
<1> QED
  BY <1>3, <1>5, TypePartsNext DEF IInv

LEMMA ReceiveStep ==
    ASSUME IInv, NEW n \in Numbers, Receive(n)
    PROVE  IInv'
<1>1. SenderType /\ ReceiverType
  BY TypeParts DEF IInv
<1>2. /\ n \in wire /\ acks' = acks \union {n}
      /\ seen' = (seen \ {ring[at]}) \union {n}
      /\ ring' = [ring EXCEPT ![at] = n]
      /\ at' = (at + 1) % Window
      /\ delivered' = Append(delivered, n)
      /\ UNCHANGED <<seq, outbox, waiting, up, wire>>
  BY DEF Receive, sender
<1>3. n \in 1 .. seq
  BY <1>1, <1>2 DEF SenderType
<1>4. SenderType'
  BY <1>1, <1>2, <1>3 DEF SenderType
<1>5. delivered' \in Seq(1 .. seq')
  BY <1>1, <1>2, <1>3 DEF ReceiverType
<1>6. at' \in 0 .. Window - 1
  BY <1>1, <1>2, DatagramAssumption DEF ReceiverType
<1>7. ring' \in [0 .. Window - 1 -> Numbers \union {Empty}]
  BY <1>1, <1>2 DEF ReceiverType
<1>8. ReceiverType'
  BY <1>1, <1>2, <1>3, <1>5, <1>6, <1>7 DEF ReceiverType
<1>9. Got' = Got \union {n}
  <2>1. /\ delivered \in Seq(1 .. seq)
        /\ DOMAIN delivered' = DOMAIN delivered \union {Len(delivered) + 1}
        /\ delivered'[Len(delivered) + 1] = n
        /\ \A i \in DOMAIN delivered : delivered'[i] = delivered[i]
    BY <1>1, <1>2 DEF ReceiverType
  <2> QED
    BY <2>1 DEF Got
<1>10. AckedIsGot' /\ SeenIsGot' /\ KeptIsWatched' /\ Kept'
  BY <1>2, <1>9 DEF IInv, AckedIsGot, SeenIsGot, KeptIsWatched, Kept
<1> QED
  BY <1>4, <1>8, <1>10, TypePartsNext DEF IInv

LEMMA Invariance == Spec => []IInv
<1>1. IInv /\ [Next]_vars => IInv'
  <2> SUFFICES ASSUME IInv, [Next]_vars PROVE IInv'
    OBVIOUS
  <2>1. CASE UNCHANGED vars
    <3>1. /\ UNCHANGED <<seq, acks, receiver>>
          /\ UNCHANGED <<outbox, waiting, up, wire, delivered>>
      BY <2>1 DEF vars, receiver
    <3>2. SenderType' /\ KeptIsWatched' /\ Kept'
      BY <3>1, TypeParts DEF IInv, SenderType, KeptIsWatched, Kept, Got
    <3> QED
      BY <3>1, <3>2, SenderStep
  <2>2. CASE Sweep
    BY <2>2, ResendStep, GiveUpStep DEF Sweep
  <2>3. CASE Send
    BY <2>3, SendStep
  <2>4. CASE Stop
    BY <2>4, StopStep
  <2>5. ASSUME NEW n \in Numbers, ReceiveAck(n) \/ ReceiveAgain(n) \/ Receive(n)
        PROVE  IInv'
    BY <2>5, ReceiveAckStep, ReceiveAgainStep, ReceiveStep
  <2> QED
    BY <2>1, <2>2, <2>3, <2>4, <2>5 DEF Next
<1> QED
  BY <1>1, InitIInv, PTL DEF Spec

\* Types; in particular nothing is sent more often than RETRIES, and the ring
\* stays within the window.
THEOREM TypeCorrect == Spec => []TypeOK
<1>1. IInv => TypeOK
  BY DEF IInv
<1> QED
  BY <1>1, Invariance, PTL

\* A payload is delivered, or is kept and sent again, or the owner knows.
THEOREM NoneLost == Spec => []NothingLost
<1>1. IInv => NothingLost
  BY DEF IInv, Kept, KeptIsWatched, Got, NothingLost
<1> QED
  BY <1>1, Invariance, PTL
-----------------------------------------------------------------------------
\* The remainder is unique, goes round, and tells apart what is less than a
\* turn apart.
LEMMA ModBounds ==
    ASSUME NEW a \in Nat, NEW b \in Nat \ {0}
    PROVE  /\ a % b \in 0 .. b - 1 /\ a \div b \in Nat
           /\ a = b * (a \div b) + (a % b)
<1>1. a % b \in 0 .. b - 1
  BY SMT
<1>2. a \div b \in Nat
  BY SMT
<1>3. a % b = a - b * (a \div b)
  BY SMT
<1>4. b * (a \div b) \in Nat /\ a = b * (a \div b) + (a % b)
  BY <1>2, <1>3
<1> QED
  BY <1>1, <1>2, <1>4

LEMMA Turn ==
    ASSUME NEW b \in Nat, NEW p \in Nat, NEW q \in Nat, p < q
    PROVE  b * p + b <= b * q
<1>1. PICK k \in Nat : q = p + 1 + k
  <2>1. q - p - 1 \in Nat /\ q = p + 1 + (q - p - 1)
    OBVIOUS
  <2> QED
    BY <2>1
<1>2. b * q = b * p + b + b * k
  BY <1>1
<1>3. b * k \in Nat /\ b * p \in Nat
  BY <1>1
<1> QED
  BY <1>2, <1>3

LEMMA ModUnique ==
    ASSUME NEW b \in Nat \ {0}, NEW q \in Nat, NEW r \in 0 .. b - 1
    PROVE  (b * q + r) % b = r
<1> DEFINE a == b * q + r
<1> DEFINE p == a \div b
<1> DEFINE m == a % b
<1>1. a \in Nat
  OBVIOUS
<1>2. p \in Nat /\ m \in 0 .. b - 1 /\ a = b * p + m
  BY <1>1, ModBounds
<1>3. b * p \in Nat /\ b * q \in Nat /\ a = b * q + r
  BY <1>2
<1> HIDE DEF a, p, m
<1>4. ~ p < q
  <2>1. p < q => b * p + b <= b * q
    BY <1>2, Turn
  <2> QED
    BY <1>2, <1>3, <2>1
<1>5. ~ q < p
  <2>1. q < p => b * q + b <= b * p
    BY <1>2, Turn
  <2> QED
    BY <1>2, <1>3, <2>1
<1>6. p = q
  BY <1>2, <1>4, <1>5
<1>7. m = r
  BY <1>2, <1>3, <1>6
<1> QED
  BY <1>7 DEF m, a

LEMMA ModNext ==
    ASSUME NEW a \in Nat, NEW b \in Nat \ {0}
    PROVE  ((a % b) + 1) % b = (a + 1) % b
<1> DEFINE q == a \div b
<1> DEFINE r == a % b
<1>1. q \in Nat /\ r \in 0 .. b - 1 /\ a = b * q + r
  BY ModBounds
<1> HIDE DEF q, r
<1>2. b * q \in Nat
  BY <1>1
<1>3. CASE r + 1 < b
  <2>1. r + 1 \in 0 .. b - 1 /\ a + 1 = b * q + (r + 1)
    BY <1>1, <1>2, <1>3
  <2>2. (a + 1) % b = r + 1
    BY <1>1, <2>1, ModUnique
  <2>3. b * 0 + (r + 1) = r + 1 /\ (b * 0 + (r + 1)) % b = r + 1
    BY <2>1, ModUnique
  <2> QED
    BY <2>2, <2>3 DEF r
<1>4. CASE r + 1 = b
  <2>1. a + 1 = b * (q + 1) + 0 /\ q + 1 \in Nat
    BY <1>1, <1>2, <1>4
  <2>2. (a + 1) % b = 0
    <3>1. 0 \in 0 .. b - 1
      OBVIOUS
    <3>2. (b * (q + 1) + 0) % b = 0
      BY <2>1, <3>1, ModUnique
    <3> QED
      BY <2>1, <3>2
  <2>3. b * 1 + 0 = b /\ (b * 1 + 0) % b = 0
    BY ModUnique
  <2> QED
    BY <1>4, <2>2, <2>3 DEF r
<1> QED
  BY <1>1, <1>3, <1>4

LEMMA ModTurn ==
    ASSUME NEW a \in Nat, NEW b \in Nat \ {0}
    PROVE  (a + b) % b = a % b
<1> DEFINE q == a \div b
<1> DEFINE r == a % b
<1>1. q \in Nat /\ r \in 0 .. b - 1 /\ a = b * q + r
  BY ModBounds
<1> HIDE DEF q, r
<1>2. b * q \in Nat /\ q + 1 \in Nat /\ b * (q + 1) = b * q + b
  BY <1>1
<1>3. a + b = b * (q + 1) + r
  BY <1>1, <1>2
<1>4. (b * (q + 1) + r) % b = r
  BY <1>1, <1>2, ModUnique
<1> QED
  BY <1>3, <1>4 DEF r

LEMMA ModDiffers ==
    ASSUME NEW a \in Nat, NEW c \in Nat, NEW b \in Nat \ {0}, a < c, a % b = c % b
    PROVE  a + b <= c
<1> DEFINE p == a \div b
<1> DEFINE q == c \div b
<1> DEFINE r == a % b
<1>1. p \in Nat /\ q \in Nat /\ r \in 0 .. b - 1 /\ a = b * p + r
  BY ModBounds
<1>2. c = b * q + (c % b)
  BY ModBounds
<1>3. c = b * q + r
  BY <1>2
<1> HIDE DEF p, q, r
<1>4. b * p \in Nat /\ b * q \in Nat
  BY <1>1
<1>5. p # q
  BY <1>1, <1>3, <1>4
<1>6. ~ q < p
  <2>1. q < p => b * q + b <= b * p
    BY <1>1, Turn
  <2> QED
    BY <1>1, <1>3, <1>4, <2>1
<1>7. b * p + b <= b * q
  BY <1>1, <1>5, <1>6, Turn
<1> QED
  BY <1>1, <1>3, <1>4, <1>7

-----------------------------------------------------------------------------
\* Arrivals come in order but for copies that are less than Lag late.
ArrivedTimely ==
    \A i, j \in 1 .. Len(delivered) : i < j => delivered[i] < delivered[j] + Lag

\* The last Window arrivals are seen ...
LastAreSeen ==
    \A i \in 1 .. Len(delivered) : i > Len(delivered) - Window => delivered[i] \in seen

\* ... and the ring holds nothing else, each in its place.
RingHoldsLast ==
    /\ at = Len(delivered) % Window
    /\ \A k \in 0 .. Window - 1 :
        \/ ring[k] = Empty
        \/ \E i \in 1 .. Len(delivered) :
              i > Len(delivered) - Window /\ (i - 1) % Window = k /\ ring[k] = delivered[i]

Distinct == \A i, j \in 1 .. Len(delivered) : i # j => delivered[i] # delivered[j]

RInv == Distinct /\ ArrivedTimely /\ LastAreSeen /\ RingHoldsLast

LEMMA IntervalSize ==
    ASSUME NEW a \in Int, NEW b \in Int, a <= b
    PROVE  IsFiniteSet(a .. b) /\ Cardinality(a .. b) = b - a + 1
<1>1. ~ a > b
  OBVIOUS
<1>2. IsFiniteSet(a .. b) /\ Cardinality(a .. b) = IF a > b THEN 0 ELSE b - a + 1
  BY FS_Interval, Zenon
<1> QED
  BY <1>1, <1>2, Zenon

\* What is not seen has not been delivered: what was delivered since is less
\* than Lag away on either side, and there are not so many such numbers.
LEMMA UnseenIsNew ==
    ASSUME IInv, RInv, NEW n \in Numbers, Timely(n), n \notin seen
    PROVE  n \notin Got
<1> DEFINE L == Len(delivered)
<1>1. L \in Nat /\ DOMAIN delivered = 1 .. L /\ \A i \in 1 .. L : delivered[i] \in Nat
  <2>1. delivered \in Seq(1 .. seq)
    BY TypeParts DEF IInv, ReceiverType
  <2>2. \A i \in 1 .. Len(delivered) : delivered[i] \in 1 .. seq
    BY <2>1, SeqElements
  <2> QED
    BY <2>1, <2>2
<1>2. SUFFICES ASSUME NEW i \in 1 .. L, delivered[i] = n
               PROVE  FALSE
  BY <1>1 DEF Got
<1>3. i + Window <= L
  BY <1>1, <1>2, DatagramAssumption DEF RInv, LastAreSeen
<1> DEFINE S == (i + 1) .. (i + Window)
<1> DEFINE T == ((n - Lag + 1) .. (n + Lag - 1)) \ {n}
<1> DEFINE f == [j \in S |-> delivered[j]]
<1> HIDE DEF L
<1>4. n \in Nat /\ Lag \in Nat \ {0} /\ Window \in Nat \ {0} /\ 2 * Lag - 2 < Window
  BY DatagramAssumption DEF Numbers
<1>5. \A j \in S : j \in 1 .. L /\ i < j
  BY <1>1, <1>3, <1>4
<1>6. f \in [S -> T]
  <2>1. SUFFICES ASSUME NEW j \in S PROVE delivered[j] \in T
    OBVIOUS
  <2>2. j \in 1 .. L /\ i < j /\ delivered[j] \in Nat
    BY <1>1, <1>5
  <2>3. n < delivered[j] + Lag
    BY <1>2, <2>2 DEF RInv, ArrivedTimely, L
  <2>4. delivered[j] < n + Lag
    BY <1>1, <2>2 DEF Timely
  <2>5. delivered[j] # n
    <3>1. i # j
      BY <2>2
    <3> QED
      BY <1>2, <2>2, <3>1 DEF RInv, Distinct, L
  <2> QED
    BY <1>4, <2>2, <2>3, <2>4, <2>5
<1>7. IsFiniteSet(S) /\ Cardinality(S) = Window
  <2> DEFINE a == i + 1
  <2> DEFINE b == i + Window
  <2>1. a \in Int /\ b \in Int /\ a <= b /\ b - a + 1 = Window
    BY <1>1, <1>4
  <2> HIDE DEF a, b
  <2>2. IsFiniteSet(a .. b) /\ Cardinality(a .. b) = b - a + 1
    BY <2>1, IntervalSize, Zenon
  <2> QED
    BY <2>1, <2>2, Zenon DEF a, b
<1>8. IsFiniteSet(T) /\ Cardinality(T) = 2 * Lag - 2
  <2> DEFINE a == n - Lag + 1
  <2> DEFINE b == n + Lag - 1
  <2>1. a \in Int /\ b \in Int /\ a <= b /\ b - a + 1 = 2 * Lag - 1 /\ n \in a .. b
    BY <1>4
  <2> HIDE DEF a, b
  <2>2. IsFiniteSet(a .. b) /\ Cardinality(a .. b) = 2 * Lag - 1
    <3>1. IsFiniteSet(a .. b) /\ Cardinality(a .. b) = b - a + 1
      BY <2>1, IntervalSize, Zenon
    <3> QED
      BY <2>1, <3>1, Zenon
  <2>3. IsFiniteSet((a .. b) \ {n}) /\ Cardinality((a .. b) \ {n}) = (2 * Lag - 1) - 1
    BY <2>1, <2>2, FS_RemoveElement
  <2> QED
    BY <1>4, <2>3 DEF a, b
<1>9. PICK j \in S, k \in S : j # k /\ f[j] = f[k]
  <2> HIDE DEF S, T, f
  <2> QED
    BY <1>4, <1>6, <1>7, <1>8, FS_PigeonHole
<1>10. delivered[j] = delivered[k] /\ j \in 1 .. L /\ k \in 1 .. L
  BY <1>5, <1>9
<1> QED
  BY <1>9, <1>10 DEF RInv, Distinct, L

LEMMA RInvStep == ASSUME IInv, RInv, NEW n \in Numbers, Receive(n) PROVE RInv'
<1> DEFINE L == Len(delivered)
<1> DEFINE D == delivered
<1>1. /\ L \in Nat /\ DOMAIN D = 1 .. L /\ \A i \in 1 .. L : D[i] \in Nat
      /\ ring \in [0 .. Window - 1 -> Numbers \union {Empty}]
      /\ delivered \in Seq(1 .. seq)
  <2>1. delivered \in Seq(1 .. seq) /\ ring \in [0 .. Window - 1 -> Numbers \union {Empty}]
    BY TypeParts DEF IInv, ReceiverType
  <2>2. \A i \in 1 .. Len(delivered) : delivered[i] \in 1 .. seq
    BY <2>1, SeqElements
  <2> QED
    BY <2>1, <2>2
<1>2. n \in Nat /\ Lag \in Nat \ {0} /\ Window \in Nat \ {0}
  BY DatagramAssumption DEF Numbers
<1>3. /\ Timely(n) /\ n \notin seen
      /\ seen' = (seen \ {ring[at]}) \union {n}
      /\ ring' = [ring EXCEPT ![at] = n] /\ at' = (at + 1) % Window
      /\ delivered' = Append(delivered, n)
  BY DEF Receive
<1>4. /\ Len(delivered') = L + 1 /\ delivered'[L + 1] = n
      /\ \A i \in 1 .. L : delivered'[i] = D[i]
  BY <1>1, <1>3
<1>5. \A i \in 1 .. L + 1 : i \in 1 .. L \/ i = L + 1
  BY <1>1
<1>6. n \notin Got
  BY <1>3, UnseenIsNew
<1>7. \A i \in 1 .. L : D[i] # n
  BY <1>1, <1>6 DEF Got
<1>8. at = L % Window /\ at \in 0 .. Window - 1
  BY <1>1, <1>2, ModBounds DEF RInv, RingHoldsLast
<1>9. \A i, j \in 1 .. L : i # j => D[i] # D[j]
  BY DEF RInv, Distinct
<1>10. \A i, j \in 1 .. L : i < j => D[i] < D[j] + Lag
  BY DEF RInv, ArrivedTimely
<1>11. \A i \in 1 .. L : i > L - Window => D[i] \in seen
  BY DEF RInv, LastAreSeen
<1>12. \A k \in 0 .. Window - 1 :
          \/ ring[k] = Empty
          \/ \E i \in 1 .. L : i > L - Window /\ (i - 1) % Window = k /\ ring[k] = D[i]
  BY DEF RInv, RingHoldsLast
<1>13. \A i \in 1 .. L : i > L - Window /\ (i - 1) % Window = at <=> i = L - Window + 1
  <2> SUFFICES ASSUME NEW i \in 1 .. L
               PROVE  i > L - Window /\ (i - 1) % Window = at <=> i = L - Window + 1
    OBVIOUS
  <2>1. i - 1 \in Nat /\ L \in Nat /\ i - 1 < L
    BY <1>1
  <2>2. (i - 1) % Window = L % Window => i - 1 + Window <= L
    BY <1>2, <2>1, ModDiffers
  <2>3. i - 1 + Window = L => (i - 1) % Window = L % Window
    <3>1. (i - 1 + Window) % Window = (i - 1) % Window
      BY <1>2, <2>1, ModTurn
    <3> QED
      BY <3>1
  <2> HIDE DEF L
  <2> QED
    BY <1>1, <1>2, <1>8, <2>1, <2>2, <2>3
<1>14. Distinct'
  BY <1>4, <1>5, <1>7, <1>9 DEF Distinct
<1>15. ArrivedTimely'
  <2>1. \A i \in 1 .. L : D[i] < n + Lag
    BY <1>1, <1>3 DEF Timely
  <2> SUFFICES ASSUME NEW i \in 1 .. L + 1, NEW j \in 1 .. L + 1, i < j
               PROVE  delivered'[i] < delivered'[j] + Lag
    BY <1>4 DEF ArrivedTimely
  <2>2. i \in 1 .. L
    BY <1>1
  <2>3. CASE j = L + 1
    BY <1>4, <2>1, <2>2, <2>3
  <2>4. CASE j \in 1 .. L
    BY <1>4, <1>10, <2>2, <2>4
  <2> QED
    BY <1>5, <2>3, <2>4
<1>16. LastAreSeen'
  <2> SUFFICES \A i \in 1 .. L + 1 : i > L + 1 - Window => delivered'[i] \in seen'
    <3>1. LastAreSeen' = (\A i \in 1 .. Len(delivered') :
                            i > Len(delivered') - Window => delivered'[i] \in seen')
      BY DEF LastAreSeen
    <3> QED
      BY <1>1, <1>2, <1>4, <3>1
  <2> TAKE i \in 1 .. L + 1
  <2> HAVE i > L + 1 - Window
  <2>1. CASE i = L + 1
    BY <1>3, <1>4, <2>1
  <2>2. CASE i \in 1 .. L
    <3>1. D[i] \in seen
      BY <1>1, <1>2, <1>11, <2>2
    <3>2. D[i] # ring[at]
      <4>1. CASE ring[at] = Empty
        BY <1>1, <2>2, <4>1 DEF Empty
      <4>2. CASE \E m \in 1 .. L : m > L - Window /\ (m - 1) % Window = at /\ ring[at] = D[m]
        <5>1. PICK m \in 1 .. L : m > L - Window /\ (m - 1) % Window = at /\ ring[at] = D[m]
          BY <4>2
        <5>2. m = L - Window + 1
          BY <1>13, <5>1
        <5>3. i # m
          BY <1>1, <1>2, <5>2
        <5> QED
          BY <1>9, <2>2, <5>1, <5>3
      <4> QED
        BY <1>8, <1>12, <4>1, <4>2
    <3> QED
      BY <1>3, <1>4, <2>2, <3>1, <3>2
  <2> QED
    BY <1>5, <2>1, <2>2
<1>17. at' = (L + 1) % Window
  BY <1>1, <1>2, <1>3, <1>8, ModNext
<1>18. ASSUME NEW k \in 0 .. Window - 1
       PROVE  \/ ring'[k] = Empty
              \/ \E i \in 1 .. L + 1 : /\ i > L + 1 - Window /\ (i - 1) % Window = k
                                       /\ ring'[k] = delivered'[i]
  <2>1. CASE k = at
    <3>1. ring'[k] = n
      BY <1>1, <1>3, <1>8, <2>1
    <3>2. L + 1 \in 1 .. L + 1 /\ L + 1 > L + 1 - Window /\ (L + 1) - 1 = L
      BY <1>1, <1>2
    <3>3. ((L + 1) - 1) % Window = k
      BY <1>8, <2>1, <3>2
    <3> QED
      BY <1>4, <3>1, <3>2, <3>3
  <2>2. CASE k # at
    <3>1. ring'[k] = ring[k]
      BY <1>1, <1>3, <2>2
    <3>2. CASE ring[k] = Empty
      BY <3>1, <3>2
    <3>3. CASE \E i \in 1 .. L : i > L - Window /\ (i - 1) % Window = k /\ ring[k] = D[i]
      <4>1. PICK i \in 1 .. L : i > L - Window /\ (i - 1) % Window = k /\ ring[k] = D[i]
        BY <3>3
      <4>2. i # L - Window + 1
        BY <1>13, <2>2, <4>1
      <4>3. i \in 1 .. L + 1 /\ i > L + 1 - Window
        <5>1. i \in 1 .. L /\ i > L - Window
          BY <4>1
        <5> QED
          BY <1>1, <1>2, <4>2, <5>1
      <4>4. ring'[k] = delivered'[i]
        BY <1>4, <3>1, <4>1
      <4> QED
        BY <4>1, <4>3, <4>4
    <3> QED
      BY <1>12, <3>2, <3>3
  <2> QED
    BY <2>1, <2>2
<1>19. RingHoldsLast'
  BY <1>1, <1>2, <1>4, <1>17, <1>18 DEF RingHoldsLast
<1> QED
  BY <1>14, <1>15, <1>16, <1>19 DEF RInv

\* Nothing else touches the receiver.
LEMMA ReceiverFrame ==
    [Next]_vars => UNCHANGED receiver \/ \E n \in Numbers : Receive(n)
BY DEF Next, vars, receiver, Send, Stop, Sweep, Resend, GiveUp, ReceiveAck, ReceiveAgain

LEMMA RInvariance == Spec => []RInv
<1>1. Init => RInv
  <2> SUFFICES ASSUME Init PROVE RInv
    OBVIOUS
  <2>1. delivered = <<>> /\ Len(delivered) = 0 /\ at = 0 /\ Window \in Nat \ {0}
    BY DatagramAssumption DEF Init
  <2>2. at = Len(delivered) % Window
    <3>1. (Window * 0 + 0) % Window = 0 /\ Window * 0 + 0 = 0
      BY <2>1, ModUnique
    <3> QED
      BY <2>1, <3>1
  <2>3. \A k \in 0 .. Window - 1 : ring[k] = Empty
    BY DEF Init
  <2> QED
    BY <2>1, <2>2, <2>3 DEF RInv, Distinct, ArrivedTimely, LastAreSeen, RingHoldsLast
<1>2. IInv /\ RInv /\ [Next]_vars => RInv'
  <2> SUFFICES ASSUME IInv, RInv, [Next]_vars PROVE RInv'
    OBVIOUS
  <2>1. CASE UNCHANGED receiver
    <3>1. UNCHANGED <<seen, ring, at, delivered>>
      BY <2>1 DEF receiver
    <3> QED
      BY <3>1 DEF RInv, Distinct, ArrivedTimely, LastAreSeen, RingHoldsLast
  <2>2. CASE \E n \in Numbers : Receive(n)
    BY <2>2, RInvStep
  <2> QED
    BY <2>1, <2>2, ReceiverFrame
<1> QED
  BY <1>1, <1>2, Invariance, PTL DEF Spec

\* No payload is delivered twice, as long as the window is wider than what a
\* late copy can be apart from what arrived around it.
THEOREM NoneTwice == Spec => []AtMostOnce
<1>1. IInv /\ RInv => AtMostOnce
  <2> SUFFICES ASSUME IInv, RInv PROVE AtMostOnce
    OBVIOUS
  <2>1. DOMAIN delivered = 1 .. Len(delivered)
    BY TypeParts DEF IInv, ReceiverType
  <2> QED
    BY <2>1 DEF RInv, Distinct, AtMostOnce
<1> QED
  BY <1>1, Invariance, RInvariance, PTL

\* Every step of the datagrams is one of ReliableLink, or none.
THEOREM LinkImplemented == Spec => Link!LinkInit /\ [][Link!LinkNext]_(Link!linkVars)
<1>1. Init => Link!LinkInit
  BY DEF Init, Link!LinkInit
<1>2. IInv /\ RInv /\ [Next]_vars => [Link!LinkNext]_(Link!linkVars)
  <2> SUFFICES ASSUME IInv, RInv, [Next]_vars PROVE [Link!LinkNext]_(Link!linkVars)
    OBVIOUS
  <2> USE DEF Link!LinkNext, Link!linkVars
  <2>1. CASE UNCHANGED <<seq, delivered, up>>
    BY <2>1
  <2>2. CASE up' = FALSE /\ UNCHANGED <<seq, delivered>>
    BY <2>2 DEF Link!Break
  <2>3. CASE Send
    <3>1. seq \in Nat /\ seq < MaxSend /\ seq' = seq + 1 /\ UNCHANGED <<delivered, up>>
      BY <2>3, TypeParts DEF IInv, SenderType, Send, receiver
    <3>2. seq + 1 \in Numbers /\ seq + 1 \notin 1 .. seq
      BY <3>1, DatagramAssumption DEF Numbers
    <3>3. 1 .. seq' = (1 .. seq) \union {seq + 1}
      BY <3>1
    <3>4. Link!Put(seq + 1)
      BY <3>1, <3>2, <3>3 DEF Link!Put
    <3> QED
      BY <3>2, <3>4
  <2>4. ASSUME NEW n \in Numbers, Receive(n)
        PROVE  Link!LinkNext
    <3>1. /\ Timely(n) /\ n \notin seen /\ n \in 1 .. seq
          /\ delivered' = Append(delivered, n) /\ UNCHANGED <<seq, up>>
      BY <2>4, TypeParts DEF IInv, SenderType, Receive, sender
    <3>2. n \notin Got
      BY <3>1, UnseenIsNew
    <3>3. n \in (1 .. seq) \ Link!Delivered
      BY <3>1, <3>2 DEF Got, Link!Delivered
    <3>4. Link!Get(n)
      BY <3>1, <3>3 DEF Link!Get
    <3> QED
      BY <3>4
  <2> QED
    BY <2>1, <2>2, <2>3, <2>4
    DEF Next, vars, receiver, sender, Stop, Sweep, Resend, GiveUp, ReceiveAck, ReceiveAgain
<1> QED
  BY <1>1, <1>2, Invariance, RInvariance, PTL DEF Spec
=============================================================================
