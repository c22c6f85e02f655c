--------------------------- MODULE SessionsProofs ---------------------------
(***************************************************************************)
(* What holds of a session's calls, shares and solutions, and of its       *)
(* client, for any number of workers, sessions, calls and grants.          *)
(*                                                                         *)
(* KeptOnlyLate is not inductive: a login that awaits attach() is not yet  *)
(* housed, and will be when its session is still in the hub.  What is      *)
(* inductive says it of every entry: one that was not late is an entry of  *)
(* a session of the hub (EntriesKept).                                     *)
(*                                                                         *)
(* The other three rest on one invariant, SInv:                            *)
(*   - where each call is (Once): on its way, with a login or answered,    *)
(*     and a client has no ledger before its login is over;                *)
(*   - the story of each session whose worker lives (Story): what has been *)
(*     said of it in the channels, in order, and nothing is once its bye   *)
(*     is; nothing has come of a login that the primary has not heard, or  *)
(*     that still awaits (Fresh, Blank); every share is where it can be    *)
(*     counted (Accounted);                                                *)
(*   - and that the worker's mirror follows the ledger (Serving): each     *)
(*     grant in a message is of a job the worker knows when it is handed   *)
(*     that message (Tracks), and the ledger has it or has gone on by two  *)
(*     jobs (Stays), so that what the worker then submits is owned.        *)
(***************************************************************************)
EXTENDS Sessions, FiniteSetTheorems, TLAPS

-----------------------------------------------------------------------------
(* Who stays housed.                                                       *)

EntryType ==
    /\ entry \in [Sessions -> Calls \union {None}]
    /\ \A s \in Sessions : entry[s] # None => SessionOf(entry[s]) = s
    /\ housed \subseteq Calls

EntriesKept == \A s \in Sessions : entry[s] # None /\ entry[s] \notin late => s \in hub

HousedEntered == \A c \in housed \ late : entry[SessionOf(c)] = c

IInv == EntryType /\ EntriesKept /\ HousedEntered

\* A call is not None, and is one of a session.
LEMMA CallIsSome ==
    ASSUME NEW c \in Calls
    PROVE  c # None /\ SessionOf(c) \in Sessions /\ Host[SessionOf(c)] \in Workers
<1>1. c # None /\ SessionOf(c) \in Sessions
  BY DEF Calls, None, SessionOf
<1> QED BY <1>1, SessionsAssumption

\* The invariant in terms of what it reads: the steps that leave it alone keep it.
LEMMA Frame == IInv /\ UNCHANGED <<entry, housed, hub, late>> => IInv'
BY DEF IInv, EntryType, EntriesKept, HousedEntered, SessionOf

\* Closing entries takes their clients out of their links, and no other.
LEMMA ClosingKeeps ==
    ASSUME IInv, NEW S, CloseEntries(S), UNCHANGED late,
           \A s \in Sessions \ S : s \in hub => s \in hub'
    PROVE  IInv'
<1>. USE DEF IInv, EntryType, EntriesKept, HousedEntered
<1>1. entry' = [s \in Sessions |-> IF s \in S THEN None ELSE entry[s]]
  BY DEF CloseEntries
<1>2. housed' = housed \ Entered(S)
  BY DEF CloseEntries, Detach
<1>3. EntryType'
  BY <1>1, <1>2
<1>4. EntriesKept'
  BY <1>1
<1>5. ASSUME NEW c \in housed' \ late'  PROVE entry'[SessionOf(c)] = c
  <2>1. c \in Calls /\ c \in housed \ late /\ c \notin Entered(S)
    BY <1>2
  <2>2. SessionOf(c) \in Sessions /\ c # None /\ entry[SessionOf(c)] = c
    BY <2>1, CallIsSome
  <2>3. SessionOf(c) \notin S
    BY <2>1, <2>2 DEF Entered
  <2>. QED BY <1>1, <2>2, <2>3
<1>. QED BY <1>3, <1>4, <1>5 DEF SessionOf

\* Detaching one client that is not the entry of its session changes no entry.
LEMMA DetachKeeps ==
    ASSUME IInv, NEW c, Detach({c}), UNCHANGED <<late, hub, entry>>
    PROVE  IInv'
BY DEF IInv, EntryType, EntriesKept, HousedEntered, Detach, SessionOf

LEMMA Initially == Init => IInv
BY DEF Init, IInv, EntryType, EntriesKept, HousedEntered, None

LEMMA Step == IInv /\ [Next]_vars => IInv'
<1>. SUFFICES ASSUME IInv, [Next]_vars  PROVE IInv'
  OBVIOUS
<1>a. ASSUME NEW s \in Sessions, Connect(s) \/ AskLogin(s) \/ AskChunk(s) \/ Close(s)
      PROVE  IInv'
  BY <1>a, Frame DEF Connect, AskLogin, AskChunk, Ask, Close, backend, history
<1>b. ASSUME NEW s \in Sessions, NEW g \in 1 .. MaxGrants, Submit(s, g)
      PROVE  IInv'
  BY <1>b, Frame DEF Submit, backend
<1>c. ASSUME NEW w \in Workers, Flush(w) \/ Answered(w) \/ Pushed(w) \/ Die(w)
      PROVE  IInv'
  BY <1>c, Frame DEF Flush, Answered, Pushed, Die, backend, history
<1>d. ASSUME NEW c \in Calls, Expire(c) \/ NewJob(c)
      PROVE  IInv'
  BY <1>d, Frame DEF Expire, NewJob, backend, history
<1>e. ASSUME NEW c \in Calls, Drop(c)
      PROVE  IInv'
  BY <1>e, DetachKeeps DEF Drop, history
<1>f. ASSUME NEW w \in Workers, HandleLogin(w)
      PROVE  IInv'
  <2>1. PICK s : hub \subseteq hub' /\ CloseEntries({s}) /\ UNCHANGED late
    BY <1>f DEF HandleLogin
  <2>. QED BY <2>1, ClosingKeeps
<1>g. ASSUME NEW w \in Workers, HandleChunk(w)
      PROVE  IInv'
  BY <1>g DEF HandleChunk, history, IInv, EntryType, EntriesKept, HousedEntered, SessionOf
<1>h. ASSUME NEW w \in Workers, HandleSub(w) \/ HandleAcc(w)
      PROVE  IInv'
  BY <1>h, Frame DEF HandleSub, HandleAcc, backend, history
<1>i. ASSUME NEW w \in Workers, HandleBye(w)
      PROVE  IInv'
  <2>. DEFINE s == Head(up[w]).s
  <2>1. CASE s \in hub
    <3>1. hub' = hub \ {s} /\ CloseEntries({s}) /\ UNCHANGED late
      BY <1>i, <2>1 DEF HandleBye, history
    <3>. HIDE DEF s
    <3>. QED BY <3>1, ClosingKeeps
  <2>2. CASE s \notin hub
    BY <1>i, <2>2, Frame DEF HandleBye, backend, history
  <2>. QED BY <2>1, <2>2
<1>j. ASSUME NEW w \in Workers, Evict(w)
      PROVE  IInv'
  <2>1. hub' = hub \ Of(w) /\ CloseEntries(hub \intersect Of(w)) /\ UNCHANGED late
    BY <1>j DEF Evict, history
  <2>. QED BY <2>1, ClosingKeeps
<1>k. ASSUME NEW l \in Logins, Refused(l)
      PROVE  IInv'
  BY <1>k, Frame DEF Refused, backend, history
<1>l. ASSUME NEW l \in Logins, Resolved(l)
      PROVE  IInv'
  <2>. DEFINE c == l.who
              s == SessionOf(c)
  <2>1. c \in Calls /\ c # None /\ s \in Sessions
    BY CallIsSome DEF Logins
  <2>2. /\ entry' = [entry EXCEPT ![s] = c]
        /\ late' = late \union (IF s \in hub THEN {} ELSE {c})
                        \union ({entry[s]} \intersect housed)
        /\ UNCHANGED <<hub, housed>>
    BY <1>l DEF Resolved
  <2>. HIDE DEF c
  <2>3. EntryType'
    BY <2>1, <2>2 DEF IInv, EntryType
  <2>4. EntriesKept'
    BY <2>1, <2>2 DEF IInv, EntryType, EntriesKept
  <2>5. ASSUME NEW d \in housed' \ late'  PROVE entry'[SessionOf(d)] = d
    <3>1. d \in housed \ late /\ d \in Calls /\ d \notin {entry[s]}
      BY <2>2, <2>5 DEF IInv, EntryType
    <3>2. SessionOf(d) \in Sessions /\ entry[SessionOf(d)] = d
      BY <3>1, CallIsSome DEF IInv, HousedEntered
    <3>3. SessionOf(d) # s
      BY <3>1, <3>2
    <3>. QED BY <2>1, <2>2, <3>2, <3>3 DEF IInv, EntryType
  <2>. QED BY <2>3, <2>4, <2>5 DEF IInv, HousedEntered, SessionOf
<1>m. ASSUME NEW l \in Logins, AttachFails(l)
      PROVE  IInv'
  <2>. DEFINE c == l.who
              s == SessionOf(c)
  <2>1. c \in Calls /\ c # None /\ s \in Sessions
    BY CallIsSome DEF Logins
  <2>2. /\ entry' = IF entry[s] = c THEN [entry EXCEPT ![s] = None] ELSE entry
        /\ housed' = housed \ {c}
        /\ UNCHANGED <<hub, late>>
    BY <1>m DEF AttachFails, Detach
  <2>. HIDE DEF c
  <2>3. EntryType'
    BY <2>1, <2>2 DEF IInv, EntryType
  <2>4. EntriesKept'
    BY <2>1, <2>2 DEF IInv, EntryType, EntriesKept
  <2>5. ASSUME NEW d \in housed' \ late'  PROVE entry'[SessionOf(d)] = d
    <3>1. d \in housed \ late /\ d # c /\ entry[SessionOf(d)] = d
      BY <2>2, <2>5 DEF IInv, HousedEntered
    <3>. QED BY <2>1, <2>2, <3>1 DEF IInv, EntryType
  <2>. QED BY <2>3, <2>4, <2>5 DEF IInv, HousedEntered, SessionOf
<1>n. ASSUME NEW l \in Logins, Attached(l)
      PROVE  IInv'
  <2>1. /\ l.who \in Calls /\ entry[SessionOf(l.who)] = l.who
        /\ housed' = housed \union {l.who}
        /\ UNCHANGED <<entry, hub, late>>
    BY <1>n DEF Attached, history, Logins
  <2>. QED BY <2>1 DEF IInv, EntryType, EntriesKept, HousedEntered, SessionOf
<1>o. ASSUME NEW l \in Logins, Superseded(l)
      PROVE  IInv'
  BY <1>o, DetachKeeps DEF Superseded, history
<1>p. CASE Reset
  <2>1. PICK S : CloseEntries(S) /\ UNCHANGED <<hub, late>>
    BY <1>p DEF Reset
  <2>. QED BY <2>1, ClosingKeeps
<1>q. CASE UNCHANGED vars
  BY <1>q, Frame DEF vars, backend, history
<1>. QED
  BY <1>a, <1>b, <1>c, <1>d, <1>e, <1>f, <1>g, <1>h, <1>i, <1>j, <1>k, <1>l, <1>m, <1>n,
     <1>o, <1>p, <1>q DEF Next

LEMMA Kept == IInv => KeptOnlyLate
BY CallIsSome DEF IInv, EntryType, EntriesKept, HousedEntered, KeptOnlyLate

\* A client that is housed, and was not let in too late by the resolver, is the
\* entry of its session, and the hub has that session (hub.ts login, close, evict):
\* for any number of workers, sessions and calls.
THEOREM Released == Spec => []KeptOnlyLate
<1>. QED BY Initially, Step, Kept, PTL DEF Spec

-----------------------------------------------------------------------------
(* Messages, and what is inductive of the rest.                            *)

\* A message of a worker that is about the session, other than its bye.
CallOf(m, s)  == m.t \in {"login", "chunk"} /\ SessionOf(m.c) = s
ChunkOf(m, s) == m.t = "chunk" /\ SessionOf(m.c) = s
SubOf(m, s)   == m.t = "sub" /\ m.s = s
AccOf(m, s)   == m.t = "acc" /\ s \in DOMAIN m.d
ByeOf(m, s)   == m.t = "bye" /\ m.s = s
Speaks(m, s)  == CallOf(m, s) \/ SubOf(m, s) \/ AccOf(m, s)

\* A message to a worker that is about the session.
ReplyTo(m, s) == m.t = "r" /\ SessionOf(m.c) = s
PushTo(m, s)  == m.t = "j" /\ m.s = s
For(m, s)     == ReplyTo(m, s) \/ PushTo(m, s)
Good(m)       == m.t = "r" /\ m.r.ok
JobIn(m)      == m.r.job
GrantIn(m)    == m.r.g

-----------------------------------------------------------------------------
(* Types.                                                                  *)

CallsOf(w) == Of(w) \X (1 .. MaxCalls)
Answers    == [ok : BOOLEAN, job : 0 .. MaxGrants, g : 0 .. MaxGrants]
Pushes     == [ok : BOOLEAN, job : 1 .. MaxGrants, g : 1 .. MaxGrants]
UpOf(w)    == [t : {"login", "chunk"}, c : CallsOf(w)]
              \union [t : {"sub"}, s : Of(w), job : 0 .. MaxGrants, g : 0 .. MaxGrants]
              \union [t : {"acc"}, d : UNION {[S -> 1 .. MaxOwed] : S \in SUBSET Of(w)}]
              \union [t : {"bye"}, s : Of(w)]
DownOf(w)  == [t : {"r"}, c : CallsOf(w), r : Answers] \union [t : {"j"}, s : Of(w), r : Pushes]

Parties ==
    /\ alive \subseteq Workers
    /\ open \subseteq Sessions /\ gone \subseteq Sessions /\ open \intersect gone = {}
    /\ logged \subseteq Sessions /\ made \in 0 .. MaxCalls
    /\ calls \subseteq Calls /\ hub \subseteq Sessions
    /\ \A s \in open : Host[s] \in alive

Books ==
    /\ known \in [Sessions -> LedgerType] /\ ledger \in [Calls -> LedgerType]
    /\ jobs \in [Sessions -> Nat] /\ given \in 0 .. MaxGrants
    /\ \A s \in Sessions : jobs[s] <= given

Counts ==
    /\ tally \in [Sessions -> Nat] /\ owed \in [Sessions -> Int]
    /\ \A s \in Sessions : tally[s] > 0 => s \in open

Wires ==
    /\ up = [w \in Workers |-> up[w]] /\ \A w \in Workers : up[w] \in Seq(UpOf(w))
    /\ down = [w \in Workers |-> down[w]] /\ \A w \in Workers : down[w] \in Seq(DownOf(w))

Clients ==
    /\ entry \in [Sessions -> Calls \union {None}]
    /\ \A s \in Sessions : entry[s] # None => SessionOf(entry[s]) = s
    /\ logins \subseteq Logins /\ live \subseteq Calls /\ housed \subseteq live

Shapes == Parties /\ Books /\ Counts /\ Wires /\ Clients

\* No more is in the tallies than is owed.
Owes == \A s \in Sessions : tally[s] + InFlight(s) <= owed[s] /\ owed[s] <= MaxOwed

-----------------------------------------------------------------------------
(* Every call is in one place at most.                                     *)

AsksOf(c)    == Asks(up[Host[SessionOf(c)]], c)
RepliesOf(c) == Replies(down[Host[SessionOf(c)]], c)

AtMostOne(S) == \A x, y \in S : x = y

OnceOf(c) ==
    /\ c[2] > made => /\ AsksOf(c) = {} /\ Awaits(c) = {} /\ RepliesOf(c) = {}
                      /\ c \notin live /\ c \notin calls /\ entry[SessionOf(c)] # c
    /\ AtMostOne(AsksOf(c)) /\ AtMostOne(Awaits(c)) /\ AtMostOne(RepliesOf(c))
    /\ AsksOf(c) # {} => Awaits(c) = {} /\ RepliesOf(c) = {}
                         /\ c \notin live /\ entry[SessionOf(c)] # c
    /\ Awaits(c) # {} => RepliesOf(c) = {} /\ c \notin housed
    /\ c \in calls => /\ Host[SessionOf(c)] \in alive
                      /\ AsksOf(c) # {} \/ Awaits(c) # {} \/ RepliesOf(c) # {}

Once == \A c \in Calls : OnceOf(c)

\* Ledgers are those of housed clients, and of jobs that the session was given.
LedgersHoused ==
    \A c \in Calls : /\ c \notin housed => ledger[c] = NoLedger
                     /\ ledger[c].job <= jobs[SessionOf(c)]

-----------------------------------------------------------------------------
(* What a session's worker knows of the ledger of its client.              *)

\* The grant is of the job, and it is that of the ledger or one before.
Stays(L, j, g) ==
    \/ j = L.job /\ g \in L.last
    \/ j < L.job /\ (g \in L.prior \/ j + 2 <= L.job)

\* No message for s between k and n is of another job than j.
Steady(q, k, n, s, j) ==
    \A i \in 1 .. Len(q) : k < i /\ i < n /\ For(q[i], s) => JobIn(q[i]) \in {0, j}

\* The job that s knows of when it is handed the n-th message is j: it is pushed
\* before, or it is what is known now.
PushedBefore(q, n, s, j) ==
    \E k \in 1 .. Len(q) : k < n /\ PushTo(q[k], s) /\ JobIn(q[k]) = j /\ Steady(q, k, n, s, j)

Tracks(q, n, s, j, kj) == PushedBefore(q, n, s, j) \/ (kj = j /\ Steady(q, 0, n, s, j))

GrantsStay(q, s, L) ==
    \A i \in 1 .. Len(q) : For(q[i], s) /\ JobIn(q[i]) # 0 =>
        GrantIn(q[i]) # 0 /\ Stays(L, JobIn(q[i]), GrantIn(q[i]))

BareGrantsStay(q, s, L, kj) ==
    \A i \in 1 .. Len(q) : For(q[i], s) /\ JobIn(q[i]) = 0 /\ GrantIn(q[i]) # 0 =>
        \E j \in Nat : Stays(L, j, GrantIn(q[i])) /\ Tracks(q, i, s, j, kj)

KnowsJob(q, s, L, kj, in) == s \in in => Tracks(q, Len(q) + 1, s, L.job, kj)

OnlyLogged(q, s, e, in) ==
    \A i \in 1 .. Len(q) : ReplyTo(q[i], s) /\ Good(q[i]) /\ q[i].c # e => s \in in

LoginTeaches(q, s, e, L) ==
    \A i \in 1 .. Len(q) : ReplyTo(q[i], s) /\ Good(q[i]) /\ q[i].c = e =>
        /\ JobIn(q[i]) # 0
        /\ \A k \in 1 .. Len(q) : k < i => ~ PushTo(q[k], s)
        /\ \/ PushedBefore(q, Len(q) + 1, s, L.job)
           \/ JobIn(q[i]) = L.job /\ Steady(q, i, Len(q) + 1, s, L.job)

KnownStays(L, kn) == \A g \in kn.last : Stays(L, kn.job, g)

DownOK(q, s, e, L, kn, in) ==
    /\ GrantsStay(q, s, L) /\ BareGrantsStay(q, s, L, kn.job) /\ KnowsJob(q, s, L, kn.job, in)
    /\ OnlyLogged(q, s, e, in) /\ LoginTeaches(q, s, e, L) /\ KnownStays(L, kn)

SubsOK(q, s, L) == \A i \in 1 .. Len(q) : SubOf(q[i], s) => Stays(L, q[i].job, q[i].g)

\* A bye is the last message of its session.
ByeLast(q, s) ==
    \A i \in 1 .. Len(q) : ByeOf(q[i], s) =>
        \A k \in 1 .. Len(q) : i < k => ~ Speaks(q[k], s) /\ ~ ByeOf(q[k], s)

ByeSent(q, s)   == \E i \in 1 .. Len(q) : ByeOf(q[i], s)
Talks(q, s)     == \E i \in 1 .. Len(q) : Speaks(q[i], s)
Chunks(q, s)    == \E i \in 1 .. Len(q) : ChunkOf(q[i], s)

\* Nothing has come of a login of s yet.
BlankUp(q, s)   == \A i \in 1 .. Len(q) : ~ SubOf(q[i], s) /\ ~ AccOf(q[i], s) /\ ~ ChunkOf(q[i], s)
BlankDown(q, s) == \A i \in 1 .. Len(q) :
    For(q[i], s) => ~ PushTo(q[i], s) /\ ~ Good(q[i]) /\ JobIn(q[i]) = 0 /\ GrantIn(q[i]) = 0

Blank(s) ==
    /\ s \notin logged /\ known[s] = NoLedger /\ tally[s] = 0 /\ owed[s] = 0
    /\ BlankUp(up[Host[s]], s) /\ BlankDown(down[Host[s]], s)

Fresh(s) ==
    /\ entry[s] = None /\ Blank(s)
    /\ \A c \in housed : SessionOf(c) # s
    /\ \A l \in logins : SessionOf(l.who) # s

Talked(s) == /\ ByeLast(up[Host[s]], s)
             /\ ByeSent(up[Host[s]], s) => s \in gone
             /\ Chunks(up[Host[s]], s) => s \in logged
             /\ Talks(up[Host[s]], s) \/ s \in hub => s \in open \union gone

NewHere(s) == s \notin hub /\ (s \notin gone \/ Talks(up[Host[s]], s)) => Fresh(s)

LoggingIn(s) ==
    s \in hub \ cut /\ (entry[s] = None \/ \E l \in logins : l.who = entry[s]) => Blank(s)

OneClient(s) == s \in hub \ cut => \A c \in housed : SessionOf(c) = s => c = entry[s]

Serving(s) ==
    s \in hub \ cut /\ entry[s] \in housed =>
        /\ SubsOK(up[Host[s]], s, ledger[entry[s]])
        /\ s \in open => DownOK(down[Host[s]], s, entry[s], ledger[entry[s]], known[s], logged)

Accounted(s) ==
    s \notin cut => /\ owed[s] = tally[s] + InFlight(s)
                    /\ s \in gone \ hub => owed[s] = 0

Story(s) == Talked(s) /\ NewHere(s) /\ LoggingIn(s) /\ OneClient(s) /\ Serving(s) /\ Accounted(s)

Stories == \A s \in Sessions : Host[s] \in alive => Story(s)

-----------------------------------------------------------------------------
(* Queues: r is q with a message more, or without its first.               *)

Grows(q, r, m) == /\ Len(q) \in Nat /\ Len(r) = Len(q) + 1 /\ r[Len(q) + 1] = m
                  /\ \A i \in 1 .. Len(q) : r[i] = q[i]

Drops(q, r) == /\ Len(r) \in Nat /\ Len(q) = Len(r) + 1
               /\ \A i \in 1 .. Len(r) : r[i] = q[i + 1]

LEMMA GrowsAt ==
    ASSUME NEW q, NEW r, NEW m, Grows(q, r, m), NEW i \in 1 .. Len(r)
    PROVE  (i \in 1 .. Len(q) /\ r[i] = q[i]) \/ (i = Len(q) + 1 /\ r[i] = m)
BY DEF Grows

LEMMA DropsAt ==
    ASSUME NEW q, NEW r, Drops(q, r), NEW i \in 1 .. Len(r)
    PROVE  i + 1 \in 1 .. Len(q) /\ r[i] = q[i + 1]
BY DEF Drops

LEMMA DropsHead ==
    ASSUME NEW q, NEW r, Drops(q, r)
    PROVE  1 \in 1 .. Len(q) /\ \A k \in 1 .. Len(q) : k # 1 => k - 1 \in 1 .. Len(r) /\ q[k] = r[k - 1]
BY DEF Drops

-----------------------------------------------------------------------------
(* What tracks the job through a queue.                                    *)

LEMMA SteadyGrows ==
    ASSUME NEW q, NEW r, NEW m, Grows(q, r, m), NEW k \in Int, NEW s, NEW j
    PROVE  /\ \A n \in 1 .. Len(q) + 1 : Steady(q, k, n, s, j) => Steady(r, k, n, s, j)
           /\ Steady(q, k, Len(q) + 1, s, j) /\ (For(m, s) => JobIn(m) \in {0, j})
                  => Steady(r, k, Len(r) + 1, s, j)
<1>1. ASSUME NEW n \in 1 .. Len(q) + 1, Steady(q, k, n, s, j) PROVE Steady(r, k, n, s, j)
  <2> SUFFICES ASSUME NEW i \in 1 .. Len(r), k < i, i < n, For(r[i], s) PROVE JobIn(r[i]) \in {0, j}
    BY DEF Steady
  <2>1. i \in 1 .. Len(q) /\ r[i] = q[i]
    BY DEF Grows
  <2> QED BY <1>1, <2>1 DEF Steady
<1>2. ASSUME Steady(q, k, Len(q) + 1, s, j), For(m, s) => JobIn(m) \in {0, j}
      PROVE  Steady(r, k, Len(r) + 1, s, j)
  <2> SUFFICES ASSUME NEW i \in 1 .. Len(r), k < i, For(r[i], s) PROVE JobIn(r[i]) \in {0, j}
    BY DEF Steady
  <2>1. CASE i \in 1 .. Len(q) /\ r[i] = q[i]
    <3>1. i < Len(q) + 1
      BY <2>1 DEF Grows
    <3> QED BY <1>2, <2>1, <3>1 DEF Steady
  <2>2. CASE i = Len(q) + 1 /\ r[i] = m
    BY <1>2, <2>2
  <2> QED BY <2>1, <2>2, GrowsAt
<1> QED BY <1>1, <1>2

LEMMA PushedGrows ==
    ASSUME NEW q, NEW r, NEW m, Grows(q, r, m), NEW s, NEW j
    PROVE  /\ \A n \in 1 .. Len(q) + 1 : PushedBefore(q, n, s, j) => PushedBefore(r, n, s, j)
           /\ PushedBefore(q, Len(q) + 1, s, j) /\ (For(m, s) => JobIn(m) \in {0, j})
                  => PushedBefore(r, Len(r) + 1, s, j)
           /\ PushTo(m, s) /\ JobIn(m) = j => PushedBefore(r, Len(r) + 1, s, j)
<1>0. /\ Len(q) \in Nat /\ Len(r) = Len(q) + 1 /\ r[Len(q) + 1] = m
      /\ \A i \in 1 .. Len(q) : i \in 1 .. Len(r) /\ r[i] = q[i]
  BY DEF Grows
<1>1. ASSUME NEW n \in 1 .. Len(q) + 1, PushedBefore(q, n, s, j) PROVE PushedBefore(r, n, s, j)
  <2>1. PICK k \in 1 .. Len(q) : k < n /\ PushTo(q[k], s) /\ JobIn(q[k]) = j /\ Steady(q, k, n, s, j)
    BY <1>1 DEF PushedBefore
  <2>2. Steady(r, k, n, s, j)
    BY <2>1, SteadyGrows
  <2> QED BY <1>0, <2>1, <2>2 DEF PushedBefore
<1>2. ASSUME PushedBefore(q, Len(q) + 1, s, j), For(m, s) => JobIn(m) \in {0, j}
      PROVE  PushedBefore(r, Len(r) + 1, s, j)
  <2>1. PICK k \in 1 .. Len(q) :
            PushTo(q[k], s) /\ JobIn(q[k]) = j /\ Steady(q, k, Len(q) + 1, s, j)
    BY <1>2 DEF PushedBefore
  <2>2. Steady(r, k, Len(r) + 1, s, j)
    BY <1>2, <2>1, SteadyGrows
  <2>3. k \in 1 .. Len(r) /\ k < Len(r) + 1 /\ r[k] = q[k]
    BY <1>0
  <2> QED BY <2>1, <2>2, <2>3 DEF PushedBefore
<1>3. ASSUME PushTo(m, s), JobIn(m) = j PROVE PushedBefore(r, Len(r) + 1, s, j)
  <2>1. PICK k \in 1 .. Len(r) : k = Len(q) + 1 /\ k < Len(r) + 1 /\ r[k] = m
    BY <1>0
  <2>2. Steady(r, k, Len(r) + 1, s, j)
    BY <1>0, <2>1 DEF Steady
  <2> QED BY <1>3, <2>1, <2>2 DEF PushedBefore
<1> QED BY <1>1, <1>2, <1>3

LEMMA TracksGrows ==
    ASSUME NEW q, NEW r, NEW m, Grows(q, r, m), NEW s, NEW j, NEW kj
    PROVE  /\ \A n \in 1 .. Len(q) + 1 : Tracks(q, n, s, j, kj) => Tracks(r, n, s, j, kj)
           /\ Tracks(q, Len(q) + 1, s, j, kj) /\ (For(m, s) => JobIn(m) \in {0, j})
                  => Tracks(r, Len(r) + 1, s, j, kj)
           /\ PushTo(m, s) /\ JobIn(m) = j => Tracks(r, Len(r) + 1, s, j, kj)
<1>1. /\ \A n \in 1 .. Len(q) + 1 : Steady(q, 0, n, s, j) => Steady(r, 0, n, s, j)
      /\ Steady(q, 0, Len(q) + 1, s, j) /\ (For(m, s) => JobIn(m) \in {0, j})
             => Steady(r, 0, Len(r) + 1, s, j)
  BY SteadyGrows
<1>2. /\ \A n \in 1 .. Len(q) + 1 : PushedBefore(q, n, s, j) => PushedBefore(r, n, s, j)
      /\ PushedBefore(q, Len(q) + 1, s, j) /\ (For(m, s) => JobIn(m) \in {0, j})
             => PushedBefore(r, Len(r) + 1, s, j)
      /\ PushTo(m, s) /\ JobIn(m) = j => PushedBefore(r, Len(r) + 1, s, j)
  BY PushedGrows
<1> QED BY <1>1, <1>2 DEF Tracks

LEMMA SteadyDrops ==
    ASSUME NEW q, NEW r, Drops(q, r), NEW k \in Nat, NEW n \in Nat, NEW s, NEW j
    PROVE  Steady(q, k + 1, n + 1, s, j) => Steady(r, k, n, s, j)
<1> SUFFICES ASSUME Steady(q, k + 1, n + 1, s, j), NEW i \in 1 .. Len(r), k < i, i < n, For(r[i], s)
             PROVE  JobIn(r[i]) \in {0, j}
  BY DEF Steady
<1>1. i + 1 \in 1 .. Len(q) /\ r[i] = q[i + 1] /\ k + 1 < i + 1 /\ i + 1 < n + 1
  BY DropsAt
<1> QED BY <1>1 DEF Steady

\* A push that is not the first is still to come.
LEMMA PushedDrops ==
    ASSUME NEW q, NEW r, Drops(q, r), NEW n \in Nat, NEW s, NEW j, PushedBefore(q, n + 1, s, j)
    PROVE  PushedBefore(r, n, s, j) \/ (PushTo(q[1], s) /\ JobIn(q[1]) = j /\ Steady(r, 0, n, s, j))
<1>1. PICK k \in 1 .. Len(q) : k < n + 1 /\ PushTo(q[k], s) /\ JobIn(q[k]) = j /\ Steady(q, k, n + 1, s, j)
  BY DEF PushedBefore
<1>2. CASE k = 1
  <2>1. Steady(q, 0 + 1, n + 1, s, j)
    BY <1>1, <1>2
  <2>2. Steady(r, 0, n, s, j)
    BY <2>1, SteadyDrops
  <2> QED BY <1>1, <1>2, <2>2
<1>3. CASE k # 1
  <2>1. PICK h \in 1 .. Len(r) : h = k - 1
    BY <1>3, DropsHead
  <2>2. q[k] = r[h] /\ h \in Nat /\ k = h + 1 /\ h < n
    BY <1>1, <1>3, <2>1, DropsHead
  <2>3. Steady(r, h, n, s, j)
    BY <1>1, <2>2, SteadyDrops
  <2> QED BY <1>1, <2>2, <2>3 DEF PushedBefore
<1> QED BY <1>2, <1>3

\* The first message is handed over: the job that is known becomes that of a
\* push, and that of another message perhaps.
LEMMA TracksDrops ==
    ASSUME NEW q, NEW r, Drops(q, r), NEW n \in Nat \ {0}, NEW s, NEW j, NEW kj, NEW kk,
           Tracks(q, n + 1, s, j, kj),
           PushTo(q[1], s) => kk = JobIn(q[1]) /\ JobIn(q[1]) # 0,
           kk = kj \/ (For(q[1], s) /\ kk = JobIn(q[1]) /\ kk # 0)
    PROVE  Tracks(r, n, s, j, kk)
<1>1. CASE PushedBefore(q, n + 1, s, j)
  BY <1>1, PushedDrops DEF Tracks
<1>2. CASE kj = j /\ Steady(q, 0, n + 1, s, j)
  <2>1. Steady(r, 0, n, s, j)
    <3>1. Steady(q, 0 + 1, n + 1, s, j)
      BY <1>2 DEF Steady
    <3> QED BY <3>1, SteadyDrops
  <2>2. For(q[1], s) => JobIn(q[1]) \in {0, j}
    <3>1. 1 \in 1 .. Len(q) /\ 0 < 1 /\ 1 < n + 1
      BY DropsHead
    <3> QED BY <1>2, <3>1 DEF Steady
  <2>3. kk = j
    BY <1>2, <2>2
  <2> QED BY <2>1, <2>3 DEF Tracks
<1> QED BY <1>1, <1>2 DEF Tracks

-----------------------------------------------------------------------------
(* Ledgers.                                                                *)

LEMMA RecordIs ==
    ASSUME NEW L \in LedgerType, NEW j \in 0 .. MaxGrants, NEW g \in 1 .. MaxGrants
    PROVE  /\ Record(L, j, g) \in LedgerType /\ Record(L, j, g).job = j
           /\ Stays(Record(L, j, g), j, g)
           /\ Record(L, j, g).last = {g} \union (IF L.job = j THEN L.last ELSE {})
BY DEF Record, LedgerType, Stays

LEMMA RecordKeeps ==
    ASSUME NEW L \in LedgerType, NEW j \in 0 .. MaxGrants, NEW g \in 1 .. MaxGrants,
           L.job <= j, NEW i \in Int, NEW h, Stays(L, i, h)
    PROVE  Stays(Record(L, j, g), i, h)
<1>1. L.job \in Int
  BY DEF LedgerType
<1>2. CASE L.job = j
  BY <1>1, <1>2 DEF Record, LedgerType, Stays
<1>3. CASE L.job # j
  <2>1. Record(L, j, g) = [job |-> j, last |-> {g}, prior |-> L.last]
    BY <1>3 DEF Record
  <2>2. L.job + 1 <= j
    BY <1>1, <1>3
  <2> QED BY <1>1, <2>1, <2>2 DEF Stays
<1> QED BY <1>2, <1>3

-----------------------------------------------------------------------------
(* A message more.                                                         *)

LEMMA DownGrows ==
    ASSUME NEW q, NEW r, NEW m, Grows(q, r, m), NEW s, NEW e, NEW L, NEW M, NEW kn, NEW in,
           L.job \in Nat, JobIn(m) \in Nat,
           DownOK(q, s, e, L, kn, in),
           \A j \in Nat : \A g : Stays(L, j, g) => Stays(M, j, g),
           \A i \in 1 .. Len(q) : For(q[i], s) => JobIn(q[i]) \in Nat,
           kn.job \in Nat,
           For(m, s) /\ JobIn(m) # 0 => GrantIn(m) # 0 /\ Stays(M, JobIn(m), GrantIn(m)),
           For(m, s) /\ JobIn(m) = 0 /\ GrantIn(m) # 0 => s \in in /\ Stays(M, L.job, GrantIn(m)),
           \/ M.job = L.job /\ (For(m, s) => JobIn(m) \in {0, L.job})
           \/ PushTo(m, s) /\ JobIn(m) = M.job,
           ReplyTo(m, s) /\ Good(m) => m.c # e /\ s \in in
    PROVE  DownOK(r, s, e, M, kn, in)
<1>0. /\ Len(q) \in Nat /\ Len(r) = Len(q) + 1 /\ r[Len(q) + 1] = m /\ Len(r) \in Nat
      /\ \A i \in 1 .. Len(q) : i \in 1 .. Len(r) /\ r[i] = q[i] /\ i \in 1 .. Len(q) + 1 /\ i \in Nat
  BY DEF Grows
<1>1. GrantsStay(r, s, M)
  <2> SUFFICES ASSUME NEW i \in 1 .. Len(r), For(r[i], s), JobIn(r[i]) # 0
               PROVE  GrantIn(r[i]) # 0 /\ Stays(M, JobIn(r[i]), GrantIn(r[i]))
    BY DEF GrantsStay
  <2>1. CASE i \in 1 .. Len(q) /\ r[i] = q[i]
    BY <2>1 DEF DownOK, GrantsStay
  <2>2. CASE r[i] = m
    BY <2>2
  <2> QED BY <2>1, <2>2, GrowsAt
<1>2. BareGrantsStay(r, s, M, kn.job)
  <2> SUFFICES ASSUME NEW i \in 1 .. Len(r), For(r[i], s), JobIn(r[i]) = 0, GrantIn(r[i]) # 0
               PROVE  \E j \in Nat : Stays(M, j, GrantIn(r[i])) /\ Tracks(r, i, s, j, kn.job)
    BY DEF BareGrantsStay
  <2>1. CASE i \in 1 .. Len(q) /\ r[i] = q[i]
    <3>1. PICK j \in Nat : Stays(L, j, GrantIn(q[i])) /\ Tracks(q, i, s, j, kn.job)
      BY <2>1 DEF DownOK, BareGrantsStay
    <3>2. Tracks(r, i, s, j, kn.job)
      BY <1>0, <2>1, <3>1, TracksGrows
    <3> QED BY <2>1, <3>1, <3>2
  <2>2. CASE i = Len(q) + 1 /\ r[i] = m
    <3>1. Tracks(q, Len(q) + 1, s, L.job, kn.job)
      BY <2>2 DEF DownOK, KnowsJob
    <3>2. Tracks(r, Len(q) + 1, s, L.job, kn.job)
      <4>1. Len(q) + 1 \in 1 .. Len(q) + 1
        BY <1>0
      <4> QED BY <3>1, <4>1, TracksGrows
    <3> QED BY <2>2, <3>2
  <2> QED BY <2>1, <2>2, GrowsAt
<1>3. KnowsJob(r, s, M, kn.job, in)
  <2> SUFFICES ASSUME s \in in PROVE Tracks(r, Len(r) + 1, s, M.job, kn.job)
    BY DEF KnowsJob
  <2>1. CASE M.job = L.job /\ (For(m, s) => JobIn(m) \in {0, L.job})
    <3>1. Tracks(q, Len(q) + 1, s, M.job, kn.job)
      BY <2>1 DEF DownOK, KnowsJob
    <3> QED BY <2>1, <3>1, TracksGrows
  <2>2. CASE PushTo(m, s) /\ JobIn(m) = M.job
    BY <2>2, TracksGrows
  <2> QED BY <2>1, <2>2
<1>4. OnlyLogged(r, s, e, in)
  <2> SUFFICES ASSUME NEW i \in 1 .. Len(r), ReplyTo(r[i], s), Good(r[i]), r[i].c # e PROVE s \in in
    BY DEF OnlyLogged
  <2>1. CASE i \in 1 .. Len(q) /\ r[i] = q[i]
    BY <2>1 DEF DownOK, OnlyLogged
  <2>2. CASE r[i] = m
    BY <2>2
  <2> QED BY <2>1, <2>2, GrowsAt
<1>5. LoginTeaches(r, s, e, M)
  <2> SUFFICES ASSUME NEW i \in 1 .. Len(r), ReplyTo(r[i], s), Good(r[i]), r[i].c = e
               PROVE  /\ JobIn(r[i]) # 0
                      /\ \A k \in 1 .. Len(r) : k < i => ~ PushTo(r[k], s)
                      /\ \/ PushedBefore(r, Len(r) + 1, s, M.job)
                         \/ JobIn(r[i]) = M.job /\ Steady(r, i, Len(r) + 1, s, M.job)
    BY DEF LoginTeaches
  <2>1. i \in 1 .. Len(q) /\ r[i] = q[i] /\ i \in Int
    BY GrowsAt
  <2>2. /\ JobIn(q[i]) # 0
        /\ \A k \in 1 .. Len(q) : k < i => ~ PushTo(q[k], s)
        /\ \/ PushedBefore(q, Len(q) + 1, s, L.job)
           \/ JobIn(q[i]) = L.job /\ Steady(q, i, Len(q) + 1, s, L.job)
    BY <2>1 DEF DownOK, LoginTeaches
  <2>3. \A k \in 1 .. Len(r) : k < i => ~ PushTo(r[k], s)
    BY <1>0, <2>1, <2>2
  <2>4. CASE M.job = L.job /\ (For(m, s) => JobIn(m) \in {0, L.job})
    <3>1. PushedBefore(q, Len(q) + 1, s, M.job) => PushedBefore(r, Len(r) + 1, s, M.job)
      BY <2>4, PushedGrows
    <3>2. Steady(q, i, Len(q) + 1, s, M.job) => Steady(r, i, Len(r) + 1, s, M.job)
      BY <2>1, <2>4, SteadyGrows
    <3> QED BY <2>1, <2>2, <2>3, <2>4, <3>1, <3>2
  <2>5. CASE PushTo(m, s) /\ JobIn(m) = M.job
    <3>1. PushedBefore(r, Len(r) + 1, s, M.job)
      BY <2>5, PushedGrows
    <3> QED BY <2>1, <2>2, <2>3, <3>1
  <2> QED BY <2>4, <2>5
<1>6. KnownStays(M, kn)
  BY DEF DownOK, KnownStays
<1> QED BY <1>1, <1>2, <1>3, <1>4, <1>5, <1>6 DEF DownOK

\* The answer of the login, after answers that teach nothing.
LEMMA DownStarts ==
    ASSUME NEW q, NEW r, NEW m, Grows(q, r, m), NEW s, NEW e, NEW L, NEW kn, NEW in,
           BlankDown(q, s), kn.last = {}, s \notin in,
           ReplyTo(m, s), ~ PushTo(m, s), m.c = e, JobIn(m) = L.job, JobIn(m) # 0, GrantIn(m) # 0,
           Stays(L, JobIn(m), GrantIn(m))
    PROVE  DownOK(r, s, e, L, kn, in)
<1>0. /\ Len(q) \in Nat /\ Len(r) = Len(q) + 1 /\ r[Len(q) + 1] = m /\ Len(r) \in Nat
      /\ \A i \in 1 .. Len(q) : i \in 1 .. Len(r) /\ r[i] = q[i]
  BY DEF Grows
<1>1. \A i \in 1 .. Len(q) : For(r[i], s) =>
          ~ PushTo(r[i], s) /\ ~ Good(r[i]) /\ JobIn(r[i]) = 0 /\ GrantIn(r[i]) = 0
  BY <1>0 DEF BlankDown
<1>2. \A i \in 1 .. Len(r) : i \in 1 .. Len(q) \/ (i = Len(q) + 1 /\ r[i] = m)
  BY GrowsAt
<1>3. GrantsStay(r, s, L)
  BY <1>1, <1>2 DEF GrantsStay
<1>4. BareGrantsStay(r, s, L, kn.job)
  BY <1>1, <1>2 DEF BareGrantsStay
<1>5. KnowsJob(r, s, L, kn.job, in)
  BY DEF KnowsJob
<1>6. \A i \in 1 .. Len(r) : ReplyTo(r[i], s) /\ Good(r[i]) => i = Len(q) + 1 /\ r[i] = m
  BY <1>1, <1>2 DEF For
<1>7. OnlyLogged(r, s, e, in)
  BY <1>6 DEF OnlyLogged
<1>8. LoginTeaches(r, s, e, L)
  <2> SUFFICES ASSUME NEW i \in 1 .. Len(r), i = Len(q) + 1, r[i] = m
               PROVE  /\ JobIn(r[i]) # 0
                      /\ \A k \in 1 .. Len(r) : k < i => ~ PushTo(r[k], s)
                      /\ JobIn(r[i]) = L.job /\ Steady(r, i, Len(r) + 1, s, L.job)
    BY <1>6 DEF LoginTeaches
  <2>1. \A k \in 1 .. Len(r) : k < i => ~ PushTo(r[k], s)
    BY <1>0, <1>1 DEF For
  <2>2. Steady(r, i, Len(r) + 1, s, L.job)
    BY <1>0 DEF Steady
  <2> QED BY <2>1, <2>2
<1>9. KnownStays(L, kn)
  BY DEF KnownStays
<1> QED BY <1>3, <1>4, <1>5, <1>7, <1>8, <1>9 DEF DownOK

-----------------------------------------------------------------------------
(* The first message is handed over.                                       *)

LEMMA DownDrops ==
    ASSUME NEW q, NEW r, Drops(q, r), NEW s, NEW e, NEW L, NEW kn \in LedgerType, NEW kk, NEW in, NEW jn,
           DownOK(q, s, e, L, kn, in), in \subseteq jn, L.job \in Nat,
           For(q[1], s) => JobIn(q[1]) \in 0 .. MaxGrants /\ GrantIn(q[1]) \in 0 .. MaxGrants,
           \/ kk = kn
           \/ /\ For(q[1], s) /\ GrantIn(q[1]) # 0
              /\ kk = Record(kn, IF JobIn(q[1]) # 0 THEN JobIn(q[1]) ELSE kn.job, GrantIn(q[1])),
           PushTo(q[1], s) => JobIn(q[1]) # 0 /\ kk = Record(kn, JobIn(q[1]), GrantIn(q[1])),
           s \in jn \ in =>
               /\ ReplyTo(q[1], s) /\ Good(q[1])
               /\ JobIn(q[1]) # 0 /\ GrantIn(q[1]) # 0 => kk = Record(kn, JobIn(q[1]), GrantIn(q[1]))
    PROVE  DownOK(r, s, e, L, kk, jn)
<1>0. /\ Len(q) \in Nat /\ Len(q) = Len(r) + 1 /\ Len(r) \in Nat /\ 1 \in 1 .. Len(q)
      /\ \A i \in 1 .. Len(r) : /\ i + 1 \in 1 .. Len(q) /\ r[i] = q[i + 1] /\ i \in Nat \ {0}
                                /\ i \in Nat /\ 1 < i + 1
  BY DropsHead DEF Drops
<1>1. kn.job \in 0 .. MaxGrants /\ kn.job \in Nat
  BY DEF LedgerType
<1>2. PushTo(q[1], s) => GrantIn(q[1]) # 0
  BY <1>0 DEF DownOK, GrantsStay, For
<1>3. For(q[1], s) /\ GrantIn(q[1]) # 0 => GrantIn(q[1]) \in 1 .. MaxGrants
  OBVIOUS
<1>4. For(q[1], s) /\ GrantIn(q[1]) # 0 =>
          /\ Record(kn, JobIn(q[1]), GrantIn(q[1])).job = JobIn(q[1])
          /\ Record(kn, kn.job, GrantIn(q[1])).job = kn.job
  BY <1>1, <1>3, RecordIs
<1>5. PICK kj : kj = kk.job
  OBVIOUS
<1>6. /\ PushTo(q[1], s) => kj = JobIn(q[1]) /\ JobIn(q[1]) # 0
      /\ kj = kn.job \/ (For(q[1], s) /\ kj = JobIn(q[1]) /\ kj # 0)
      /\ s \in jn \ in /\ JobIn(q[1]) # 0 /\ GrantIn(q[1]) # 0 => kj = JobIn(q[1])
  BY <1>2, <1>4, <1>5 DEF For
<1>7. \A n \in Nat \ {0} : \A j : Tracks(q, n + 1, s, j, kn.job) => Tracks(r, n, s, j, kj)
  BY <1>6, TracksDrops
<1>10. GrantsStay(r, s, L)
  BY <1>0 DEF DownOK, GrantsStay
<1>11. BareGrantsStay(r, s, L, kj)
  <2> SUFFICES ASSUME NEW i \in 1 .. Len(r), For(r[i], s), JobIn(r[i]) = 0, GrantIn(r[i]) # 0
               PROVE  \E j \in Nat : Stays(L, j, GrantIn(r[i])) /\ Tracks(r, i, s, j, kj)
    BY DEF BareGrantsStay
  <2>1. PICK j \in Nat : Stays(L, j, GrantIn(r[i])) /\ Tracks(q, i + 1, s, j, kn.job)
    BY <1>0 DEF DownOK, BareGrantsStay
  <2> QED BY <1>0, <1>7, <2>1
<1>12. KnowsJob(r, s, L, kj, jn)
  <2> SUFFICES ASSUME s \in jn PROVE Tracks(r, Len(r) + 1, s, L.job, kj)
    BY DEF KnowsJob
  <2>0. Len(r) + 1 \in Nat \ {0}
    BY <1>0
  <2>1. CASE s \in in
    <3>1. Tracks(q, Len(q) + 1, s, L.job, kn.job)
      BY <2>1 DEF DownOK, KnowsJob
    <3>2. Tracks(q, (Len(r) + 1) + 1, s, L.job, kn.job)
      BY <1>0, <3>1
    <3> QED BY <1>7, <2>0, <3>2
  <2>2. CASE s \notin in
    <3>1. ReplyTo(q[1], s) /\ Good(q[1]) /\ q[1].c = e
      BY <1>0, <2>2 DEF DownOK, OnlyLogged
    <3>2. /\ JobIn(q[1]) # 0
          /\ \/ PushedBefore(q, Len(q) + 1, s, L.job)
             \/ JobIn(q[1]) = L.job /\ Steady(q, 1, Len(q) + 1, s, L.job)
      BY <1>0, <3>1 DEF DownOK, LoginTeaches
    <3>3. GrantIn(q[1]) # 0
      BY <1>0, <3>1, <3>2 DEF DownOK, GrantsStay, For
    <3>4. kj = JobIn(q[1])
      BY <1>6, <2>2, <3>2, <3>3
    <3>5. CASE PushedBefore(q, Len(q) + 1, s, L.job)
      <4>1. PushedBefore(q, (Len(r) + 1) + 1, s, L.job)
        BY <1>0, <3>5
      <4>2. Tracks(q, (Len(r) + 1) + 1, s, L.job, kn.job)
        BY <4>1 DEF Tracks
      <4> QED BY <1>7, <2>0, <4>2
    <3>6. CASE JobIn(q[1]) = L.job /\ Steady(q, 1, Len(q) + 1, s, L.job)
      <4>1. Steady(q, 0 + 1, (Len(r) + 1) + 1, s, L.job)
        BY <1>0, <3>6
      <4>2. Steady(r, 0, Len(r) + 1, s, L.job)
        BY <2>0, <4>1, SteadyDrops
      <4> QED BY <3>4, <3>6, <4>2 DEF Tracks
    <3> QED BY <3>2, <3>5, <3>6
  <2> QED BY <2>1, <2>2
<1>13. OnlyLogged(r, s, e, jn)
  BY <1>0 DEF DownOK, OnlyLogged
<1>14. LoginTeaches(r, s, e, L)
  <2> SUFFICES ASSUME NEW i \in 1 .. Len(r), ReplyTo(r[i], s), Good(r[i]), r[i].c = e
               PROVE  /\ JobIn(r[i]) # 0
                      /\ \A k \in 1 .. Len(r) : k < i => ~ PushTo(r[k], s)
                      /\ \/ PushedBefore(r, Len(r) + 1, s, L.job)
                         \/ JobIn(r[i]) = L.job /\ Steady(r, i, Len(r) + 1, s, L.job)
    BY DEF LoginTeaches
  <2>1. PICK h \in 1 .. Len(q) : h = i + 1 /\ r[i] = q[h] /\ 1 < h
    BY <1>0
  <2>2. /\ JobIn(q[h]) # 0
        /\ \A k \in 1 .. Len(q) : k < h => ~ PushTo(q[k], s)
        /\ \/ PushedBefore(q, Len(q) + 1, s, L.job)
           \/ JobIn(q[h]) = L.job /\ Steady(q, h, Len(q) + 1, s, L.job)
    BY <2>1 DEF DownOK, LoginTeaches
  <2>3. \A k \in 1 .. Len(r) : k < i => ~ PushTo(r[k], s)
    BY <1>0, <2>1, <2>2
  <2>4. CASE PushedBefore(q, Len(q) + 1, s, L.job)
    <3>1. PushedBefore(q, (Len(r) + 1) + 1, s, L.job) /\ Len(r) + 1 \in Nat
      BY <1>0, <2>4
    <3>2. ~ PushTo(q[1], s)
      BY <1>0, <2>1, <2>2
    <3>3. PushedBefore(r, Len(r) + 1, s, L.job)
      BY <3>1, <3>2, PushedDrops
    <3> QED BY <2>1, <2>2, <2>3, <3>3
  <2>5. CASE JobIn(q[h]) = L.job /\ Steady(q, h, Len(q) + 1, s, L.job)
    <3>1. Steady(q, i + 1, (Len(r) + 1) + 1, s, L.job) /\ Len(r) + 1 \in Nat /\ i \in Nat
      BY <1>0, <2>1, <2>5
    <3>2. Steady(r, i, Len(r) + 1, s, L.job)
      BY <3>1, SteadyDrops
    <3> QED BY <2>1, <2>2, <2>3, <2>5, <3>2
  <2> QED BY <2>2, <2>4, <2>5
<1>15. KnownStays(L, kk)
  <2>0. KnownStays(L, kn)
    BY DEF DownOK
  <2>1. CASE kk = kn
    BY <2>0, <2>1
  <2>2. CASE /\ For(q[1], s) /\ GrantIn(q[1]) # 0
             /\ kk = Record(kn, IF JobIn(q[1]) # 0 THEN JobIn(q[1]) ELSE kn.job, GrantIn(q[1]))
    <3>0. PICK j \in 0 .. MaxGrants : j = IF JobIn(q[1]) # 0 THEN JobIn(q[1]) ELSE kn.job
      BY <1>1, <2>2
    <3>1. kk.job = j /\ kk.last = {GrantIn(q[1])} \union (IF kn.job = j THEN kn.last ELSE {})
      BY <1>3, <2>2, <3>0, RecordIs
    <3>2. Stays(L, j, GrantIn(q[1]))
      <4>1. CASE JobIn(q[1]) # 0
        BY <1>0, <2>2, <3>0, <4>1 DEF DownOK, GrantsStay
      <4>2. CASE JobIn(q[1]) = 0
        <5>1. PICK i \in Nat : Stays(L, i, GrantIn(q[1])) /\ Tracks(q, 1, s, i, kn.job)
          BY <1>0, <2>2, <4>2 DEF DownOK, BareGrantsStay
        <5>2. ~ PushedBefore(q, 1, s, i)
          BY DEF PushedBefore
        <5> QED BY <3>0, <4>2, <5>1, <5>2 DEF Tracks
      <4> QED BY <4>1, <4>2
    <3> QED BY <2>0, <3>1, <3>2 DEF KnownStays
  <2> QED BY <2>1, <2>2
<1> QED BY <1>5, <1>10, <1>11, <1>12, <1>13, <1>14, <1>15 DEF DownOK

-----------------------------------------------------------------------------
(* Shares in tallies.                                                      *)

Bounded(q, s) == \A i \in 1 .. Len(q) : Shares(q[i], s) \in 0 .. MaxOwed

LEMMA TalliedFinite ==
    ASSUME NEW q, Len(q) \in Nat, NEW s
    PROVE  IsFiniteSet(Tallied(q, s)) /\ Cardinality(Tallied(q, s)) \in Nat
<1>1. MaxOwed \in Nat
  BY SessionsAssumption
<1>2. IsFiniteSet(1 .. Len(q)) /\ IsFiniteSet(1 .. MaxOwed)
  BY <1>1, FS_Interval
<1>3. IsFiniteSet((1 .. Len(q)) \X (1 .. MaxOwed))
  BY <1>2, FS_Product
<1>4. Tallied(q, s) \subseteq (1 .. Len(q)) \X (1 .. MaxOwed)
  BY DEF Tallied
<1>5. IsFiniteSet(Tallied(q, s))
  BY <1>3, <1>4, FS_Subset
<1> QED BY <1>5, FS_CardinalityType

\* The first k shares of a message at i are k.
LEMMA Column ==
    ASSUME NEW i \in Nat, NEW k \in Nat
    PROVE  IsFiniteSet({i} \X (1 .. k)) /\ Cardinality({i} \X (1 .. k)) = k
<1>1. IsFiniteSet({i}) /\ Cardinality({i}) = 1
  BY FS_Singleton
<1>2. IsFiniteSet(1 .. k) /\ Cardinality(1 .. k) = k
  BY FS_Interval
<1>3. PICK S : S = {i}
  OBVIOUS
<1>4. PICK T : T = 1 .. k
  OBVIOUS
<1>5. /\ IsFiniteSet(S \X T)
      /\ Cardinality(S \X T) = Cardinality(S) * Cardinality(T)
  BY <1>1, <1>2, <1>3, <1>4, FS_Product
<1>6. Cardinality(S) = 1 /\ Cardinality(T) = k
  BY <1>1, <1>2, <1>3, <1>4
<1>7. Cardinality(S \X T) = k
  BY <1>5, <1>6
<1> QED BY <1>3, <1>4, <1>5, <1>7

LEMMA Disjoint ==
    ASSUME NEW S, NEW T, IsFiniteSet(S), IsFiniteSet(T), S \cap T = {}
    PROVE  Cardinality(S \cup T) = Cardinality(S) + Cardinality(T)
<1>1. Cardinality(S \cup T) = Cardinality(S) + Cardinality(T) - Cardinality(S \cap T)
  BY FS_Union
<1>2. Cardinality(S \cap T) = 0
  BY FS_EmptySet
<1>3. Cardinality(S) \in Nat /\ Cardinality(T) \in Nat
  BY FS_CardinalityType
<1> QED BY <1>1, <1>2, <1>3

LEMMA TalliedGrows ==
    ASSUME NEW q, NEW r, NEW m, Grows(q, r, m), NEW s, Shares(m, s) \in 0 .. MaxOwed
    PROVE  Cardinality(Tallied(r, s)) = Cardinality(Tallied(q, s)) + Shares(m, s)
<1>0. /\ Len(q) \in Nat /\ Len(r) = Len(q) + 1 /\ r[Len(q) + 1] = m
      /\ \A i \in 1 .. Len(q) : i \in 1 .. Len(r) /\ r[i] = q[i]
  BY DEF Grows
<1>1. MaxOwed \in Nat
  BY SessionsAssumption
<1>2. PICK k \in Nat : k = Shares(m, s) /\ k <= MaxOwed
  BY <1>1
<1>3. PICK N : N = {Len(q) + 1} \X (1 .. k)
  OBVIOUS
<1>4. IsFiniteSet(N) /\ Cardinality(N) = k
  BY <1>0, <1>3, Column
<1>5. IsFiniteSet(Tallied(q, s))
  BY <1>0, TalliedFinite
<1>6. Tallied(q, s) \cap N = {}
  <2> SUFFICES ASSUME NEW x \in Tallied(q, s), x \in N PROVE FALSE
    OBVIOUS
  <2>1. x[1] \in 1 .. Len(q) /\ x[1] = Len(q) + 1
    BY <1>3 DEF Tallied
  <2> QED BY <1>0, <2>1
<1>7. Tallied(r, s) = Tallied(q, s) \cup N
  <2>1. ASSUME NEW x \in Tallied(r, s) PROVE x \in Tallied(q, s) \cup N
    <3>1. PICK i \in 1 .. Len(r), n \in 1 .. MaxOwed : x = <<i, n>> /\ n <= Shares(r[i], s)
      BY DEF Tallied
    <3>2. CASE i \in 1 .. Len(q) /\ r[i] = q[i]
      BY <3>1, <3>2 DEF Tallied
    <3>3. CASE i = Len(q) + 1 /\ r[i] = m
      <4>1. n \in 1 .. k
        BY <1>1, <1>2, <3>1, <3>3
      <4> QED BY <1>3, <3>1, <3>3, <4>1
    <3> QED BY <3>2, <3>3, GrowsAt
  <2>2. ASSUME NEW x \in Tallied(q, s) PROVE x \in Tallied(r, s)
    <3>1. PICK i \in 1 .. Len(q), n \in 1 .. MaxOwed : x = <<i, n>> /\ n <= Shares(q[i], s)
      BY DEF Tallied
    <3>2. i \in 1 .. Len(r) /\ r[i] = q[i]
      BY <1>0
    <3> QED BY <3>1, <3>2 DEF Tallied
  <2>3. ASSUME NEW x \in N PROVE x \in Tallied(r, s)
    <3>1. PICK n \in 1 .. k : x = <<Len(q) + 1, n>>
      BY <1>3
    <3>2. Len(q) + 1 \in 1 .. Len(r) /\ n \in 1 .. MaxOwed /\ n <= k
      BY <1>0, <1>1, <1>2
    <3>3. n <= Shares(r[Len(q) + 1], s)
      BY <1>0, <1>2, <3>2
    <3> QED BY <3>1, <3>2, <3>3 DEF Tallied
  <2> QED BY <2>1, <2>2, <2>3
<1> QED BY <1>2, <1>4, <1>5, <1>6, <1>7, Disjoint

LEMMA TalliedDrops ==
    ASSUME NEW q, NEW r, Drops(q, r), NEW s, Shares(q[1], s) \in 0 .. MaxOwed
    PROVE  Cardinality(Tallied(q, s)) = Cardinality(Tallied(r, s)) + Shares(q[1], s)
<1>0. /\ Len(q) \in Nat /\ Len(q) = Len(r) + 1 /\ Len(r) \in Nat
      /\ \A i \in 1 .. Len(r) : i + 1 \in 1 .. Len(q) /\ r[i] = q[i + 1]
  BY DEF Drops
<1>1. MaxOwed \in Nat
  BY SessionsAssumption
<1>2. PICK k \in Nat : k = Shares(q[1], s) /\ k <= MaxOwed
  BY <1>1
<1>3. PICK N : N = {1} \X (1 .. k)
  OBVIOUS
<1>4. IsFiniteSet(N) /\ Cardinality(N) = k
  BY <1>3, Column
<1>5. PICK U : U = {<<x[1] + 1, x[2]>> : x \in Tallied(r, s)}
  OBVIOUS
<1>6. IsFiniteSet(Tallied(r, s)) /\ IsFiniteSet(Tallied(q, s))
  BY <1>0, TalliedFinite
<1>7. N \cap U = {}
  <2> SUFFICES ASSUME NEW x \in N, x \in U PROVE FALSE
    OBVIOUS
  <2>1. PICK i \in 1 .. Len(r), n \in 1 .. MaxOwed : x = <<i + 1, n>>
    BY <1>5 DEF Tallied
  <2>2. PICK n2 \in 1 .. k : x = <<1, n2>>
    BY <1>3
  <2> QED BY <1>0, <2>1, <2>2
<1>8. Tallied(q, s) = N \cup U
  <2>1. ASSUME NEW x \in Tallied(q, s) PROVE x \in N \cup U
    <3>1. PICK i \in 1 .. Len(q), n \in 1 .. MaxOwed : x = <<i, n>> /\ n <= Shares(q[i], s)
      BY DEF Tallied
    <3>2. CASE i = 1
      <4>1. n \in 1 .. k
        BY <1>1, <1>2, <3>1, <3>2
      <4> QED BY <1>3, <3>1, <3>2, <4>1
    <3>3. CASE i # 1
      <4>1. PICK h \in 1 .. Len(r) : i = h + 1 /\ q[i] = r[h]
        BY <3>3, DropsHead
      <4>2. <<h, n>> \in Tallied(r, s)
        BY <3>1, <4>1 DEF Tallied
      <4>3. x = <<(<<h, n>>)[1] + 1, (<<h, n>>)[2]>>
        BY <3>1, <4>1
      <4> QED BY <1>5, <4>2, <4>3
    <3> QED BY <3>2, <3>3
  <2>2. ASSUME NEW x \in N PROVE x \in Tallied(q, s)
    <3>1. PICK n \in 1 .. k : x = <<1, n>>
      BY <1>3
    <3>2. 1 \in 1 .. Len(q) /\ n \in 1 .. MaxOwed /\ n <= Shares(q[1], s)
      BY <1>0, <1>1, <1>2
    <3> QED BY <3>1, <3>2 DEF Tallied
  <2>3. ASSUME NEW x \in U PROVE x \in Tallied(q, s)
    <3>1. PICK i \in 1 .. Len(r), n \in 1 .. MaxOwed : x = <<i + 1, n>> /\ n <= Shares(r[i], s)
      BY <1>5 DEF Tallied
    <3>2. i + 1 \in 1 .. Len(q) /\ r[i] = q[i + 1]
      BY <1>0
    <3> QED BY <3>1, <3>2 DEF Tallied
  <2> QED BY <2>1, <2>2, <2>3
<1>9. IsFiniteSet(U) /\ Cardinality(U) = Cardinality(Tallied(r, s))
  <2>1. PICK f : f = [x \in Tallied(r, s) |-> <<x[1] + 1, x[2]>>]
    OBVIOUS
  <2>2. f \in [Tallied(r, s) -> U] /\ \A y \in U : \E x \in Tallied(r, s) : f[x] = y
    BY <1>5, <2>1
  <2>3. ASSUME NEW x \in Tallied(r, s), NEW y \in Tallied(r, s), f[x] = f[y] PROVE x = y
    <3>1. PICK i \in 1 .. Len(r), n \in 1 .. MaxOwed : x = <<i, n>>
      BY DEF Tallied
    <3>2. PICK j \in 1 .. Len(r), p \in 1 .. MaxOwed : y = <<j, p>>
      BY DEF Tallied
    <3>3. <<i + 1, n>> = <<j + 1, p>>
      BY <2>1, <2>3, <3>1, <3>2
    <3>4. i = j /\ n = p
      BY <3>3
    <3> QED BY <3>1, <3>2, <3>4
  <2>4. ExistsBijection(Tallied(r, s), U)
    BY <2>2, <2>3 DEF ExistsBijection, Bijection, Injection, Surjection, IsInjective
  <2>5. U \subseteq Tallied(q, s)
    BY <1>8
  <2>6. IsFiniteSet(U)
    BY <1>6, <2>5, FS_Subset
  <2>7. Cardinality(Tallied(r, s)) = Cardinality(U)
    BY <1>6, <2>4, FS_Bijection
  <2> QED BY <2>6, <2>7
<1>10. Cardinality(N \cup U) = Cardinality(N) + Cardinality(U)
  BY <1>4, <1>7, <1>9, Disjoint
<1>11. Cardinality(Tallied(r, s)) \in Nat
  BY <1>0, TalliedFinite
<1> QED BY <1>2, <1>4, <1>8, <1>9, <1>10, <1>11

LEMMA TalliedCut ==
    ASSUME NEW q, NEW r, Len(q) \in Nat, Len(r) \in Nat, Len(r) <= Len(q),
           \A i \in 1 .. Len(r) : r[i] = q[i], NEW s
    PROVE  Cardinality(Tallied(r, s)) <= Cardinality(Tallied(q, s))
<1>1. Tallied(r, s) \subseteq Tallied(q, s)
  BY DEF Tallied
<1>2. IsFiniteSet(Tallied(q, s))
  BY TalliedFinite
<1> QED BY <1>1, <1>2, FS_Subset

LEMMA NoneTallied ==
    ASSUME NEW q, Len(q) \in Nat, NEW s, \A i \in 1 .. Len(q) : Shares(q[i], s) = 0
    PROVE  Cardinality(Tallied(q, s)) = 0
<1>1. Tallied(q, s) = {}
  BY DEF Tallied
<1> QED BY <1>1, FS_EmptySet

-----------------------------------------------------------------------------
(* What a worker has sent.                                                 *)

LEMMA AppendGrows ==
    ASSUME NEW S, NEW q \in Seq(S), NEW m
    PROVE  Grows(q, Append(q, m), m) /\ q \o <<m>> = Append(q, m) /\ (m \in S => Append(q, m) \in Seq(S))
BY DEF Grows

LEMMA TailDrops ==
    ASSUME NEW S, NEW q \in Seq(S), q # <<>>
    PROVE  Drops(q, Tail(q)) /\ Tail(q) \in Seq(S) /\ Head(q) = q[1] /\ Head(q) \in S
BY DEF Drops

LEMMA TalksGrows ==
    ASSUME NEW q, NEW r, NEW m, Grows(q, r, m), NEW s
    PROVE  /\ ByeLast(q, s) /\ (ByeSent(q, s) => ~ Speaks(m, s) /\ ~ ByeOf(m, s)) => ByeLast(r, s)
           /\ ByeSent(r, s) => ByeSent(q, s) \/ ByeOf(m, s)
           /\ Talks(r, s) => Talks(q, s) \/ Speaks(m, s)
           /\ Chunks(r, s) => Chunks(q, s) \/ ChunkOf(m, s)
           /\ BlankUp(q, s) /\ ~ SubOf(m, s) /\ ~ AccOf(m, s) /\ ~ ChunkOf(m, s) => BlankUp(r, s)
           /\ \A L : SubsOK(q, s, L) /\ (SubOf(m, s) => Stays(L, m.job, m.g)) => SubsOK(r, s, L)
<1>0. /\ Len(q) \in Nat /\ Len(r) = Len(q) + 1 /\ r[Len(q) + 1] = m
      /\ \A i \in 1 .. Len(q) : i \in 1 .. Len(r) /\ r[i] = q[i]
      /\ \A i \in 1 .. Len(r) : (i \in 1 .. Len(q) /\ r[i] = q[i]) \/ (i = Len(q) + 1 /\ r[i] = m)
  BY DEF Grows
<1>1. ASSUME ByeLast(q, s), ByeSent(q, s) => ~ Speaks(m, s) /\ ~ ByeOf(m, s) PROVE ByeLast(r, s)
  <2> SUFFICES ASSUME NEW i \in 1 .. Len(r), ByeOf(r[i], s), NEW k \in 1 .. Len(r), i < k
               PROVE  ~ Speaks(r[k], s) /\ ~ ByeOf(r[k], s)
    BY DEF ByeLast
  <2>1. i \in 1 .. Len(q) /\ r[i] = q[i]
    BY <1>0
  <2>2. ByeSent(q, s)
    BY <2>1 DEF ByeSent
  <2>3. CASE k \in 1 .. Len(q) /\ r[k] = q[k]
    BY <1>1, <2>1, <2>3 DEF ByeLast
  <2>4. CASE r[k] = m
    BY <1>1, <2>2, <2>4
  <2> QED BY <1>0, <2>3, <2>4
<1>2. ByeSent(r, s) => ByeSent(q, s) \/ ByeOf(m, s)
  BY <1>0 DEF ByeSent
<1>3. Talks(r, s) => Talks(q, s) \/ Speaks(m, s)
  BY <1>0 DEF Talks
<1>4. Chunks(r, s) => Chunks(q, s) \/ ChunkOf(m, s)
  BY <1>0 DEF Chunks
<1>5. BlankUp(q, s) /\ ~ SubOf(m, s) /\ ~ AccOf(m, s) /\ ~ ChunkOf(m, s) => BlankUp(r, s)
  BY <1>0 DEF BlankUp
<1>6. \A L : SubsOK(q, s, L) /\ (SubOf(m, s) => Stays(L, m.job, m.g)) => SubsOK(r, s, L)
  BY <1>0 DEF SubsOK
<1> QED BY <1>1, <1>2, <1>3, <1>4, <1>5, <1>6

LEMMA TalksDrops ==
    ASSUME NEW q, NEW r, Drops(q, r), NEW s
    PROVE  /\ ByeLast(q, s) => ByeLast(r, s)
           /\ ByeSent(r, s) => ByeSent(q, s)
           /\ Talks(r, s) => Talks(q, s)
           /\ Chunks(r, s) => Chunks(q, s)
           /\ BlankUp(q, s) => BlankUp(r, s)
           /\ \A L : SubsOK(q, s, L) => SubsOK(r, s, L)
<1>0. \A i \in 1 .. Len(r) : i + 1 \in 1 .. Len(q) /\ r[i] = q[i + 1]
  BY DEF Drops
<1>1. ASSUME ByeLast(q, s) PROVE ByeLast(r, s)
  <2> SUFFICES ASSUME NEW i \in 1 .. Len(r), ByeOf(r[i], s), NEW k \in 1 .. Len(r), i < k
               PROVE  ~ Speaks(r[k], s) /\ ~ ByeOf(r[k], s)
    BY DEF ByeLast
  <2>1. i + 1 < k + 1
    OBVIOUS
  <2> QED BY <1>0, <1>1, <2>1 DEF ByeLast
<1>2. ByeSent(r, s) => ByeSent(q, s)
  BY <1>0 DEF ByeSent
<1>3. Talks(r, s) => Talks(q, s)
  BY <1>0 DEF Talks
<1>4. Chunks(r, s) => Chunks(q, s)
  BY <1>0 DEF Chunks
<1>5. BlankUp(q, s) => BlankUp(r, s)
  BY <1>0 DEF BlankUp
<1>6. \A L : SubsOK(q, s, L) => SubsOK(r, s, L)
  BY <1>0 DEF SubsOK
<1> QED BY <1>1, <1>2, <1>3, <1>4, <1>5, <1>6

\* The first message being its bye, a session has said all.
LEMMA ByeEnds ==
    ASSUME NEW q, NEW r, Drops(q, r), NEW s, ByeLast(q, s), ByeOf(q[1], s)
    PROVE  ByeSent(q, s) /\ ~ Talks(r, s) /\ \A i \in 1 .. Len(q) : i # 1 => ~ Speaks(q[i], s)
<1>0. /\ 1 \in 1 .. Len(q) /\ \A i \in 1 .. Len(r) : i + 1 \in 1 .. Len(q) /\ r[i] = q[i + 1] /\ 1 < i + 1
      /\ \A i \in 1 .. Len(q) : i # 1 => 1 < i
  BY DEF Drops
<1>1. \A k \in 1 .. Len(q) : 1 < k => ~ Speaks(q[k], s)
  BY <1>0 DEF ByeLast
<1> QED BY <1>0, <1>1 DEF ByeSent, Talks

LEMMA HeadSays ==
    ASSUME NEW q, NEW r, Drops(q, r), NEW s
    PROVE  /\ Speaks(q[1], s) => Talks(q, s)
           /\ ChunkOf(q[1], s) => Chunks(q, s)
           /\ BlankUp(q, s) => ~ SubOf(q[1], s) /\ ~ AccOf(q[1], s) /\ ~ ChunkOf(q[1], s)
<1>0. 1 \in 1 .. Len(q)
  BY DEF Drops
<1> QED BY <1>0 DEF Talks, Chunks, BlankUp

-----------------------------------------------------------------------------
(* A queue that is the same to a session.                                  *)

UpKept(q, r, s) ==
    /\ ByeLast(q, s) => ByeLast(r, s)
    /\ ByeSent(r, s) => ByeSent(q, s)
    /\ Talks(r, s) => Talks(q, s)
    /\ Chunks(r, s) => Chunks(q, s)
    /\ BlankUp(q, s) => BlankUp(r, s)
    /\ \A L : SubsOK(q, s, L) => SubsOK(r, s, L)
    /\ Cardinality(Tallied(r, s)) = Cardinality(Tallied(q, s))

LEMMA UpStays == ASSUME NEW q, NEW s PROVE UpKept(q, q, s)
BY DEF UpKept

LEMMA UpGrows ==
    ASSUME NEW q, NEW r, NEW m, Grows(q, r, m), NEW s, ~ Speaks(m, s), ~ ByeOf(m, s)
    PROVE  UpKept(q, r, s)
<1>1. MaxOwed \in Nat
  BY SessionsAssumption
<1>2. Shares(m, s) = 0
  BY DEF Shares, Speaks, AccOf
<1>3. Cardinality(Tallied(r, s)) = Cardinality(Tallied(q, s)) + 0
  BY <1>1, <1>2, TalliedGrows
<1>4. Cardinality(Tallied(q, s)) \in Nat
  BY TalliedFinite DEF Grows
<1>5. ~ SubOf(m, s) /\ ~ AccOf(m, s) /\ ~ ChunkOf(m, s)
  BY DEF Speaks, CallOf, ChunkOf
<1> QED BY <1>3, <1>4, <1>5, TalksGrows DEF UpKept

LEMMA UpDrops ==
    ASSUME NEW q, NEW r, Drops(q, r), NEW s, ~ AccOf(q[1], s)
    PROVE  UpKept(q, r, s)
<1>1. MaxOwed \in Nat
  BY SessionsAssumption
<1>2. Shares(q[1], s) = 0
  BY DEF Shares, AccOf
<1>3. Cardinality(Tallied(q, s)) = Cardinality(Tallied(r, s)) + 0
  BY <1>1, <1>2, TalliedDrops
<1>4. Cardinality(Tallied(r, s)) \in Nat
  BY TalliedFinite DEF Drops
<1> QED BY <1>3, <1>4, TalksDrops DEF UpKept

\* A message from which a worker learns nothing.
Dull(m, s) == For(m, s) => ~ PushTo(m, s) /\ ~ Good(m) /\ JobIn(m) = 0 /\ GrantIn(m) = 0

DownKept(q, r, s) ==
    /\ BlankDown(q, s) => BlankDown(r, s)
    /\ \A e, in : \A L, kn \in LedgerType : DownOK(q, s, e, L, kn, in) => DownOK(r, s, e, L, kn, in)

LEMMA DownStays == ASSUME NEW q, NEW s PROVE DownKept(q, q, s)
BY DEF DownKept

LEMMA LedgerJob == ASSUME NEW L \in LedgerType PROVE L.job \in Nat /\ L.job \in 0 .. MaxGrants
BY SessionsAssumption DEF LedgerType

LEMMA DullGrows ==
    ASSUME NEW q, NEW r, NEW m, Grows(q, r, m), NEW s, Dull(m, s), JobIn(m) \in Nat,
           \A i \in 1 .. Len(q) : For(q[i], s) => JobIn(q[i]) \in Nat
    PROVE  DownKept(q, r, s)
<1>1. ASSUME BlankDown(q, s) PROVE BlankDown(r, s)
  <2>1. \A i \in 1 .. Len(r) : (i \in 1 .. Len(q) /\ r[i] = q[i]) \/ r[i] = m
    BY GrowsAt
  <2> QED BY <1>1, <2>1 DEF BlankDown, Dull
<1>2. ASSUME NEW e, NEW in, NEW L \in LedgerType, NEW kn \in LedgerType, DownOK(q, s, e, L, kn, in)
      PROVE  DownOK(r, s, e, L, kn, in)
  <2>1. L.job \in Nat /\ kn.job \in Nat
    BY LedgerJob
  <2>2. /\ For(m, s) => JobIn(m) = 0 /\ GrantIn(m) = 0
        /\ ~ (ReplyTo(m, s) /\ Good(m))
    BY DEF Dull, For
  <2>3. /\ For(m, s) /\ JobIn(m) # 0 => GrantIn(m) # 0 /\ Stays(L, JobIn(m), GrantIn(m))
        /\ For(m, s) /\ JobIn(m) = 0 /\ GrantIn(m) # 0 => s \in in /\ Stays(L, L.job, GrantIn(m))
        /\ For(m, s) => JobIn(m) \in {0, L.job}
        /\ ReplyTo(m, s) /\ Good(m) => m.c # e /\ s \in in
    BY <2>2
  <2> QED BY <1>2, <2>1, <2>3, DownGrows
<1> QED BY <1>1, <1>2 DEF DownKept

LEMMA OtherDrops ==
    ASSUME NEW q, NEW r, Drops(q, r), NEW s, ~ For(q[1], s)
    PROVE  DownKept(q, r, s)
<1>1. ASSUME BlankDown(q, s) PROVE BlankDown(r, s)
  <2>1. \A i \in 1 .. Len(r) : i + 1 \in 1 .. Len(q) /\ r[i] = q[i + 1]
    BY DropsAt
  <2> QED BY <1>1, <2>1 DEF BlankDown
<1>2. ASSUME NEW e, NEW in, NEW L \in LedgerType, NEW kn \in LedgerType, DownOK(q, s, e, L, kn, in)
      PROVE  DownOK(r, s, e, L, kn, in)
  <2>1. L.job \in Nat
    BY LedgerJob
  <2>2. /\ For(q[1], s) => JobIn(q[1]) \in 0 .. MaxGrants /\ GrantIn(q[1]) \in 0 .. MaxGrants
        /\ PushTo(q[1], s) => JobIn(q[1]) # 0 /\ kn = Record(kn, JobIn(q[1]), GrantIn(q[1]))
        /\ s \in in \ in =>
               /\ ReplyTo(q[1], s) /\ Good(q[1])
               /\ JobIn(q[1]) # 0 /\ GrantIn(q[1]) # 0 => kn = Record(kn, JobIn(q[1]), GrantIn(q[1]))
    BY DEF For
  <2> QED BY <1>2, <2>1, <2>2, DownDrops
<1> QED BY <1>1, <1>2 DEF DownKept

LEMMA DownIn ==
    ASSUME NEW q, NEW s, NEW e, NEW L, NEW kn, NEW in, NEW jn, s \in in <=> s \in jn,
           DownOK(q, s, e, L, kn, in)
    PROVE  DownOK(q, s, e, L, kn, jn)
BY DEF DownOK, KnowsJob, OnlyLogged

-----------------------------------------------------------------------------
(* The channels.                                                           *)

LEMMA Sent ==
    ASSUME Wires, NEW w \in Workers, NEW m, ToPrimary(w, <<m>>)
    PROVE  /\ Grows(up[w], up'[w], m) /\ \A x \in Workers \ {w} : up'[x] = up[x]
           /\ m \in UpOf(w) => up'[w] \in Seq(UpOf(w))
           /\ up' = [x \in Workers |-> up'[x]]
<1>1. up = [x \in Workers |-> up[x]] /\ up[w] \in Seq(UpOf(w))
  BY DEF Wires
<1>2. up' = [up EXCEPT ![w] = up[w] \o <<m>>]
  BY DEF ToPrimary
<1>3. up'[w] = up[w] \o <<m>> /\ (\A x \in Workers \ {w} : up'[x] = up[x]) /\ up' = [x \in Workers |-> up'[x]]
  BY <1>1, <1>2
<1>4. /\ Grows(up[w], Append(up[w], m), m) /\ up[w] \o <<m>> = Append(up[w], m)
      /\ m \in UpOf(w) => Append(up[w], m) \in Seq(UpOf(w))
  BY <1>1, AppendGrows
<1> QED BY <1>3, <1>4

LEMMA SentTwo ==
    ASSUME Wires, NEW w \in Workers, NEW m, NEW n, ToPrimary(w, <<m, n>>)
    PROVE  /\ Grows(up[w], Append(up[w], m), m) /\ Grows(Append(up[w], m), up'[w], n)
           /\ \A x \in Workers \ {w} : up'[x] = up[x]
           /\ m \in UpOf(w) /\ n \in UpOf(w) => up'[w] \in Seq(UpOf(w))
           /\ up' = [x \in Workers |-> up'[x]]
<1>1. up = [x \in Workers |-> up[x]] /\ up[w] \in Seq(UpOf(w))
  BY DEF Wires
<1>2. up' = [up EXCEPT ![w] = up[w] \o <<m, n>>]
  BY DEF ToPrimary
<1>3. up[w] \in Seq(UpOf(w) \union {m}) /\ m \in UpOf(w) \union {m}
  BY <1>1
<1>4. up[w] \o <<m, n>> = Append(Append(up[w], m), n)
  BY <1>1
<1>5. up'[w] = Append(Append(up[w], m), n) /\ (\A x \in Workers \ {w} : up'[x] = up[x])
      /\ up' = [x \in Workers |-> up'[x]]
  BY <1>1, <1>2, <1>4
<1>6. Append(up[w], m) \in Seq(UpOf(w) \union {m}) /\ Grows(up[w], Append(up[w], m), m)
  BY <1>3, AppendGrows
<1>7. Grows(Append(up[w], m), up'[w], n)
  <2>1. PICK S, q : S = UpOf(w) \union {m} /\ q = Append(up[w], m)
    OBVIOUS
  <2>2. Grows(q, Append(q, n), n)
    BY <1>6, <2>1, AppendGrows
  <2> QED BY <1>5, <2>1, <2>2
<1>8. m \in UpOf(w) /\ n \in UpOf(w) => up'[w] \in Seq(UpOf(w))
  BY <1>1, <1>5, AppendGrows
<1> QED BY <1>5, <1>6, <1>7, <1>8

LEMMA TakenFrom ==
    ASSUME Wires, NEW w \in Workers, up[w] # <<>>, Taken(w)
    PROVE  /\ Drops(up[w], up'[w]) /\ \A x \in Workers \ {w} : up'[x] = up[x]
           /\ Head(up[w]) = up[w][1] /\ Head(up[w]) \in UpOf(w)
           /\ up'[w] \in Seq(UpOf(w)) /\ up' = [x \in Workers |-> up'[x]]
<1>1. up = [x \in Workers |-> up[x]] /\ up[w] \in Seq(UpOf(w))
  BY DEF Wires
<1>2. up' = [up EXCEPT ![w] = Tail(up[w])]
  BY DEF Taken
<1>3. up'[w] = Tail(up[w]) /\ (\A x \in Workers \ {w} : up'[x] = up[x]) /\ up' = [x \in Workers |-> up'[x]]
  BY <1>1, <1>2
<1> QED BY <1>1, <1>3, TailDrops

LEMMA Told ==
    ASSUME Wires, NEW w \in Workers, NEW m, ToWorker(w, m)
    PROVE  /\ w \in alive => Grows(down[w], down'[w], m)
           /\ w \notin alive => down'[w] = down[w]
           /\ \A x \in Workers \ {w} : down'[x] = down[x]
           /\ m \in DownOf(w) => down'[w] \in Seq(DownOf(w))
           /\ down' = [x \in Workers |-> down'[x]]
<1>1. down = [x \in Workers |-> down[x]] /\ down[w] \in Seq(DownOf(w))
  BY DEF Wires
<1>2. CASE w \in alive
  <2>1. down' = [down EXCEPT ![w] = Append(down[w], m)]
    BY <1>2 DEF ToWorker
  <2>2. down'[w] = Append(down[w], m) /\ (\A x \in Workers \ {w} : down'[x] = down[x])
        /\ down' = [x \in Workers |-> down'[x]]
    BY <1>1, <2>1
  <2> QED BY <1>1, <1>2, <2>2, AppendGrows
<1>3. CASE w \notin alive
  BY <1>1, <1>3 DEF ToWorker
<1> QED BY <1>2, <1>3

LEMMA Delivered ==
    ASSUME Wires, NEW w \in Workers, down[w] # <<>>, down' = [down EXCEPT ![w] = Tail(@)]
    PROVE  /\ Drops(down[w], down'[w]) /\ \A x \in Workers \ {w} : down'[x] = down[x]
           /\ Head(down[w]) = down[w][1] /\ Head(down[w]) \in DownOf(w)
           /\ down'[w] \in Seq(DownOf(w)) /\ down' = [x \in Workers |-> down'[x]]
<1>1. down = [x \in Workers |-> down[x]] /\ down[w] \in Seq(DownOf(w))
  BY DEF Wires
<1>3. down'[w] = Tail(down[w]) /\ (\A x \in Workers \ {w} : down'[x] = down[x]) /\ down' = [x \in Workers |-> down'[x]]
  BY <1>1
<1> QED BY <1>1, <1>3, TailDrops

LEMMA UpSays ==
    ASSUME NEW w \in Workers, NEW m \in UpOf(w)
    PROVE  /\ m.t \in {"login", "chunk"} => /\ m.c \in Calls /\ SessionOf(m.c) \in Sessions
                                            /\ Host[SessionOf(m.c)] = w /\ m.c \in CallsOf(w)
           /\ m.t = "acc" => \A s \in DOMAIN m.d : s \in Of(w) /\ m.d[s] \in 1 .. MaxOwed
           /\ m.t = "bye" => m.s \in Of(w)
           /\ m.t = "sub" => m.s \in Of(w)
           /\ m.t \in {"login", "chunk", "sub", "acc", "bye"}
<1>1. CASE m \in [t : {"login", "chunk"}, c : CallsOf(w)]
  <2>1. m.c \in CallsOf(w) /\ m.t \in {"login", "chunk"}
    BY <1>1
  <2>2. m.c \in Calls /\ SessionOf(m.c) \in Of(w)
    BY <2>1 DEF CallsOf, Calls, SessionOf, Of
  <2> QED BY <2>1, <2>2 DEF Of
<1>2. CASE m \in [t : {"sub"}, s : Of(w), job : 0 .. MaxGrants, g : 0 .. MaxGrants]
  BY <1>2
<1>3. CASE m \in [t : {"acc"}, d : UNION {[S -> 1 .. MaxOwed] : S \in SUBSET Of(w)}]
  <2>1. m.t = "acc" /\ m.d \in UNION {[S -> 1 .. MaxOwed] : S \in SUBSET Of(w)}
    BY <1>3
  <2>2. PICK S \in SUBSET Of(w) : m.d \in [S -> 1 .. MaxOwed]
    BY <2>1
  <2> QED BY <2>1, <2>2
<1>4. CASE m \in [t : {"bye"}, s : Of(w)]
  BY <1>4
<1> QED BY <1>1, <1>2, <1>3, <1>4 DEF UpOf

LEMMA SharesOf ==
    ASSUME NEW w \in Workers, NEW m \in UpOf(w), NEW s
    PROVE  Shares(m, s) \in 0 .. MaxOwed
<1>1. MaxOwed \in Nat
  BY SessionsAssumption
<1> QED BY <1>1, UpSays DEF Shares

LEMMA DownSays ==
    ASSUME NEW w \in Workers, NEW m \in DownOf(w)
    PROVE  /\ m.t = "r" => /\ m.c \in Calls /\ SessionOf(m.c) \in Sessions /\ Host[SessionOf(m.c)] = w
                           /\ m.c \in CallsOf(w)
           /\ m.t = "j" => m.s \in Of(w) /\ m.r.job # 0 /\ m.r.g # 0
           /\ m.t \in {"r", "j"}
           /\ JobIn(m) \in 0 .. MaxGrants /\ GrantIn(m) \in 0 .. MaxGrants
<1>1. CASE m \in [t : {"r"}, c : CallsOf(w), r : Answers]
  <2>1. m.c \in CallsOf(w) /\ m.t = "r" /\ m.r \in Answers
    BY <1>1
  <2>2. m.c \in Calls /\ SessionOf(m.c) \in Of(w)
    BY <2>1 DEF CallsOf, Calls, SessionOf, Of
  <2>3. m.r.job \in 0 .. MaxGrants /\ m.r.g \in 0 .. MaxGrants
    BY <2>1 DEF Answers
  <2> QED BY <2>1, <2>2, <2>3 DEF Of, JobIn, GrantIn
<1>2. CASE m \in [t : {"j"}, s : Of(w), r : Pushes]
  <2>1. m.s \in Of(w) /\ m.t = "j" /\ m.r \in Pushes
    BY <1>2
  <2>2. m.r.job \in 1 .. MaxGrants /\ m.r.g \in 1 .. MaxGrants
    BY <2>1 DEF Pushes
  <2>3. \A x \in 1 .. MaxGrants : x # 0 /\ x \in 0 .. MaxGrants
    BY SessionsAssumption
  <2> QED BY <2>1, <2>2, <2>3 DEF JobIn, GrantIn
<1> QED BY <1>1, <1>2 DEF DownOf

\* A message for one session of a worker is not for another.
LEMMA SaysTo ==
    ASSUME NEW w \in Workers, NEW m \in UpOf(w), NEW s \in Sessions, Speaks(m, s) \/ ByeOf(m, s)
    PROVE  Host[s] = w
BY UpSays DEF Speaks, ByeOf, CallOf, SubOf, AccOf, Of

-----------------------------------------------------------------------------
(* Types.                                                                  *)

LEMMA PartiesStep ==
    ASSUME Parties, Wires, Clients, [Next]_vars
    PROVE  Parties'
<1> USE DEF Parties
<1>1. ASSUME NEW s \in Sessions, Connect(s) PROVE Parties'
  BY <1>1 DEF Connect, worker
<1>2. ASSUME NEW s \in Sessions, AskLogin(s) \/ AskChunk(s) PROVE Parties'
  <2>1. /\ s \in open /\ made < MaxCalls /\ made' = made + 1 /\ calls' = calls \union {<<s, made'>>}
        /\ UNCHANGED <<alive, open, gone, logged, hub>>
    BY <1>2 DEF AskLogin, AskChunk, Ask
  <2>2. made' \in 0 .. MaxCalls /\ made' \in 1 .. MaxCalls
    BY <2>1, SessionsAssumption
  <2> QED BY <2>1, <2>2 DEF Calls
<1>3. ASSUME NEW s \in Sessions, Close(s) PROVE Parties'
  BY <1>3 DEF Close
<1>4. ASSUME NEW s \in Sessions, NEW g \in 1 .. MaxGrants, Submit(s, g) PROVE Parties'
  BY <1>4 DEF Submit, edge
<1>5. ASSUME NEW w \in Workers, Flush(w) \/ Pushed(w) PROVE Parties'
  BY <1>5 DEF Flush, Pushed, edge
<1>6. ASSUME NEW w \in Workers, Answered(w) PROVE Parties'
  <2>1. PICK m : /\ calls' = calls \ {m.c}
                 /\ logged' = logged \/ (m.c \in calls /\ logged' = logged \union {SessionOf(m.c)})
                 /\ UNCHANGED <<alive, open, gone, made, hub>>
    BY <1>6 DEF Answered
  <2> QED BY <2>1, CallIsSome
<1>7. ASSUME NEW w \in Workers, Die(w) PROVE Parties'
  <2>1. /\ alive' = alive \ {w} /\ open' = open \ Of(w) /\ gone' = gone \union Of(w)
        /\ logged' = logged \ Of(w) /\ calls' \subseteq calls /\ UNCHANGED <<made, hub>>
    BY <1>7 DEF Die
  <2> QED BY <2>1 DEF Of
<1>8. ASSUME NEW c \in Calls, Expire(c) \/ NewJob(c) \/ Drop(c) PROVE Parties'
  BY <1>8 DEF Expire, NewJob, Drop, edge, worker
<1>9. ASSUME NEW w \in Workers, HandleLogin(w) PROVE Parties'
  <2>1. /\ up[w] # <<>> /\ Head(up[w]).t = "login" /\ Taken(w)
        /\ hub' = hub \union {SessionOf(Head(up[w]).c)} /\ UNCHANGED <<alive, edge, calls>>
    BY <1>9 DEF HandleLogin, Arrived, worker
  <2>2. SessionOf(Head(up[w]).c) \in Sessions
    BY <2>1, TakenFrom, UpSays
  <2> QED BY <2>1, <2>2 DEF edge
<1>10. ASSUME NEW w \in Workers, HandleChunk(w) PROVE Parties'
  <2>1. /\ up[w] # <<>> /\ Head(up[w]).t = "chunk" /\ Taken(w)
        /\ hub' = hub \union {SessionOf(Head(up[w]).c)} /\ UNCHANGED <<alive, edge, calls>>
    BY <1>10 DEF HandleChunk, Arrived, worker
  <2>2. SessionOf(Head(up[w]).c) \in Sessions
    BY <2>1, TakenFrom, UpSays
  <2> QED BY <2>1, <2>2 DEF edge
<1>11. ASSUME NEW w \in Workers, HandleSub(w) \/ HandleAcc(w) \/ HandleBye(w) \/ Evict(w) PROVE Parties'
  BY <1>11 DEF HandleSub, HandleAcc, HandleBye, Evict, edge, worker
<1>12. ASSUME NEW l \in Logins,
              Refused(l) \/ Resolved(l) \/ AttachFails(l) \/ Attached(l) \/ Superseded(l)
       PROVE  Parties'
  BY <1>12 DEF Refused, Resolved, AttachFails, Attached, Superseded, edge, worker
<1>13. CASE Reset
  BY <1>13 DEF Reset, edge, worker
<1>14. CASE UNCHANGED vars
  BY <1>14 DEF vars, edge, worker
<1> QED BY <1>1, <1>2, <1>3, <1>4, <1>5, <1>6, <1>7, <1>8, <1>9, <1>10, <1>11, <1>12, <1>13, <1>14 DEF Next

LEMMA CountsStep ==
    ASSUME Parties, Counts, Wires, [Next]_vars
    PROVE  Counts'
<1> USE DEF Counts
<1>1. ASSUME NEW s \in Sessions, Connect(s) \/ AskLogin(s) \/ AskChunk(s) PROVE Counts'
  BY <1>1 DEF Connect, AskLogin, AskChunk, Ask, worker, history
<1>2. ASSUME NEW s \in Sessions, Close(s) PROVE Counts'
  <2>1. /\ open' = open \ {s} /\ owed' = owed
        /\ \/ tally[s] > 0 /\ tally' = [x \in Sessions |-> IF Host[x] = Host[s] THEN 0 ELSE tally[x]]
           \/ ~ (tally[s] > 0) /\ tally' = tally
    BY <1>2 DEF Close, history
  <2> QED BY <2>1
<1>3. ASSUME NEW s \in Sessions, NEW g \in 1 .. MaxGrants, Submit(s, g) PROVE Counts'
  <2>1. /\ s \in open /\ open' = open
        /\ \/ tally' = [tally EXCEPT ![s] = @ + 1] /\ owed' = [owed EXCEPT ![s] = @ + 1]
           \/ UNCHANGED <<tally, owed>>
    BY <1>3 DEF Submit, edge
  <2> QED BY <2>1
<1>4. ASSUME NEW w \in Workers, Flush(w) PROVE Counts'
  <2>1. /\ tally' = [s \in Sessions |-> IF Host[s] = w THEN 0 ELSE tally[s]]
        /\ UNCHANGED <<open, owed>>
    BY <1>4 DEF Flush, edge, history
  <2> QED BY <2>1
<1>5. ASSUME NEW w \in Workers, Pushed(w) \/ Answered(w) PROVE Counts'
  BY <1>5 DEF Pushed, Answered, edge, history
<1>6. ASSUME NEW w \in Workers, Die(w) PROVE Counts'
  <2>1. /\ tally' = [s \in Sessions |-> IF Host[s] = w THEN 0 ELSE tally[s]]
        /\ open' = open \ Of(w) /\ owed' = owed
    BY <1>6 DEF Die, history
  <2> QED BY <2>1 DEF Of
<1>7. ASSUME NEW c \in Calls, Expire(c) \/ NewJob(c) \/ Drop(c) PROVE Counts'
  BY <1>7 DEF Expire, NewJob, Drop, edge, worker, history
<1>8. ASSUME NEW w \in Workers,
             HandleLogin(w) \/ HandleChunk(w) \/ HandleSub(w) \/ HandleBye(w) \/ Evict(w)
      PROVE  Counts'
  BY <1>8 DEF HandleLogin, HandleChunk, HandleSub, HandleBye, Evict, edge, worker, history
<1>9. ASSUME NEW w \in Workers, HandleAcc(w) PROVE Counts'
  <2>1. PICK d : /\ owed' = [s \in Sessions |-> IF s \in DOMAIN d /\ s \in hub /\ entry[s] # None
                                               THEN owed[s] - d[s] ELSE owed[s]]
                 /\ up[w] # <<>> /\ Taken(w) /\ Head(up[w]).t = "acc" /\ d = Head(up[w]).d
                 /\ UNCHANGED <<tally, open>>
    BY <1>9 DEF HandleAcc, Arrived, edge, worker
  <2>2. \A s \in DOMAIN d : d[s] \in 1 .. MaxOwed
    BY <1>9, <2>1, TakenFrom, UpSays
  <2>3. \A s \in DOMAIN d : d[s] \in Int
    BY <2>2, SessionsAssumption
  <2> QED BY <2>1, <2>3
<1>10. ASSUME NEW l \in Logins,
              Refused(l) \/ Resolved(l) \/ AttachFails(l) \/ Attached(l) \/ Superseded(l)
       PROVE  Counts'
  BY <1>10 DEF Refused, Resolved, AttachFails, Attached, Superseded, edge, worker, history
<1>11. CASE Reset
  BY <1>11 DEF Reset, edge, worker
<1>12. CASE UNCHANGED vars
  BY <1>12 DEF vars, edge, worker, history
<1> QED BY <1>1, <1>2, <1>3, <1>4, <1>5, <1>6, <1>7, <1>8, <1>9, <1>10, <1>11, <1>12 DEF Next

LEMMA ClientsStep ==
    ASSUME Parties, Wires, Clients, [Next]_vars
    PROVE  Clients'
<1> USE DEF Clients
<1>a. ASSUME NEW S, CloseEntries(S), logins' \subseteq Logins PROVE Clients'
  BY <1>a DEF CloseEntries, Detach
<1>1. ASSUME NEW s \in Sessions, Connect(s) \/ AskLogin(s) \/ AskChunk(s) \/ Close(s) PROVE Clients'
  BY <1>1 DEF Connect, AskLogin, AskChunk, Ask, Close, backend, SessionOf
<1>2. ASSUME NEW s \in Sessions, NEW g \in 1 .. MaxGrants, Submit(s, g) PROVE Clients'
  BY <1>2 DEF Submit, backend, SessionOf
<1>3. ASSUME NEW w \in Workers, Flush(w) \/ Pushed(w) \/ Answered(w) \/ Die(w) PROVE Clients'
  BY <1>3 DEF Flush, Pushed, Answered, Die, backend, SessionOf
<1>4. ASSUME NEW c \in Calls, Expire(c) \/ NewJob(c) PROVE Clients'
  BY <1>4 DEF Expire, NewJob, backend, SessionOf
<1>5. ASSUME NEW c \in Calls, Drop(c) PROVE Clients'
  BY <1>5 DEF Drop, Detach, SessionOf
<1>6. ASSUME NEW w \in Workers, HandleLogin(w) PROVE Clients'
  <2>1. /\ up[w] # <<>> /\ Head(up[w]).t = "login" /\ Taken(w) /\ \E s : CloseEntries({s})
        /\ logins' = logins \union {[who |-> Head(up[w]).c, at |-> "resolve"]}
    BY <1>6 DEF HandleLogin, Arrived
  <2>2. Head(up[w]).c \in Calls
    BY <2>1, TakenFrom, UpSays
  <2>3. logins' \subseteq Logins
    BY <2>1, <2>2 DEF Logins
  <2> QED BY <1>a, <2>1, <2>3
<1>7. ASSUME NEW w \in Workers, HandleChunk(w) \/ HandleSub(w) \/ HandleAcc(w) PROVE Clients'
  BY <1>7 DEF HandleChunk, HandleSub, HandleAcc, backend, SessionOf
<1>8. ASSUME NEW w \in Workers, HandleBye(w) \/ Evict(w) PROVE Clients'
  <2>1. logins' = logins /\ ((\E S : CloseEntries(S)) \/ UNCHANGED backend)
    BY <1>8 DEF HandleBye, Evict
  <2> QED BY <1>a, <2>1 DEF backend, SessionOf
<1>9. ASSUME NEW l \in Logins, Refused(l) PROVE Clients'
  BY <1>9 DEF Refused, Settled, backend, SessionOf
<1>10. ASSUME NEW l \in Logins, Resolved(l) PROVE Clients'
  <2>1. /\ entry' = [entry EXCEPT ![SessionOf(l.who)] = l.who] /\ live' = live \union {l.who}
        /\ housed' = housed /\ logins' = (logins \ {l}) \union {[l EXCEPT !.at = "attach"]}
    BY <1>10 DEF Resolved
  <2>2. l.who \in Calls /\ SessionOf(l.who) \in Sessions
    BY CallIsSome DEF Logins
  <2>3. [l EXCEPT !.at = "attach"] \in Logins
    BY DEF Logins
  <2>4. PICK c \in Calls : c = l.who
    BY <2>2
  <2>5. entry' = [entry EXCEPT ![SessionOf(c)] = c] /\ SessionOf(c) \in Sessions
    BY <2>1, <2>2, <2>4
  <2>6. entry' \in [Sessions -> Calls \union {None}]
    BY <2>5
  <2>7. \A s \in Sessions : entry'[s] # None => SessionOf(entry'[s]) = s
    BY <2>5
  <2> QED BY <2>1, <2>2, <2>3, <2>6, <2>7 DEF SessionOf
<1>11. ASSUME NEW l \in Logins, AttachFails(l) PROVE Clients'
  BY <1>11 DEF AttachFails, Settled, Detach, SessionOf
<1>12. ASSUME NEW l \in Logins, Attached(l) PROVE Clients'
  BY <1>12 DEF Attached, Settled, SessionOf
<1>13. ASSUME NEW l \in Logins, Superseded(l) PROVE Clients'
  BY <1>13 DEF Superseded, Settled, Detach, SessionOf
<1>14. CASE Reset
  BY <1>a, <1>14 DEF Reset
<1>15. CASE UNCHANGED vars
  BY <1>15 DEF vars, backend, SessionOf
<1> QED BY <1>1, <1>2, <1>3, <1>4, <1>5, <1>6, <1>7, <1>8, <1>9, <1>10, <1>11, <1>12, <1>13, <1>14, <1>15 DEF Next

LEMMA LearnTyped ==
    ASSUME Books, NEW s \in Sessions, NEW r, r.job \in 0 .. MaxGrants, r.g \in 0 .. MaxGrants, Learn(s, r)
    PROVE  /\ known' \in [Sessions -> LedgerType] /\ \A x \in Sessions \ {s} : known'[x] = known[x]
           /\ \/ known'[s] = known[s] /\ (r.g = 0 \/ (r.job = 0 /\ known[s].job = 0))
              \/ /\ r.g # 0
                 /\ known'[s] = Record(known[s], IF r.job # 0 THEN r.job ELSE known[s].job, r.g)
<1>1. PICK j : j = IF r.job # 0 THEN r.job ELSE known[s].job
  OBVIOUS
<1>2. known \in [Sessions -> LedgerType] /\ known[s] \in LedgerType
  BY DEF Books
<1>3. j \in 0 .. MaxGrants
  BY <1>1, <1>2, LedgerJob
<1>4. known' = IF r.g # 0 /\ j # 0 THEN [known EXCEPT ![s] = Record(known[s], j, r.g)] ELSE known
  BY <1>1 DEF Learn
<1>5. CASE r.g # 0 /\ j # 0
  <2>1. r.g \in 1 .. MaxGrants
    BY <1>5
  <2>2. Record(known[s], j, r.g) \in LedgerType
    BY <1>2, <1>3, <2>1, RecordIs
  <2>3. known' = [known EXCEPT ![s] = Record(known[s], j, r.g)]
    BY <1>4, <1>5
  <2> QED BY <1>1, <1>2, <1>5, <2>2, <2>3
<1>6. CASE ~ (r.g # 0 /\ j # 0)
  <2>1. known' = known
    BY <1>4, <1>6
  <2>2. r.g = 0 \/ (r.job = 0 /\ known[s].job = 0)
    BY <1>1, <1>6
  <2> QED BY <1>2, <2>1, <2>2
<1> QED BY <1>5, <1>6

LEMMA GrantTyped ==
    ASSUME Books, NEW c \in Calls, NEW j \in Nat, j <= given + 1, Grant(c, j)
    PROVE  /\ given' = given + 1 /\ given' \in 1 .. MaxGrants /\ j \in 0 .. MaxGrants
           /\ ledger[c] \in LedgerType /\ ledger'[c] = Record(ledger[c], j, given')
           /\ \A x \in Calls \ {c} : ledger'[x] = ledger[x]
           /\ ledger' \in [Calls -> LedgerType]
<1>1. given' = given + 1 /\ given' \in 1 .. MaxGrants /\ j \in 0 .. MaxGrants
  BY SessionsAssumption DEF Grant, Books
<1>2. ledger \in [Calls -> LedgerType] /\ ledger[c] \in LedgerType
  BY DEF Books
<1>3. Record(ledger[c], j, given') \in LedgerType
  BY <1>1, <1>2, RecordIs
<1>4. ledger' = [ledger EXCEPT ![c] = Record(ledger[c], j, given')]
  BY DEF Grant
<1> QED BY <1>1, <1>2, <1>3, <1>4

LEMMA NoLedgerTyped == NoLedger \in LedgerType
BY SessionsAssumption DEF NoLedger, LedgerType

LEMMA BooksStep ==
    ASSUME Wires, Books, Clients, [Next]_vars
    PROVE  Books'
<1>a. ASSUME UNCHANGED <<known, ledger, jobs, given>> PROVE Books'
  BY <1>a DEF Books
<1>b. ASSUME NEW cs, Detach(cs), UNCHANGED <<known, jobs, given>> PROVE Books'
  <2>1. ledger' = [c \in Calls |-> IF c \in cs THEN NoLedger ELSE ledger[c]]
    BY <1>b DEF Detach
  <2>2. ledger' \in [Calls -> LedgerType]
    BY <2>1, NoLedgerTyped DEF Books
  <2> QED BY <1>b, <2>2 DEF Books
<1>c. ASSUME NEW S, CloseEntries(S), UNCHANGED <<known, jobs, given>> PROVE Books'
  BY <1>b, <1>c DEF CloseEntries
<1>d. ASSUME NEW c \in Calls, NEW s \in Sessions, NEW j \in {jobs[s], jobs[s] + 1}, Grant(c, j),
             jobs' = [jobs EXCEPT ![s] = j], known' = known
      PROVE  Books'
  <2>1. j \in Nat /\ j <= given + 1 /\ jobs[s] \in Nat
    BY SessionsAssumption DEF Books
  <2>2. given' = given + 1 /\ given' \in 0 .. MaxGrants /\ ledger' \in [Calls -> LedgerType]
    BY <1>d, <2>1, GrantTyped
  <2>3. jobs' \in [Sessions -> Nat]
    BY <1>d, <2>1 DEF Books
  <2>4. \A x \in Sessions : jobs'[x] <= given'
    BY <1>d, <2>1, <2>2, SessionsAssumption DEF Books
  <2> QED BY <1>d, <2>2, <2>3, <2>4 DEF Books
<1>e. ASSUME NEW s \in Sessions, NEW r, r.job \in 0 .. MaxGrants, r.g \in 0 .. MaxGrants, Learn(s, r),
             UNCHANGED <<ledger, jobs, given>>
      PROVE  Books'
  <2>1. known' \in [Sessions -> LedgerType]
    BY <1>e, LearnTyped
  <2> QED BY <1>e, <2>1 DEF Books
<1>1. ASSUME NEW s \in Sessions, Connect(s) \/ AskLogin(s) \/ AskChunk(s) PROVE Books'
  BY <1>1, <1>a DEF Connect, AskLogin, AskChunk, Ask, worker, backend, grants
<1>2. ASSUME NEW s \in Sessions, Close(s) PROVE Books'
  <2>1. known' = [known EXCEPT ![s] = NoLedger] /\ UNCHANGED <<ledger, jobs, given>>
    BY <1>2 DEF Close, backend, grants
  <2> QED BY <2>1, NoLedgerTyped DEF Books
<1>3. ASSUME NEW s \in Sessions, NEW g \in 1 .. MaxGrants, Submit(s, g) PROVE Books'
  BY <1>3, <1>a DEF Submit, backend, grants
<1>4. ASSUME NEW w \in Workers, Flush(w) PROVE Books'
  BY <1>4, <1>a DEF Flush, backend, grants
<1>5. ASSUME NEW w \in Workers, Answered(w) PROVE Books'
  <2>1. PICK m : /\ m = Head(down[w]) /\ m.t = "r" /\ down[w] # <<>> /\ down' = [down EXCEPT ![w] = Tail(@)]
                 /\ (m.c \in calls /\ Learn(SessionOf(m.c), m.r)) \/ known' = known
                 /\ UNCHANGED <<ledger, jobs, given>>
    BY <1>5 DEF Answered, backend, grants
  <2>2. m \in DownOf(w)
    BY <2>1, Delivered
  <2>3. SessionOf(m.c) \in Sessions /\ m.r.job \in 0 .. MaxGrants /\ m.r.g \in 0 .. MaxGrants
    BY <2>1, <2>2, DownSays DEF JobIn, GrantIn
  <2> QED BY <1>a, <1>e, <2>1, <2>3
<1>6. ASSUME NEW w \in Workers, Pushed(w) PROVE Books'
  <2>1. PICK m : /\ m = Head(down[w]) /\ m.t = "j" /\ down[w] # <<>> /\ down' = [down EXCEPT ![w] = Tail(@)]
                 /\ Learn(m.s, m.r) \/ known' = known
                 /\ UNCHANGED <<ledger, jobs, given>>
    BY <1>6 DEF Pushed, backend, grants
  <2>2. m \in DownOf(w)
    BY <2>1, Delivered
  <2>3. m.s \in Sessions /\ m.r.job \in 0 .. MaxGrants /\ m.r.g \in 0 .. MaxGrants
    BY <2>1, <2>2, DownSays DEF JobIn, GrantIn, Of
  <2> QED BY <1>a, <1>e, <2>1, <2>3
<1>7. ASSUME NEW w \in Workers, Die(w) PROVE Books'
  <2>1. /\ known' = [s \in Sessions |-> IF Host[s] = w THEN NoLedger ELSE known[s]]
        /\ UNCHANGED <<ledger, jobs, given>>
    BY <1>7 DEF Die, backend, grants
  <2> QED BY <2>1, NoLedgerTyped DEF Books
<1>8. ASSUME NEW c \in Calls, Expire(c) PROVE Books'
  BY <1>8, <1>a DEF Expire, backend, grants
<1>9. ASSUME NEW c \in Calls, NewJob(c) PROVE Books'
  <2>1. PICK s \in Sessions : s = SessionOf(c)
    BY CallIsSome
  <2>2. Grant(c, jobs[s] + 1) /\ jobs' = [jobs EXCEPT ![s] = jobs[s] + 1] /\ known' = known
    BY <1>9, <2>1 DEF NewJob, worker
  <2> QED BY <1>d, <2>2
<1>10. ASSUME NEW c \in Calls, Drop(c) PROVE Books'
  BY <1>10, <1>b DEF Drop, worker, grants
<1>11. ASSUME NEW w \in Workers, HandleLogin(w) PROVE Books'
  BY <1>11, <1>c DEF HandleLogin, worker, grants
<1>12. ASSUME NEW w \in Workers, HandleChunk(w) PROVE Books'
  <2>1. PICK c : /\ up[w] # <<>> /\ Head(up[w]).t = "chunk" /\ c = Head(up[w]).c /\ Taken(w)
                 /\ GrantChunk(c) \/ UNCHANGED <<ledger, given>>
                 /\ UNCHANGED <<known, jobs>>
    BY <1>12 DEF HandleChunk, Arrived, RefuseChunk, worker
  <2>2. CASE GrantChunk(c)
    <3>1. PICK e \in Calls : e \in housed /\ Grant(e, ledger[e].job)
      BY <2>2 DEF GrantChunk, Clients
    <3>2. ledger[e].job \in Nat /\ ledger[e].job \in 0 .. MaxGrants
      BY LedgerJob DEF Books
    <3>3. given' = given + 1 /\ given' \in 0 .. MaxGrants /\ ledger' \in [Calls -> LedgerType]
      <4>1. given' = given + 1 /\ given' \in 1 .. MaxGrants
        BY <3>1, SessionsAssumption DEF Grant, Books
      <4>2. Record(ledger[e], ledger[e].job, given') \in LedgerType
        BY <3>2, <4>1, RecordIs DEF Books
      <4>3. ledger' = [ledger EXCEPT ![e] = Record(ledger[e], ledger[e].job, given')]
        BY <3>1 DEF Grant
      <4> QED BY <4>1, <4>2, <4>3 DEF Books
    <3> QED BY <2>1, <3>3 DEF Books
  <2> QED BY <1>a, <2>1, <2>2
<1>13. ASSUME NEW w \in Workers, HandleSub(w) \/ HandleAcc(w) PROVE Books'
  BY <1>13, <1>a DEF HandleSub, HandleAcc, worker, backend, grants
<1>14. ASSUME NEW w \in Workers, HandleBye(w) \/ Evict(w) PROVE Books'
  <2>1. UNCHANGED <<known, jobs, given>> /\ ((\E S : CloseEntries(S)) \/ UNCHANGED ledger)
    BY <1>14 DEF HandleBye, Evict, worker, backend, grants
  <2> QED BY <1>a, <1>c, <2>1
<1>15. ASSUME NEW l \in Logins, Refused(l) \/ Resolved(l) PROVE Books'
  BY <1>15, <1>a DEF Refused, Resolved, worker, backend, grants
<1>16. ASSUME NEW l \in Logins, AttachFails(l) \/ Superseded(l) PROVE Books'
  BY <1>16, <1>b DEF AttachFails, Superseded, worker, grants
<1>17. ASSUME NEW l \in Logins, Attached(l) PROVE Books'
  <2>1. PICK c \in Calls : c = l.who
    BY DEF Logins
  <2>2. PICK s \in Sessions : s = SessionOf(c)
    BY CallIsSome
  <2>3. PICK j \in {jobs[s], jobs[s] + 1} : Grant(c, j) /\ jobs' = [jobs EXCEPT ![s] = j] /\ known' = known
    BY <1>17, <2>1, <2>2 DEF Attached, worker
  <2> QED BY <1>d, <2>3
<1>18. CASE Reset
  BY <1>18, <1>c DEF Reset, worker, grants
<1>19. CASE UNCHANGED vars
  BY <1>19, <1>a DEF vars, worker, backend, grants
<1> QED BY <1>1, <1>2, <1>3, <1>4, <1>5, <1>6, <1>7, <1>8, <1>9, <1>10, <1>11, <1>12, <1>13, <1>14,
           <1>15, <1>16, <1>17, <1>18, <1>19 DEF Next

LEMMA InFlightNat ==
    ASSUME Wires, NEW s \in Sessions
    PROVE  InFlight(s) \in Nat /\ InFlight(s) = Cardinality(Tallied(up[Host[s]], s))
           /\ Host[s] \in Workers /\ Len(up[Host[s]]) \in Nat
<1>1. Host[s] \in Workers
  BY SessionsAssumption
<1>2. Len(up[Host[s]]) \in Nat
  BY <1>1 DEF Wires
<1> QED BY <1>1, <1>2, TalliedFinite DEF InFlight

LEMMA TallyBound ==
    ASSUME Wires, Counts, Owes, NEW s \in Sessions
    PROVE  tally[s] \in 0 .. MaxOwed
<1>1. tally[s] \in Nat /\ owed[s] \in Int /\ InFlight(s) \in Nat /\ MaxOwed \in Nat
  BY InFlightNat, SessionsAssumption DEF Counts
<1>2. tally[s] + InFlight(s) <= owed[s] /\ owed[s] <= MaxOwed
  BY DEF Owes
<1> QED BY <1>1, <1>2

\* What flush() sends.
LEMMA Flushes ==
    ASSUME Wires, Counts, Owes, NEW w \in Workers, NEW m, m = Flushed(w)
    PROVE  /\ m \in UpOf(w)
           /\ \A s \in Sessions : /\ AccOf(m, s) <=> Host[s] = w /\ tally[s] > 0
                                  /\ Shares(m, s) = IF Host[s] = w THEN tally[s] ELSE 0
                                  /\ ~ CallOf(m, s) /\ ~ SubOf(m, s) /\ ~ ByeOf(m, s)
<1>1. PICK S : S = {x \in Of(w) : tally[x] > 0}
  OBVIOUS
<1>2. m.t = "acc" /\ m.d = [s \in S |-> tally[s]] /\ m = [t |-> "acc", d |-> m.d]
  BY <1>1 DEF Flushed, Tallies
<1>3. S \in SUBSET Of(w) /\ S \subseteq Sessions
  BY <1>1 DEF Of
<1>4. \A s \in S : tally[s] \in 1 .. MaxOwed
  BY <1>1, <1>3, TallyBound, SessionsAssumption DEF Counts
<1>5. m.d \in [S -> 1 .. MaxOwed]
  BY <1>2, <1>4
<1>6. m.d \in UNION {[X -> 1 .. MaxOwed] : X \in SUBSET Of(w)}
  BY <1>3, <1>5
<1>7. m \in UpOf(w)
  BY <1>2, <1>6 DEF UpOf
<1>8. ASSUME NEW s \in Sessions
      PROVE  /\ AccOf(m, s) <=> Host[s] = w /\ tally[s] > 0
             /\ Shares(m, s) = IF Host[s] = w THEN tally[s] ELSE 0
             /\ ~ CallOf(m, s) /\ ~ SubOf(m, s) /\ ~ ByeOf(m, s)
  <2>1. s \in DOMAIN m.d <=> Host[s] = w /\ tally[s] > 0
    BY <1>1, <1>2 DEF Of
  <2>2. s \in DOMAIN m.d => m.d[s] = tally[s]
    BY <1>2
  <2>3. Host[s] = w /\ ~ (tally[s] > 0) => tally[s] = 0
    BY DEF Counts
  <2> QED BY <1>2, <2>1, <2>2, <2>3 DEF AccOf, Shares, CallOf, SubOf, ByeOf
<1> QED BY <1>7, <1>8

LEMMA CallTyped ==
    ASSUME NEW s \in Sessions, NEW i \in 1 .. MaxCalls, NEW t \in {"login", "chunk"}
    PROVE  Call(t, <<s, i>>) \in UpOf(Host[s])
<1>1. <<s, i>> \in CallsOf(Host[s])
  BY DEF CallsOf, Of
<1> QED BY <1>1 DEF Call, UpOf

LEMMA SolutionTyped ==
    ASSUME Books, NEW s \in Sessions, NEW g \in 1 .. MaxGrants
    PROVE  Solution(s, g) \in UpOf(Host[s])
<1>1. known[s].job \in 0 .. MaxGrants /\ g \in 0 .. MaxGrants
  BY LedgerJob DEF Books
<1> QED BY <1>1 DEF Solution, UpOf, Of

LEMMA ByeTyped ==
    ASSUME NEW s \in Sessions
    PROVE  Bye(s) \in UpOf(Host[s])
BY DEF Bye, UpOf, Of

LEMMA AnswerTyped ==
    ASSUME NEW w \in Workers, NEW c \in CallsOf(w), NEW r \in Answers
    PROVE  Answer(c, r) \in DownOf(w)
BY DEF Answer, DownOf

LEMMA JobTyped ==
    ASSUME NEW s \in Sessions, NEW r \in Pushes
    PROVE  Job(s, r) \in DownOf(Host[s])
BY DEF Job, DownOf, Of

LEMMA ResultTyped ==
    ASSUME NEW j \in 0 .. MaxGrants, NEW g \in 0 .. MaxGrants
    PROVE  Result(j, g) \in Answers /\ (j # 0 /\ g # 0 => Result(j, g) \in Pushes)
BY DEF Result, Answers, Pushes

LEMMA FailedTyped == Failed \in Answers
BY SessionsAssumption DEF Failed, Answers

LEMMA CallHere ==
    ASSUME NEW c \in Calls
    PROVE  c \in CallsOf(Host[SessionOf(c)]) /\ Host[SessionOf(c)] \in Workers
BY SessionsAssumption DEF Calls, CallsOf, SessionOf, Of

LEMMA WhoIs == ASSUME NEW l \in Logins PROVE l.who \in Calls /\ l.at \in {"resolve", "attach"}
BY DEF Logins

LEMMA WiresStep ==
    ASSUME Shapes, Owes, [Next]_vars
    PROVE  Wires'
<1> Parties /\ Books /\ Counts /\ Wires /\ Clients
  BY DEF Shapes
<1>a. ASSUME UNCHANGED <<up, down>> PROVE Wires'
  BY <1>a DEF Wires
<1>b. ASSUME NEW w \in Workers, NEW m \in UpOf(w), ToPrimary(w, <<m>>), UNCHANGED down PROVE Wires'
  BY <1>b, Sent DEF Wires
<1>c. ASSUME NEW w \in Workers, up[w] # <<>>, Taken(w), UNCHANGED down PROVE Wires'
  BY <1>c, TakenFrom DEF Wires
<1>d. ASSUME NEW w \in Workers, NEW m \in DownOf(w), ToWorker(w, m), UNCHANGED up PROVE Wires'
  BY <1>d, Told DEF Wires
<1>e. ASSUME NEW w \in Workers, down[w] # <<>>, down' = [down EXCEPT ![w] = Tail(@)], UNCHANGED up PROVE Wires'
  BY <1>e, Delivered DEF Wires
<1>1. ASSUME NEW s \in Sessions, Connect(s) PROVE Wires'
  BY <1>1, <1>a DEF Connect, wire
<1>2. ASSUME NEW s \in Sessions, AskLogin(s) \/ AskChunk(s) PROVE Wires'
  <2>1. PICK t \in {"login", "chunk"} : ToPrimary(Host[s], <<Call(t, <<s, made'>>)>>) /\ made < MaxCalls /\ made' = made + 1
                                        /\ UNCHANGED down
    BY <1>2 DEF AskLogin, AskChunk, Ask
  <2>2. made' \in 1 .. MaxCalls /\ Host[s] \in Workers
    BY <2>1, SessionsAssumption DEF Parties
  <2> QED BY <1>b, <2>1, <2>2, CallTyped
<1>3. ASSUME NEW s \in Sessions, NEW g \in 1 .. MaxGrants, Submit(s, g) PROVE Wires'
  <2>1. /\ UNCHANGED down /\ Host[s] \in Workers
        /\ ToPrimary(Host[s], <<Solution(s, g)>>) \/ UNCHANGED up
    BY <1>3, SessionsAssumption DEF Submit
  <2> QED BY <1>a, <1>b, <2>1, SolutionTyped
<1>4. ASSUME NEW w \in Workers, Flush(w) PROVE Wires'
  <2>1. ToPrimary(w, <<Flushed(w)>>) /\ UNCHANGED down
    BY <1>4 DEF Flush
  <2> QED BY <1>b, <2>1, Flushes
<1>5. ASSUME NEW s \in Sessions, Close(s) PROVE Wires'
  <2>1. /\ UNCHANGED down /\ Host[s] \in Workers
        /\ ToPrimary(Host[s], <<Flushed(Host[s]), Bye(s)>>) \/ ToPrimary(Host[s], <<Bye(s)>>)
    BY <1>5, SessionsAssumption DEF Close
  <2>2. Flushed(Host[s]) \in UpOf(Host[s]) /\ Bye(s) \in UpOf(Host[s])
    BY <2>1, Flushes, ByeTyped
  <2>3. CASE ToPrimary(Host[s], <<Flushed(Host[s]), Bye(s)>>)
    BY <2>1, <2>2, <2>3, SentTwo DEF Wires
  <2> QED BY <1>b, <2>1, <2>2, <2>3
<1>6. ASSUME NEW w \in Workers, Answered(w) \/ Pushed(w) PROVE Wires'
  BY <1>6, <1>e DEF Answered, Pushed
<1>7. ASSUME NEW w \in Workers, Die(w) PROVE Wires'
  <2>1. PICK n \in 0 .. Len(up[w]) : up' = [up EXCEPT ![w] = SubSeq(@, 1, n)] /\ down' = [down EXCEPT ![w] = <<>>]
    BY <1>7 DEF Die
  <2>2. up[w] \in Seq(UpOf(w)) /\ up = [x \in Workers |-> up[x]] /\ down = [x \in Workers |-> down[x]]
    BY DEF Wires
  <2>3. SubSeq(up[w], 1, n) \in Seq(UpOf(w))
    BY <2>2
  <2>4. up'[w] = SubSeq(up[w], 1, n) /\ (\A x \in Workers \ {w} : up'[x] = up[x]) /\ up' = [x \in Workers |-> up'[x]]
    BY <2>1, <2>2
  <2>5. down'[w] = <<>> /\ (\A x \in Workers \ {w} : down'[x] = down[x]) /\ down' = [x \in Workers |-> down'[x]]
    BY <2>1, <2>2
  <2>6. up'[w] \in Seq(UpOf(w)) /\ down'[w] \in Seq(DownOf(w))
    BY <2>3, <2>4, <2>5
  <2>7. \A x \in Workers : up'[x] \in Seq(UpOf(x)) /\ down'[x] \in Seq(DownOf(x))
    BY <2>4, <2>5, <2>6 DEF Wires
  <2> QED BY <2>4, <2>5, <2>7 DEF Wires
<1>8. ASSUME NEW c \in Calls, Expire(c) \/ Drop(c) PROVE Wires'
  BY <1>8, <1>a DEF Expire, Drop, wire
<1>9. ASSUME NEW c \in Calls, NewJob(c) PROVE Wires'
  <2>1. PICK s \in Sessions : s = SessionOf(c)
    BY CallIsSome
  <2>2. Grant(c, jobs[s] + 1) /\ ToWorker(Host[s], Job(s, Result(jobs[s] + 1, given'))) /\ UNCHANGED up
    BY <1>9, <2>1 DEF NewJob
  <2>3. jobs[s] + 1 \in Nat /\ jobs[s] + 1 <= given + 1 /\ jobs[s] + 1 # 0
    BY SessionsAssumption DEF Books
  <2>4. given' \in 1 .. MaxGrants /\ jobs[s] + 1 \in 0 .. MaxGrants
    BY <2>2, <2>3, GrantTyped
  <2>5. Result(jobs[s] + 1, given') \in Pushes
    BY <2>3, <2>4, ResultTyped
  <2> QED BY <1>d, <2>2, <2>5, JobTyped, SessionsAssumption
<1>10. ASSUME NEW w \in Workers, HandleLogin(w) \/ HandleSub(w) \/ HandleAcc(w) \/ HandleBye(w) PROVE Wires'
  BY <1>10, <1>c DEF HandleLogin, HandleSub, HandleAcc, HandleBye, Arrived
<1>11. ASSUME NEW w \in Workers, HandleChunk(w) PROVE Wires'
  <2>1. PICK c : /\ up[w] # <<>> /\ Head(up[w]).t = "chunk" /\ c = Head(up[w]).c /\ Taken(w)
                 /\ GrantChunk(c) \/ RefuseChunk(c)
    BY <1>11 DEF HandleChunk, Arrived
  <2>2. c \in Calls /\ c \in CallsOf(w) /\ Host[SessionOf(c)] = w
    BY <2>1, TakenFrom, UpSays
  <2>3. PICK r \in Answers : ToWorker(w, Answer(c, r))
    <3>1. CASE GrantChunk(c)
      <4>1. PICK e \in Calls : Grant(e, ledger[e].job)
                             /\ \E j \in {0, ledger[e].job} : ToWorker(Host[SessionOf(c)], Answer(c, Result(j, given')))
        BY <3>1 DEF GrantChunk, Clients
      <4>2. ledger[e].job \in 0 .. MaxGrants
        BY LedgerJob DEF Books
      <4>3. given' \in 0 .. MaxGrants /\ 0 \in 0 .. MaxGrants
        BY <4>1, SessionsAssumption DEF Grant, Books
      <4> QED BY <2>2, <4>1, <4>2, <4>3, ResultTyped
    <3>2. CASE RefuseChunk(c)
      <4>1. 0 \in 0 .. MaxGrants
        BY SessionsAssumption
      <4> QED BY <2>2, <3>2, <4>1, ResultTyped, FailedTyped DEF RefuseChunk
    <3> QED BY <2>1, <3>1, <3>2
  <2>4. /\ down' = [x \in Workers |-> down'[x]] /\ down'[w] \in Seq(DownOf(w))
        /\ \A x \in Workers \ {w} : down'[x] = down[x]
    BY <2>2, <2>3, Told, AnswerTyped
  <2>5. /\ up' = [x \in Workers |-> up'[x]] /\ up'[w] \in Seq(UpOf(w))
        /\ \A x \in Workers \ {w} : up'[x] = up[x]
    BY <2>1, TakenFrom
  <2> QED BY <2>4, <2>5 DEF Wires
<1>12. ASSUME NEW w \in Workers, Evict(w) PROVE Wires'
  BY <1>12, <1>a DEF Evict, wire
<1>13. ASSUME NEW l \in Logins, Refused(l) \/ AttachFails(l) \/ Superseded(l) PROVE Wires'
  <2>1. Settled(l, Failed) /\ UNCHANGED up
    BY <1>13 DEF Refused, AttachFails, Superseded
  <2>2. PICK c \in Calls : c = l.who
    BY WhoIs
  <2>3. ToWorker(Host[SessionOf(c)], Answer(c, Failed))
    BY <2>1, <2>2 DEF Settled
  <2> QED BY <1>d, <2>1, <2>3, CallHere, AnswerTyped, FailedTyped
<1>14. ASSUME NEW l \in Logins, Resolved(l) PROVE Wires'
  BY <1>14, <1>a DEF Resolved, wire
<1>15. ASSUME NEW l \in Logins, Attached(l) PROVE Wires'
  <2>1. PICK c \in Calls : c = l.who
    BY WhoIs
  <2>2. PICK s \in Sessions : s = SessionOf(c)
    BY CallIsSome
  <2>3. PICK j \in {jobs[s], jobs[s] + 1} : Grant(c, j) /\ ToWorker(Host[s], Answer(c, Result(j, given'))) /\ UNCHANGED up
    BY <1>15, <2>1, <2>2 DEF Attached, Settled
  <2>4. j \in Nat /\ j <= given + 1
    BY SessionsAssumption DEF Books
  <2>5. given' \in 1 .. MaxGrants /\ j \in 0 .. MaxGrants
    BY <2>3, <2>4, GrantTyped
  <2>6. Result(j, given') \in Answers
    BY <2>5, ResultTyped
  <2> QED BY <1>d, <2>2, <2>3, <2>6, CallHere, AnswerTyped
<1>16. CASE Reset
  BY <1>16, <1>a DEF Reset, wire
<1>17. CASE UNCHANGED vars
  BY <1>17, <1>a DEF vars, wire
<1> QED BY <1>1, <1>2, <1>3, <1>4, <1>5, <1>6, <1>7, <1>8, <1>9, <1>10, <1>11, <1>12, <1>13, <1>14,
           <1>15, <1>16, <1>17 DEF Next

-----------------------------------------------------------------------------
(* No more is on its way than is owed.                                     *)

LEMMA FlightGrows ==
    ASSUME Wires, NEW w \in Workers, NEW m \in UpOf(w), ToPrimary(w, <<m>>), NEW s \in Sessions
    PROVE  InFlight(s)' = InFlight(s) + (IF Host[s] = w THEN Shares(m, s) ELSE 0)
<1>1. Grows(up[w], up'[w], m) /\ \A x \in Workers \ {w} : up'[x] = up[x]
  BY Sent
<1>2. Host[s] \in Workers /\ InFlight(s) \in Nat
  BY InFlightNat
<1>3. InFlight(s)' = Cardinality(Tallied(up'[Host[s]], s)) /\ InFlight(s) = Cardinality(Tallied(up[Host[s]], s))
  BY DEF InFlight
<1>4. CASE Host[s] = w
  <2>1. Cardinality(Tallied(up'[w], s)) = Cardinality(Tallied(up[w], s)) + Shares(m, s)
    BY <1>1, SharesOf, TalliedGrows
  <2> QED BY <1>3, <1>4, <2>1
<1>5. CASE Host[s] # w
  BY <1>1, <1>2, <1>3, <1>5
<1> QED BY <1>4, <1>5

LEMMA FlightDrops ==
    ASSUME Wires, NEW w \in Workers, up[w] # <<>>, Taken(w), NEW s \in Sessions
    PROVE  /\ InFlight(s)' \in Nat /\ Shares(Head(up[w]), s) \in Nat
           /\ InFlight(s) = InFlight(s)' + (IF Host[s] = w THEN Shares(Head(up[w]), s) ELSE 0)
<1>1. /\ Drops(up[w], up'[w]) /\ \A x \in Workers \ {w} : up'[x] = up[x]
      /\ Head(up[w]) = up[w][1] /\ Head(up[w]) \in UpOf(w)
  BY TakenFrom
<1>2. Host[s] \in Workers /\ InFlight(s) \in Nat
  BY InFlightNat
<1>3. InFlight(s)' = Cardinality(Tallied(up'[Host[s]], s)) /\ InFlight(s) = Cardinality(Tallied(up[Host[s]], s))
  BY DEF InFlight
<1>4. Shares(Head(up[w]), s) \in 0 .. MaxOwed /\ Shares(Head(up[w]), s) \in Nat
  BY <1>1, SharesOf, SessionsAssumption
<1>5. CASE Host[s] = w
  <2>1. Cardinality(Tallied(up[w], s)) = Cardinality(Tallied(up'[w], s)) + Shares(up[w][1], s)
    BY <1>1, <1>4, TalliedDrops
  <2>2. Cardinality(Tallied(up'[w], s)) \in Nat
    BY <1>1, TalliedFinite DEF Drops
  <2> QED BY <1>1, <1>3, <1>4, <1>5, <2>1, <2>2
<1>6. CASE Host[s] # w
  BY <1>1, <1>2, <1>3, <1>4, <1>6
<1> QED BY <1>5, <1>6

LEMMA Silent ==
    ASSUME NEW m, m.t # "acc", NEW s
    PROVE  Shares(m, s) = 0
BY DEF Shares

LEMMA OwesStep ==
    ASSUME Shapes, Owes, [Next]_vars
    PROVE  Owes'
<1> Parties /\ Books /\ Counts /\ Wires /\ Clients
  BY DEF Shapes
<1>0. /\ MaxOwed \in Nat
      /\ \A s \in Sessions : /\ tally[s] \in Nat /\ owed[s] \in Int /\ InFlight(s) \in Nat
                             /\ tally[s] + InFlight(s) <= owed[s] /\ owed[s] <= MaxOwed
  BY InFlightNat, SessionsAssumption DEF Counts, Owes
<1>a. ASSUME UNCHANGED <<up, tally, owed>> PROVE Owes'
  BY <1>a DEF Owes, InFlight
<1>b. ASSUME NEW w \in Workers, NEW m \in UpOf(w), m.t # "acc", ToPrimary(w, <<m>>), UNCHANGED <<tally, owed>>
      PROVE  Owes'
  <2>1. \A s \in Sessions : InFlight(s)' = InFlight(s)
    BY <1>0, <1>b, FlightGrows, Silent
  <2> QED BY <1>b, <2>1 DEF Owes
<1>c. ASSUME NEW w \in Workers, up[w] # <<>>, Taken(w), UNCHANGED <<tally, owed>> PROVE Owes'
  <2>1. \A s \in Sessions : InFlight(s)' \in Nat /\ InFlight(s)' <= InFlight(s)
    BY <1>c, FlightDrops
  <2> QED BY <1>0, <1>c, <2>1 DEF Owes
<1>1. ASSUME NEW s \in Sessions, Connect(s) PROVE Owes'
  BY <1>1, <1>a DEF Connect, wire, worker, history
<1>2. ASSUME NEW s \in Sessions, AskLogin(s) \/ AskChunk(s) PROVE Owes'
  <2>1. PICK t \in {"login", "chunk"} :
            /\ ToPrimary(Host[s], <<Call(t, <<s, made'>>)>>) /\ made < MaxCalls /\ made' = made + 1
            /\ UNCHANGED <<tally, owed>>
    BY <1>2 DEF AskLogin, AskChunk, Ask, history
  <2>2. made' \in 1 .. MaxCalls /\ Host[s] \in Workers
    BY <2>1, SessionsAssumption DEF Parties
  <2>3. Call(t, <<s, made'>>).t # "acc"
    BY DEF Call
  <2> QED BY <1>b, <2>1, <2>2, <2>3, CallTyped
<1>3. ASSUME NEW s \in Sessions, NEW g \in 1 .. MaxGrants, Submit(s, g) PROVE Owes'
  <2>1. CASE /\ owed[s] < MaxOwed /\ tally' = [tally EXCEPT ![s] = @ + 1]
             /\ owed' = [owed EXCEPT ![s] = @ + 1] /\ UNCHANGED up
    <3>1. \A x \in Sessions : InFlight(x)' = InFlight(x)
      BY <2>1 DEF InFlight
    <3>2. ASSUME NEW x \in Sessions PROVE tally'[x] + InFlight(x)' <= owed'[x] /\ owed'[x] <= MaxOwed
      BY <1>0, <2>1, <3>1 DEF Counts
    <3> QED BY <3>2 DEF Owes
  <2>2. CASE ToPrimary(Host[s], <<Solution(s, g)>>) /\ UNCHANGED <<tally, owed>>
    <3>1. Solution(s, g).t # "acc" /\ Host[s] \in Workers
      BY SessionsAssumption DEF Solution
    <3> QED BY <1>b, <2>2, <3>1, SolutionTyped
  <2> QED BY <1>3, <2>1, <2>2 DEF Submit
<1>4. ASSUME NEW w \in Workers, Flush(w) PROVE Owes'
  <2>1. /\ ToPrimary(w, <<Flushed(w)>>) /\ owed' = owed
        /\ tally' = [s \in Sessions |-> IF Host[s] = w THEN 0 ELSE tally[s]]
    BY <1>4 DEF Flush, history
  <2>2. /\ Flushed(w) \in UpOf(w)
        /\ \A s \in Sessions : Shares(Flushed(w), s) = IF Host[s] = w THEN tally[s] ELSE 0
    BY Flushes
  <2>3. ASSUME NEW s \in Sessions PROVE tally'[s] + InFlight(s)' <= owed'[s] /\ owed'[s] <= MaxOwed
    <3>1. InFlight(s)' = InFlight(s) + (IF Host[s] = w THEN Shares(Flushed(w), s) ELSE 0)
      BY <2>1, <2>2, FlightGrows
    <3> QED BY <1>0, <2>1, <2>2, <3>1
  <2> QED BY <2>3 DEF Owes
<1>5. ASSUME NEW s \in Sessions, Close(s) PROVE Owes'
  <2>0. PICK w \in Workers : w = Host[s]
    BY SessionsAssumption
  <2>1. CASE ToPrimary(w, <<Bye(s)>>) /\ UNCHANGED <<tally, owed>>
    <3>1. Bye(s).t # "acc"
      BY DEF Bye
    <3> QED BY <1>b, <2>0, <2>1, <3>1, ByeTyped
  <2>2. CASE /\ ToPrimary(w, <<Flushed(w), Bye(s)>>) /\ owed' = owed
             /\ tally' = [x \in Sessions |-> IF Host[x] = w THEN 0 ELSE tally[x]]
    <3>1. /\ Grows(up[w], Append(up[w], Flushed(w)), Flushed(w)) /\ Grows(Append(up[w], Flushed(w)), up'[w], Bye(s))
          /\ \A x \in Workers \ {w} : up'[x] = up[x]
      BY <2>2, SentTwo
    <3>2. /\ Flushed(w) \in UpOf(w) /\ Bye(s).t # "acc" /\ Bye(s) \in UpOf(w)
          /\ \A x \in Sessions : Shares(Flushed(w), x) = IF Host[x] = w THEN tally[x] ELSE 0
      BY <2>0, Flushes, ByeTyped DEF Bye
    <3>3. ASSUME NEW x \in Sessions PROVE tally'[x] + InFlight(x)' <= owed'[x] /\ owed'[x] <= MaxOwed
      <4>1. CASE Host[x] = w
        <5>1. PICK q : q = Append(up[w], Flushed(w))
          OBVIOUS
        <5>2. Cardinality(Tallied(q, x)) = Cardinality(Tallied(up[w], x)) + Shares(Flushed(w), x)
          BY <3>1, <3>2, <5>1, SharesOf, TalliedGrows
        <5>3. Cardinality(Tallied(up'[w], x)) = Cardinality(Tallied(q, x)) + Shares(Bye(s), x)
          BY <3>1, <3>2, <5>1, SharesOf, TalliedGrows
        <5>4. Shares(Bye(s), x) = 0 /\ Shares(Flushed(w), x) = tally[x]
          BY <3>2, <4>1, Silent
        <5>5. InFlight(x) = Cardinality(Tallied(up[w], x)) /\ InFlight(x)' = Cardinality(Tallied(up'[w], x))
          BY <4>1 DEF InFlight
        <5>6. tally'[x] = 0 /\ owed'[x] = owed[x]
          BY <2>2, <4>1
        <5> QED BY <1>0, <5>2, <5>3, <5>4, <5>5, <5>6
      <4>2. CASE Host[x] # w
        <5>1. up'[Host[x]] = up[Host[x]]
          BY <3>1, <4>2, SessionsAssumption
        <5>2. InFlight(x)' = InFlight(x) /\ tally'[x] = tally[x]
          BY <2>2, <4>2, <5>1 DEF InFlight
        <5> QED BY <1>0, <2>2, <5>2
      <4> QED BY <4>1, <4>2
    <3> QED BY <3>3 DEF Owes
  <2> QED BY <1>5, <2>0, <2>1, <2>2 DEF Close, history
<1>6. ASSUME NEW w \in Workers, Answered(w) \/ Pushed(w) PROVE Owes'
  BY <1>6, <1>a DEF Answered, Pushed, history
<1>7. ASSUME NEW w \in Workers, Die(w) PROVE Owes'
  <2>1. PICK n \in 0 .. Len(up[w]) : up' = [up EXCEPT ![w] = SubSeq(@, 1, n)]
    BY <1>7 DEF Die
  <2>2. owed' = owed /\ tally' = [s \in Sessions |-> IF Host[s] = w THEN 0 ELSE tally[s]]
    BY <1>7 DEF Die, history
  <2>3. up[w] \in Seq(UpOf(w)) /\ up = [x \in Workers |-> up[x]]
    BY DEF Wires
  <2>4. up'[w] = SubSeq(up[w], 1, n) /\ \A x \in Workers \ {w} : up'[x] = up[x]
    BY <2>1, <2>3
  <2>5. /\ Len(up[w]) \in Nat /\ Len(up'[w]) \in Nat /\ Len(up'[w]) <= Len(up[w])
        /\ \A i \in 1 .. Len(up'[w]) : up'[w][i] = up[w][i]
    BY <2>3, <2>4
  <2>6. ASSUME NEW s \in Sessions PROVE tally'[s] + InFlight(s)' <= owed'[s] /\ owed'[s] <= MaxOwed
    <3>1. CASE Host[s] = w
      <4>1. Cardinality(Tallied(up'[w], s)) <= Cardinality(Tallied(up[w], s))
        BY <2>5, TalliedCut
      <4>2. Cardinality(Tallied(up'[w], s)) \in Nat
        BY <2>5, TalliedFinite
      <4>3. InFlight(s) = Cardinality(Tallied(up[w], s)) /\ InFlight(s)' = Cardinality(Tallied(up'[w], s))
        BY <3>1 DEF InFlight
      <4>4. tally'[s] = 0 /\ owed'[s] = owed[s]
        BY <2>2, <3>1
      <4> QED BY <1>0, <4>1, <4>2, <4>3, <4>4
    <3>2. CASE Host[s] # w
      <4>1. up'[Host[s]] = up[Host[s]]
        BY <2>4, <3>2, SessionsAssumption
      <4>2. InFlight(s)' = InFlight(s) /\ tally'[s] = tally[s]
        BY <2>2, <3>2, <4>1 DEF InFlight
      <4> QED BY <1>0, <2>2, <4>2
    <3> QED BY <3>1, <3>2
  <2> QED BY <2>6 DEF Owes
<1>8. ASSUME NEW c \in Calls, Expire(c) \/ NewJob(c) \/ Drop(c) PROVE Owes'
  BY <1>8, <1>a DEF Expire, NewJob, Drop, wire, worker, history
<1>9. ASSUME NEW w \in Workers, HandleLogin(w) \/ HandleChunk(w) \/ HandleSub(w) \/ HandleBye(w) PROVE Owes'
  BY <1>9, <1>c DEF HandleLogin, HandleChunk, HandleSub, HandleBye, Arrived, worker, history
<1>10. ASSUME NEW w \in Workers, HandleAcc(w) PROVE Owes'
  <2>1. PICK d : /\ owed' = [s \in Sessions |-> IF s \in DOMAIN d /\ s \in hub /\ entry[s] # None
                                               THEN owed[s] - d[s] ELSE owed[s]]
                 /\ up[w] # <<>> /\ Taken(w) /\ Head(up[w]).t = "acc" /\ d = Head(up[w]).d
                 /\ UNCHANGED tally
    BY <1>10 DEF HandleAcc, Arrived, worker
  <2>2. \A s \in DOMAIN d : s \in Of(w) /\ d[s] \in 1 .. MaxOwed
    BY <2>1, TakenFrom, UpSays
  <2>3. ASSUME NEW s \in Sessions PROVE tally'[s] + InFlight(s)' <= owed'[s] /\ owed'[s] <= MaxOwed
    <3>1. /\ InFlight(s)' \in Nat /\ Shares(Head(up[w]), s) \in Nat
          /\ InFlight(s) = InFlight(s)' + (IF Host[s] = w THEN Shares(Head(up[w]), s) ELSE 0)
      BY <2>1, FlightDrops
    <3>2. s \in DOMAIN d => Host[s] = w /\ Shares(Head(up[w]), s) = d[s]
      BY <2>1, <2>2 DEF Shares, Of
    <3>3. owed'[s] = owed[s] \/ (s \in DOMAIN d /\ owed'[s] = owed[s] - d[s])
      BY <2>1
    <3>4. CASE owed'[s] = owed[s]
      BY <1>0, <2>1, <3>1, <3>4
    <3>5. CASE s \in DOMAIN d /\ owed'[s] = owed[s] - d[s]
      <4>1. PICK k \in Nat : k = d[s] /\ k = Shares(Head(up[w]), s)
        BY <3>1, <3>2, <3>5
      <4>2. owed'[s] = owed[s] - k /\ tally'[s] = tally[s] /\ InFlight(s) = InFlight(s)' + k
        BY <2>1, <3>1, <3>2, <3>5, <4>1
      <4>3. /\ tally[s] + InFlight(s) <= owed[s] /\ owed[s] <= MaxOwed
            /\ tally[s] \in Nat /\ owed[s] \in Nat /\ MaxOwed \in Nat
        BY <1>0
      <4> QED BY <3>1, <4>1, <4>2, <4>3
    <3> QED BY <3>3, <3>4, <3>5
  <2> QED BY <2>3 DEF Owes
<1>11. ASSUME NEW w \in Workers, Evict(w) PROVE Owes'
  BY <1>11, <1>a DEF Evict, wire, worker, history
<1>12. ASSUME NEW l \in Logins,
              Refused(l) \/ Resolved(l) \/ AttachFails(l) \/ Attached(l) \/ Superseded(l)
       PROVE  Owes'
  BY <1>12, <1>a DEF Refused, Resolved, AttachFails, Attached, Superseded, wire, worker, history
<1>13. CASE Reset
  BY <1>13, <1>a DEF Reset, wire, worker
<1>14. CASE UNCHANGED vars
  BY <1>14, <1>a DEF vars, wire, worker, history
<1> QED BY <1>1, <1>2, <1>3, <1>4, <1>5, <1>6, <1>7, <1>8, <1>9, <1>10, <1>11, <1>12, <1>13, <1>14 DEF Next

LEMMA ShapesStep == Shapes /\ Owes /\ [Next]_vars => Shapes' /\ Owes'
BY PartiesStep, BooksStep, CountsStep, WiresStep, ClientsStep, OwesStep DEF Shapes

-----------------------------------------------------------------------------
(* Where a call stands.                                                    *)

LEMMA AsksGrows ==
    ASSUME NEW q, NEW r, NEW m, Grows(q, r, m), NEW c
    PROVE  Asks(r, c) = Asks(q, c) \union (IF m.t \in {"login", "chunk"} /\ m.c = c THEN {Len(q) + 1} ELSE {})
<1>0. /\ Len(q) \in Nat /\ Len(r) = Len(q) + 1 /\ r[Len(q) + 1] = m /\ Len(q) + 1 \in 1 .. Len(r)
      /\ \A i \in 1 .. Len(q) : i \in 1 .. Len(r) /\ r[i] = q[i]
      /\ \A i \in 1 .. Len(r) : (i \in 1 .. Len(q) /\ r[i] = q[i]) \/ (i = Len(q) + 1 /\ r[i] = m)
  BY DEF Grows
<1> QED BY <1>0 DEF Asks

LEMMA RepliesGrows ==
    ASSUME NEW q, NEW r, NEW m, Grows(q, r, m), NEW c
    PROVE  Replies(r, c) = Replies(q, c) \union (IF m.t = "r" /\ m.c = c THEN {Len(q) + 1} ELSE {})
<1>0. /\ Len(q) \in Nat /\ Len(r) = Len(q) + 1 /\ r[Len(q) + 1] = m /\ Len(q) + 1 \in 1 .. Len(r)
      /\ \A i \in 1 .. Len(q) : i \in 1 .. Len(r) /\ r[i] = q[i]
      /\ \A i \in 1 .. Len(r) : (i \in 1 .. Len(q) /\ r[i] = q[i]) \/ (i = Len(q) + 1 /\ r[i] = m)
  BY DEF Grows
<1> QED BY <1>0 DEF Replies

\* A set that is no larger, in what matters here.
Less(S, T) == (S = {} => T = {}) /\ (AtMostOne(S) => AtMostOne(T))

LEMMA LessSame == ASSUME NEW S PROVE Less(S, S)
BY DEF Less

LEMMA LessPart == ASSUME NEW S, NEW T \in SUBSET S PROVE Less(S, T)
BY DEF Less, AtMostOne

LEMMA AsksDrops ==
    ASSUME NEW q, NEW r, Drops(q, r), NEW c
    PROVE  /\ Less(Asks(q, c), Asks(r, c))
           /\ AtMostOne(Asks(q, c)) /\ q[1].t \in {"login", "chunk"} /\ q[1].c = c
                  => Asks(q, c) # {} /\ Asks(r, c) = {}
           /\ ~ (q[1].t \in {"login", "chunk"} /\ q[1].c = c) => (Asks(r, c) = {} => Asks(q, c) = {})
<1>0. /\ \A i \in 1 .. Len(r) : i + 1 \in 1 .. Len(q) /\ r[i] = q[i + 1] /\ i + 1 # 1
      /\ 1 \in 1 .. Len(q) /\ \A k \in 1 .. Len(q) : k # 1 => k - 1 \in 1 .. Len(r) /\ q[k] = r[k - 1]
  BY DropsHead, DropsAt DEF Drops
<1>1. \A i \in Asks(r, c) : i + 1 \in Asks(q, c)
  BY <1>0 DEF Asks
<1>2. \A k \in Asks(q, c) : k # 1 => k - 1 \in Asks(r, c)
  BY <1>0 DEF Asks
<1>3. Less(Asks(q, c), Asks(r, c))
  <2>1. ASSUME AtMostOne(Asks(q, c)), NEW x \in Asks(r, c), NEW y \in Asks(r, c) PROVE x = y
    <3>1. x + 1 = y + 1 /\ x \in Int /\ y \in Int
      BY <1>1, <2>1 DEF AtMostOne, Asks
    <3> QED BY <3>1
  <2> QED BY <1>1, <2>1 DEF Less, AtMostOne
<1>4. q[1].t \in {"login", "chunk"} /\ q[1].c = c <=> 1 \in Asks(q, c)
  BY <1>0 DEF Asks
<1>5. ASSUME AtMostOne(Asks(q, c)), 1 \in Asks(q, c) PROVE Asks(r, c) = {}
  <2> SUFFICES ASSUME NEW i \in Asks(r, c) PROVE FALSE
    OBVIOUS
  <2>1. i + 1 \in Asks(q, c) /\ i + 1 # 1
    BY <1>0, <1>1 DEF Asks
  <2> QED BY <1>5, <2>1 DEF AtMostOne
<1>6. ASSUME 1 \notin Asks(q, c), Asks(r, c) = {} PROVE Asks(q, c) = {}
  BY <1>2, <1>6
<1> QED BY <1>3, <1>4, <1>5, <1>6

LEMMA RepliesDrops ==
    ASSUME NEW q, NEW r, Drops(q, r), NEW c
    PROVE  /\ Less(Replies(q, c), Replies(r, c))
           /\ ~ (q[1].t = "r" /\ q[1].c = c) => (Replies(r, c) = {} => Replies(q, c) = {})
<1>0. /\ \A i \in 1 .. Len(r) : i + 1 \in 1 .. Len(q) /\ r[i] = q[i + 1] /\ i + 1 # 1
      /\ 1 \in 1 .. Len(q) /\ \A k \in 1 .. Len(q) : k # 1 => k - 1 \in 1 .. Len(r) /\ q[k] = r[k - 1]
  BY DropsHead, DropsAt DEF Drops
<1>1. \A i \in Replies(r, c) : i + 1 \in Replies(q, c)
  BY <1>0 DEF Replies
<1>2. \A k \in Replies(q, c) : k # 1 => k - 1 \in Replies(r, c)
  BY <1>0 DEF Replies
<1>3. Less(Replies(q, c), Replies(r, c))
  <2>1. ASSUME AtMostOne(Replies(q, c)), NEW x \in Replies(r, c), NEW y \in Replies(r, c) PROVE x = y
    <3>1. x + 1 = y + 1 /\ x \in Int /\ y \in Int
      BY <1>1, <2>1 DEF AtMostOne, Replies
    <3> QED BY <3>1
  <2> QED BY <1>1, <2>1 DEF Less, AtMostOne
<1>4. q[1].t = "r" /\ q[1].c = c <=> 1 \in Replies(q, c)
  BY <1>0 DEF Replies
<1>6. ASSUME 1 \notin Replies(q, c), Replies(r, c) = {} PROVE Replies(q, c) = {}
  BY <1>2, <1>6
<1> QED BY <1>3, <1>4, <1>6

\* A call's places are its own: what a step does to another call leaves them alone.
LEMMA OnceKept ==
    ASSUME NEW c \in Calls, OnceOf(c), made \in Int, made' \in Int, made <= made',
           Less(AsksOf(c), AsksOf(c)'), Less(Awaits(c), Awaits(c)'), Less(RepliesOf(c), RepliesOf(c)'),
           c \in live' => c \in live, c \in housed' => c \in housed,
           entry'[SessionOf(c)] = c => entry[SessionOf(c)] = c,
           c \in calls' => /\ c \in calls /\ Host[SessionOf(c)] \in alive'
                           /\ AsksOf(c)' = {} => AsksOf(c) = {}
                           /\ Awaits(c)' = {} => Awaits(c) = {}
                           /\ RepliesOf(c)' = {} => RepliesOf(c) = {}
    PROVE  OnceOf(c)'
<1>1. c[2] > made' => c[2] > made
  <2>1. c[2] \in Int
    BY DEF Calls
  <2> QED BY <2>1
<1>2. PICK A, B, R : A = AsksOf(c) /\ B = Awaits(c) /\ R = RepliesOf(c)
  OBVIOUS
<1>3. PICK A1, B1, R1 : A1 = AsksOf(c)' /\ B1 = Awaits(c)' /\ R1 = RepliesOf(c)'
  OBVIOUS
<1>4. Less(A, A1) /\ Less(B, B1) /\ Less(R, R1)
  BY <1>2, <1>3
<1>5. /\ c[2] > made => A = {} /\ B = {} /\ R = {} /\ c \notin live /\ c \notin calls /\ entry[SessionOf(c)] # c
      /\ AtMostOne(A) /\ AtMostOne(B) /\ AtMostOne(R)
      /\ A # {} => B = {} /\ R = {} /\ c \notin live /\ entry[SessionOf(c)] # c
      /\ B # {} => R = {} /\ c \notin housed
      /\ c \in calls => Host[SessionOf(c)] \in alive /\ (A # {} \/ B # {} \/ R # {})
  BY <1>2 DEF OnceOf
<1>6. /\ c[2] > made' => A1 = {} /\ B1 = {} /\ R1 = {} /\ c \notin live' /\ c \notin calls' /\ entry'[SessionOf(c)] # c
      /\ AtMostOne(A1) /\ AtMostOne(B1) /\ AtMostOne(R1)
      /\ A1 # {} => B1 = {} /\ R1 = {} /\ c \notin live' /\ entry'[SessionOf(c)] # c
      /\ B1 # {} => R1 = {} /\ c \notin housed'
      /\ c \in calls' => Host[SessionOf(c)] \in alive' /\ (A1 # {} \/ B1 # {} \/ R1 # {})
  BY <1>1, <1>2, <1>3, <1>4, <1>5 DEF Less
<1> QED BY <1>3, <1>6 DEF OnceOf, SessionOf

LEMMA Asked ==
    ASSUME Wires, NEW w \in Workers, NEW m, ToPrimary(w, <<m>>), NEW c \in Calls
    PROVE  /\ AsksOf(c) \subseteq AsksOf(c)'
           /\ ~ (m.t \in {"login", "chunk"} /\ m.c = c) => AsksOf(c)' = AsksOf(c)
           /\ m.t \in {"login", "chunk"} /\ m.c = c /\ AsksOf(c) = {} /\ Host[SessionOf(c)] = w
                  => AtMostOne(AsksOf(c)') /\ AsksOf(c)' # {}
<1>1. Grows(up[w], up'[w], m) /\ \A x \in Workers \ {w} : up'[x] = up[x]
  BY Sent
<1>2. PICK h \in Workers : h = Host[SessionOf(c)]
  BY CallIsSome
<1>3. AsksOf(c) = Asks(up[h], c) /\ AsksOf(c)' = Asks(up'[h], c)
  BY <1>2 DEF AsksOf, SessionOf
<1>4. CASE h = w
  <2>1. Asks(up'[w], c) = Asks(up[w], c) \union (IF m.t \in {"login", "chunk"} /\ m.c = c THEN {Len(up[w]) + 1} ELSE {})
    BY <1>1, AsksGrows
  <2> QED BY <1>2, <1>3, <1>4, <2>1 DEF AtMostOne
<1>5. CASE h # w
  BY <1>1, <1>2, <1>3, <1>5
<1> QED BY <1>4, <1>5

LEMMA Heard ==
    ASSUME Wires, NEW w \in Workers, up[w] # <<>>, Taken(w), NEW c \in Calls
    PROVE  /\ Less(AsksOf(c), AsksOf(c)')
           /\ ~ (Head(up[w]).t \in {"login", "chunk"} /\ Head(up[w]).c = c)
                  => (AsksOf(c)' = {} => AsksOf(c) = {})
           /\ AtMostOne(AsksOf(c)) /\ Head(up[w]).t \in {"login", "chunk"} /\ Head(up[w]).c = c
                  => Host[SessionOf(c)] = w /\ AsksOf(c) # {} /\ AsksOf(c)' = {}
<1>1. /\ Drops(up[w], up'[w]) /\ \A x \in Workers \ {w} : up'[x] = up[x]
      /\ Head(up[w]) = up[w][1] /\ Head(up[w]) \in UpOf(w)
  BY TakenFrom
<1>2. PICK h \in Workers : h = Host[SessionOf(c)]
  BY CallIsSome
<1>3. AsksOf(c) = Asks(up[h], c) /\ AsksOf(c)' = Asks(up'[h], c)
  BY <1>2 DEF AsksOf, SessionOf
<1>4. CASE h = w
  <2>1. /\ Less(Asks(up[w], c), Asks(up'[w], c))
        /\ AtMostOne(Asks(up[w], c)) /\ up[w][1].t \in {"login", "chunk"} /\ up[w][1].c = c
               => Asks(up[w], c) # {} /\ Asks(up'[w], c) = {}
        /\ ~ (up[w][1].t \in {"login", "chunk"} /\ up[w][1].c = c)
               => (Asks(up'[w], c) = {} => Asks(up[w], c) = {})
    BY <1>1, AsksDrops
  <2> QED BY <1>1, <1>2, <1>3, <1>4, <2>1
<1>5. CASE h # w
  <2>1. ~ (Head(up[w]).t \in {"login", "chunk"} /\ Head(up[w]).c = c)
    BY <1>1, <1>2, <1>5, UpSays
  <2>2. AsksOf(c)' = AsksOf(c)
    BY <1>1, <1>3, <1>5
  <2> QED BY <2>1, <2>2, LessSame
<1> QED BY <1>4, <1>5

LEMMA Replied ==
    ASSUME Wires, NEW w \in Workers, NEW m, ToWorker(w, m), NEW c \in Calls
    PROVE  /\ RepliesOf(c) \subseteq RepliesOf(c)'
           /\ ~ (m.t = "r" /\ m.c = c) => RepliesOf(c)' = RepliesOf(c)
           /\ m.t = "r" /\ m.c = c /\ RepliesOf(c) = {}
                  => /\ AtMostOne(RepliesOf(c)')
                     /\ Host[SessionOf(c)] = w /\ w \in alive => RepliesOf(c)' # {}
<1>1. /\ w \in alive => Grows(down[w], down'[w], m)
      /\ w \notin alive => down'[w] = down[w]
      /\ \A x \in Workers \ {w} : down'[x] = down[x]
  BY Told
<1>2. PICK h \in Workers : h = Host[SessionOf(c)]
  BY CallIsSome
<1>3. RepliesOf(c) = Replies(down[h], c) /\ RepliesOf(c)' = Replies(down'[h], c)
  BY <1>2 DEF RepliesOf, SessionOf
<1>4. CASE h = w /\ w \in alive
  <2>1. Replies(down'[w], c) = Replies(down[w], c) \union (IF m.t = "r" /\ m.c = c THEN {Len(down[w]) + 1} ELSE {})
    BY <1>1, <1>4, RepliesGrows
  <2> QED BY <1>2, <1>3, <1>4, <2>1 DEF AtMostOne
<1>5. CASE ~ (h = w /\ w \in alive)
  <2>1. RepliesOf(c)' = RepliesOf(c)
    BY <1>1, <1>2, <1>3, <1>5
  <2> QED BY <1>2, <1>5, <2>1 DEF AtMostOne
<1> QED BY <1>4, <1>5

LEMMA HandedOver ==
    ASSUME Wires, NEW w \in Workers, down[w] # <<>>, down' = [down EXCEPT ![w] = Tail(@)], NEW c \in Calls
    PROVE  /\ Less(RepliesOf(c), RepliesOf(c)')
           /\ ~ (Head(down[w]).t = "r" /\ Head(down[w]).c = c)
                  => (RepliesOf(c)' = {} => RepliesOf(c) = {})
<1>1. /\ Drops(down[w], down'[w]) /\ \A x \in Workers \ {w} : down'[x] = down[x]
      /\ Head(down[w]) = down[w][1]
  BY Delivered
<1>2. PICK h \in Workers : h = Host[SessionOf(c)]
  BY CallIsSome
<1>3. RepliesOf(c) = Replies(down[h], c) /\ RepliesOf(c)' = Replies(down'[h], c)
  BY <1>2 DEF RepliesOf, SessionOf
<1>4. CASE h = w
  <2>1. /\ Less(Replies(down[w], c), Replies(down'[w], c))
        /\ ~ (down[w][1].t = "r" /\ down[w][1].c = c)
               => (Replies(down'[w], c) = {} => Replies(down[w], c) = {})
    BY <1>1, RepliesDrops
  <2> QED BY <1>1, <1>3, <1>4, <2>1
<1>5. CASE h # w
  <2>1. RepliesOf(c)' = RepliesOf(c)
    BY <1>1, <1>2, <1>3, <1>5
  <2> QED BY <2>1, LessSame
<1> QED BY <1>4, <1>5

\* The places of a call do not change.
LEMMA SamePlaces ==
    ASSUME NEW c \in Calls
    PROVE  /\ UNCHANGED up => AsksOf(c)' = AsksOf(c)
           /\ UNCHANGED down => RepliesOf(c)' = RepliesOf(c)
           /\ UNCHANGED logins => Awaits(c)' = Awaits(c)
BY DEF AsksOf, RepliesOf, Awaits, SessionOf

LEMMA OnceStep ==
    ASSUME Shapes, Once, [Next]_vars, Parties', NEW c \in Calls
    PROVE  OnceOf(c)'
<1> Parties /\ Books /\ Wires /\ Clients
  BY DEF Shapes
<1>0. /\ OnceOf(c) /\ made \in Int /\ made' \in Int /\ SessionOf(c) \in Sessions
      /\ c # None /\ c[2] \in Int
  <2>1. OnceOf(c)
    BY DEF Once
  <2>2. made \in Int /\ made' \in Int
    BY DEF Parties
  <2>3. c[2] \in Int
    BY DEF Calls
  <2> QED BY <2>1, <2>2, <2>3, CallIsSome
<1>z. made <= made
  BY <1>0
<1>a. ASSUME UNCHANGED <<made, up, down, logins>>, alive' = alive, calls' \subseteq calls,
             c \in live' => c \in live, c \in housed' => c \in housed,
             entry'[SessionOf(c)] = c => entry[SessionOf(c)] = c
      PROVE  OnceOf(c)'
  <2>1. AsksOf(c)' = AsksOf(c) /\ RepliesOf(c)' = RepliesOf(c) /\ Awaits(c)' = Awaits(c)
    BY <1>a, SamePlaces
  <2>2. c \in calls' => c \in calls /\ Host[SessionOf(c)] \in alive'
    BY <1>0, <1>a DEF OnceOf
  <2> QED BY <1>0, <1>z, <1>a, <2>1, <2>2, OnceKept, LessSame
<1>b. ASSUME NEW w \in Workers, up[w] # <<>>, Taken(w), UNCHANGED <<made, down, logins, alive, calls>>,
             ~ (Head(up[w]).t \in {"login", "chunk"} /\ Head(up[w]).c = c),
             c \in live' => c \in live, c \in housed' => c \in housed,
             entry'[SessionOf(c)] = c => entry[SessionOf(c)] = c
      PROVE  OnceOf(c)'
  <2>1. RepliesOf(c)' = RepliesOf(c) /\ Awaits(c)' = Awaits(c)
    BY <1>b, SamePlaces
  <2>2. Less(AsksOf(c), AsksOf(c)') /\ (AsksOf(c)' = {} => AsksOf(c) = {})
    BY <1>b, Heard
  <2>3. c \in calls' => c \in calls /\ Host[SessionOf(c)] \in alive'
    BY <1>0, <1>b DEF OnceOf
  <2> QED BY <1>0, <1>z, <1>b, <2>1, <2>2, <2>3, OnceKept, LessSame
<1>c. ASSUME NEW S, CloseEntries(S)
      PROVE  /\ c \in live' => c \in live /\ (c \in housed' => c \in housed)
             /\ c \in housed' => c \in housed
             /\ entry'[SessionOf(c)] = c => entry[SessionOf(c)] = c
  <2>1. entry' = [s \in Sessions |-> IF s \in S THEN None ELSE entry[s]]
    BY <1>c DEF CloseEntries
  <2>2. entry'[SessionOf(c)] = c => entry[SessionOf(c)] = c
    BY <1>0, <2>1
  <2> QED BY <1>c, <2>2 DEF CloseEntries, Detach
<1>d. ASSUME NEW w \in Workers, NEW m, ToPrimary(w, <<m>>), ~ (m.t \in {"login", "chunk"} /\ m.c = c),
             UNCHANGED <<made, down, logins, alive, calls, live, housed, entry>>
      PROVE  OnceOf(c)'
  <2>1. AsksOf(c)' = AsksOf(c) /\ RepliesOf(c)' = RepliesOf(c) /\ Awaits(c)' = Awaits(c)
    BY <1>d, Asked, SamePlaces
  <2>2. c \in calls' => c \in calls /\ Host[SessionOf(c)] \in alive'
    BY <1>0, <1>d DEF OnceOf
  <2> QED BY <1>0, <1>z, <1>d, <2>1, <2>2, OnceKept, LessSame
<1>1. ASSUME NEW s \in Sessions, Connect(s) PROVE OnceOf(c)'
  BY <1>1, <1>a DEF Connect, worker, wire, backend
<1>2. ASSUME NEW s \in Sessions, AskLogin(s) \/ AskChunk(s) PROVE OnceOf(c)'
  <2>a. PICK d : d = <<s, made'>>
    OBVIOUS
  <2>1. PICK t \in {"login", "chunk"} :
            /\ d = <<s, made'>> /\ ToPrimary(Host[s], <<Call(t, d)>>) /\ s \in open
            /\ made' = made + 1 /\ calls' = calls \union {d}
            /\ UNCHANGED <<down, logins, alive, live, housed, entry>>
    BY <1>2, <2>a DEF AskLogin, AskChunk, Ask, backend
  <2>2. Host[s] \in Workers /\ Call(t, d).t = t /\ Call(t, d).c = d
    BY SessionsAssumption DEF Call
  <2>3. RepliesOf(c)' = RepliesOf(c) /\ Awaits(c)' = Awaits(c)
    BY <2>1, SamePlaces
  <2>4. CASE c # d
    <3>1. AsksOf(c)' = AsksOf(c)
      BY <2>1, <2>2, <2>4, Asked
    <3>2. c \in calls' => c \in calls /\ Host[SessionOf(c)] \in alive'
      BY <1>0, <2>1, <2>4 DEF OnceOf
    <3>3. made <= made'
      BY <1>0, <2>1
    <3> QED BY <1>0, <2>1, <2>3, <3>1, <3>2, <3>3, OnceKept, LessSame
  <2>5. CASE c = d
    <3>1. c[2] > made /\ ~ (c[2] > made') /\ SessionOf(c) = s
      BY <1>0, <2>1, <2>5 DEF SessionOf
    <3>2. AsksOf(c) = {} /\ Awaits(c) = {} /\ RepliesOf(c) = {} /\ c \notin live /\ entry[SessionOf(c)] # c
      BY <1>0, <3>1 DEF OnceOf
    <3>3. AtMostOne(AsksOf(c)') /\ AsksOf(c)' # {}
      BY <2>1, <2>2, <2>5, <3>1, <3>2, Asked
    <3>4. Host[SessionOf(c)] \in alive'
      BY <2>1, <3>1 DEF Parties
    <3>5. AtMostOne({})
      BY DEF AtMostOne
    <3>6. Awaits(c)' = {} /\ RepliesOf(c)' = {} /\ c \notin live' /\ entry'[SessionOf(c)] # c
      BY <2>1, <2>3, <3>2
    <3> QED BY <3>1, <3>3, <3>4, <3>5, <3>6 DEF OnceOf, SessionOf
  <2> QED BY <2>4, <2>5
<1>3. ASSUME NEW s \in Sessions, NEW g \in 1 .. MaxGrants, Submit(s, g) PROVE OnceOf(c)'
  <2>1. /\ UNCHANGED <<made, down, logins, alive, calls, live, housed, entry>>
        /\ ToPrimary(Host[s], <<Solution(s, g)>>) \/ UNCHANGED up
    BY <1>3 DEF Submit, edge, backend
  <2>2. Host[s] \in Workers /\ Solution(s, g).t = "sub"
    BY SessionsAssumption DEF Solution
  <2> QED BY <1>a, <1>d, <2>1, <2>2
<1>4. ASSUME NEW w \in Workers, Flush(w) PROVE OnceOf(c)'
  <2>1. /\ UNCHANGED <<made, down, logins, alive, calls, live, housed, entry>>
        /\ ToPrimary(w, <<Flushed(w)>>)
    BY <1>4 DEF Flush, edge, backend
  <2>2. Flushed(w).t = "acc"
    BY DEF Flushed, Tallies
  <2> QED BY <1>d, <2>1, <2>2
<1>5. ASSUME NEW s \in Sessions, Close(s) PROVE OnceOf(c)'
  <2>1. /\ UNCHANGED <<made, down, logins, alive, calls, live, housed, entry>>
        /\ ToPrimary(Host[s], <<Flushed(Host[s]), Bye(s)>>) \/ ToPrimary(Host[s], <<Bye(s)>>)
    BY <1>5 DEF Close, backend
  <2>2. PICK w \in Workers : w = Host[s]
    BY SessionsAssumption
  <2>3. Flushed(w).t = "acc" /\ Bye(s).t = "bye"
    BY DEF Flushed, Tallies, Bye
  <2>a. PICK m, n : m = Flushed(w) /\ n = Bye(s)
    OBVIOUS
  <2>b. m.t = "acc" /\ n.t = "bye"
    BY <2>3, <2>a
  <2>4. CASE ToPrimary(w, <<m, n>>)
    <3>1. /\ Grows(up[w], Append(up[w], m), m) /\ Grows(Append(up[w], m), up'[w], n)
          /\ \A x \in Workers \ {w} : up'[x] = up[x]
      BY <2>4, SentTwo
    <3>2. Asks(up'[w], c) = Asks(up[w], c)
      <4>0. PICK q : q = Append(up[w], m)
        OBVIOUS
      <4>1. Grows(up[w], q, m) /\ Grows(q, up'[w], n)
        BY <3>1, <4>0
      <4>2. Asks(q, c) = Asks(up[w], c) \union (IF m.t \in {"login", "chunk"} /\ m.c = c THEN {Len(up[w]) + 1} ELSE {})
        BY <4>1, AsksGrows
      <4>3. Asks(up'[w], c) = Asks(q, c) \union (IF n.t \in {"login", "chunk"} /\ n.c = c THEN {Len(q) + 1} ELSE {})
        BY <4>1, AsksGrows
      <4> QED BY <2>b, <4>2, <4>3
    <3>3. AsksOf(c)' = AsksOf(c)
      BY <1>0, <3>1, <3>2, CallIsSome DEF AsksOf, SessionOf
    <3>4. RepliesOf(c)' = RepliesOf(c) /\ Awaits(c)' = Awaits(c)
      BY <2>1, SamePlaces
    <3>5. c \in calls' => c \in calls /\ Host[SessionOf(c)] \in alive'
      BY <1>0, <2>1 DEF OnceOf
    <3> QED BY <1>0, <1>z, <2>1, <3>3, <3>4, <3>5, OnceKept, LessSame
  <2> QED BY <1>d, <2>1, <2>2, <2>a, <2>b, <2>4
<1>6. ASSUME NEW w \in Workers, Answered(w) PROVE OnceOf(c)'
  <2>1. PICK m : /\ m = Head(down[w]) /\ m.t = "r" /\ down[w] # <<>> /\ calls' = calls \ {m.c}
                 /\ down' = [down EXCEPT ![w] = Tail(@)]
                 /\ UNCHANGED <<made, up, logins, alive, live, housed, entry>>
    BY <1>6 DEF Answered, backend
  <2>2. Less(RepliesOf(c), RepliesOf(c)') /\ (m.c # c => (RepliesOf(c)' = {} => RepliesOf(c) = {}))
    BY <2>1, HandedOver
  <2>3. AsksOf(c)' = AsksOf(c) /\ Awaits(c)' = Awaits(c)
    BY <2>1, SamePlaces
  <2>4. c \in calls' => c \in calls /\ Host[SessionOf(c)] \in alive' /\ m.c # c
    BY <1>0, <2>1 DEF OnceOf
  <2> QED BY <1>0, <1>z, <2>1, <2>2, <2>3, <2>4, OnceKept, LessSame
<1>7. ASSUME NEW w \in Workers, Pushed(w) PROVE OnceOf(c)'
  <2>1. PICK m : /\ m = Head(down[w]) /\ m.t = "j" /\ down[w] # <<>> /\ calls' = calls
                 /\ down' = [down EXCEPT ![w] = Tail(@)]
                 /\ UNCHANGED <<made, up, logins, alive, live, housed, entry>>
    BY <1>7 DEF Pushed, edge, backend
  <2>2. Less(RepliesOf(c), RepliesOf(c)') /\ (RepliesOf(c)' = {} => RepliesOf(c) = {})
    BY <2>1, HandedOver
  <2>3. AsksOf(c)' = AsksOf(c) /\ Awaits(c)' = Awaits(c)
    BY <2>1, SamePlaces
  <2>4. c \in calls' => c \in calls /\ Host[SessionOf(c)] \in alive'
    BY <1>0, <2>1 DEF OnceOf
  <2> QED BY <1>0, <1>z, <2>1, <2>2, <2>3, <2>4, OnceKept, LessSame
<1>8. ASSUME NEW w \in Workers, Die(w) PROVE OnceOf(c)'
  <2>1. PICK n \in 0 .. Len(up[w]) : up' = [up EXCEPT ![w] = SubSeq(@, 1, n)]
    BY <1>8 DEF Die
  <2>2. /\ down' = [down EXCEPT ![w] = <<>>] /\ alive' = alive \ {w}
        /\ calls' = {x \in calls : Host[SessionOf(x)] # w}
        /\ UNCHANGED <<made, logins, live, housed, entry>>
    BY <1>8 DEF Die, backend
  <2>3. up[w] \in Seq(UpOf(w)) /\ up = [x \in Workers |-> up[x]] /\ down = [x \in Workers |-> down[x]]
    BY DEF Wires
  <2>4. up'[w] = SubSeq(up[w], 1, n) /\ \A x \in Workers \ {w} : up'[x] = up[x]
    BY <2>1, <2>3
  <2>5. down'[w] = <<>> /\ \A x \in Workers \ {w} : down'[x] = down[x]
    BY <2>2, <2>3
  <2>6. PICK h \in Workers : h = Host[SessionOf(c)]
    BY CallIsSome
  <2>7. /\ AsksOf(c) = Asks(up[h], c) /\ AsksOf(c)' = Asks(up'[h], c)
        /\ RepliesOf(c) = Replies(down[h], c) /\ RepliesOf(c)' = Replies(down'[h], c)
    BY <2>6 DEF AsksOf, RepliesOf, SessionOf
  <2>8. CASE h = w
    <3>1. \A i \in 1 .. Len(up'[w]) : i \in 1 .. Len(up[w]) /\ up'[w][i] = up[w][i]
      BY <2>3, <2>4
    <3>2. Asks(up'[w], c) \subseteq Asks(up[w], c)
      BY <3>1 DEF Asks
    <3>3. Replies(down'[w], c) = {}
      BY <2>5 DEF Replies
    <3>4. Less(AsksOf(c), AsksOf(c)') /\ Less(RepliesOf(c), RepliesOf(c)')
      BY <2>7, <2>8, <3>2, <3>3, LessPart
    <3>5. c \notin calls' /\ Awaits(c)' = Awaits(c)
      BY <2>2, <2>6, <2>8, SamePlaces
    <3> QED BY <1>0, <1>z, <2>2, <3>4, <3>5, OnceKept, LessSame
  <2>9. CASE h # w
    <3>1. AsksOf(c)' = AsksOf(c) /\ RepliesOf(c)' = RepliesOf(c) /\ Awaits(c)' = Awaits(c)
      BY <2>2, <2>4, <2>5, <2>6, <2>7, <2>9, SamePlaces
    <3>2. c \in calls' => c \in calls /\ Host[SessionOf(c)] \in alive'
      BY <1>0, <2>2, <2>6, <2>9 DEF OnceOf
    <3> QED BY <1>0, <1>z, <2>2, <3>1, <3>2, OnceKept, LessSame
  <2> QED BY <2>8, <2>9
<1>9. ASSUME NEW d \in Calls, Expire(d) PROVE OnceOf(c)'
  BY <1>9, <1>a DEF Expire, edge, wire, backend
<1>10. ASSUME NEW d \in Calls, Drop(d) PROVE OnceOf(c)'
  BY <1>10, <1>a DEF Drop, Detach, edge, wire, worker
<1>11. ASSUME NEW d \in Calls, NewJob(d) PROVE OnceOf(c)'
  <2>1. PICK m, w : /\ w = Host[SessionOf(d)] /\ m.t = "j" /\ ToWorker(w, m)
                    /\ UNCHANGED <<made, calls, alive, up, logins, live, housed, entry>>
    BY <1>11 DEF NewJob, Job, edge, worker
  <2>2. w \in Workers
    BY <2>1, CallIsSome
  <2>3. RepliesOf(c)' = RepliesOf(c) /\ AsksOf(c)' = AsksOf(c) /\ Awaits(c)' = Awaits(c)
    BY <2>1, <2>2, Replied, SamePlaces
  <2>4. c \in calls' => c \in calls /\ Host[SessionOf(c)] \in alive'
    BY <1>0, <2>1 DEF OnceOf
  <2> QED BY <1>0, <1>z, <2>1, <2>3, <2>4, OnceKept, LessSame
<1>12. ASSUME NEW w \in Workers, HandleLogin(w) PROVE OnceOf(c)'
  <2>1. PICK d : /\ d = Head(up[w]).c /\ up[w] # <<>> /\ Head(up[w]).t = "login" /\ Taken(w)
                 /\ CloseEntries({SessionOf(d)})
                 /\ logins' = logins \union {[who |-> d, at |-> "resolve"]}
                 /\ UNCHANGED <<made, calls, alive, down>>
    BY <1>12 DEF HandleLogin, Arrived, edge, worker
  <2>2. /\ c \in live' => c \in live
        /\ c \in housed' => c \in housed
        /\ entry'[SessionOf(c)] = c => entry[SessionOf(c)] = c
    BY <1>c, <2>1
  <2>3. RepliesOf(c)' = RepliesOf(c)
    BY <2>1, SamePlaces
  <2>4. CASE c # d
    <3>1. Awaits(c)' = Awaits(c)
      BY <2>1, <2>4 DEF Awaits
    <3>2. Less(AsksOf(c), AsksOf(c)') /\ (AsksOf(c)' = {} => AsksOf(c) = {})
      BY <2>1, <2>4, Heard
    <3>3. c \in calls' => c \in calls /\ Host[SessionOf(c)] \in alive'
      BY <1>0, <2>1 DEF OnceOf
    <3> QED BY <1>0, <1>z, <2>1, <2>2, <2>3, <3>1, <3>2, <3>3, OnceKept, LessSame
  <2>5. CASE c = d
    <3>1. AsksOf(c) # {} /\ AsksOf(c)' = {}
      BY <1>0, <2>1, <2>5, Heard DEF OnceOf
    <3>2. Awaits(c) = {} /\ RepliesOf(c) = {} /\ c \notin live /\ ~ (c[2] > made)
      BY <1>0, <3>1 DEF OnceOf
    <3>3. Awaits(c)' = {[who |-> c, at |-> "resolve"]}
      BY <2>1, <2>5, <3>2 DEF Awaits
    <3>4. AtMostOne(AsksOf(c)') /\ AtMostOne(Awaits(c)') /\ AtMostOne(RepliesOf(c)') /\ Awaits(c)' # {}
      BY <2>3, <3>1, <3>2, <3>3 DEF AtMostOne
    <3>5. c \notin housed' /\ ~ (c[2] > made') /\ RepliesOf(c)' = {}
      BY <2>1, <2>2, <2>3, <3>2 DEF Clients
    <3>6. c \in calls' => Host[SessionOf(c)] \in alive'
      BY <1>0, <2>1 DEF OnceOf
    <3> QED BY <3>1, <3>4, <3>5, <3>6 DEF OnceOf, SessionOf
  <2> QED BY <2>4, <2>5
<1>13. ASSUME NEW w \in Workers, HandleChunk(w) PROVE OnceOf(c)'
  <2>1. PICK d : /\ d = Head(up[w]).c /\ up[w] # <<>> /\ Head(up[w]).t = "chunk" /\ Taken(w)
                 /\ GrantChunk(d) \/ RefuseChunk(d)
                 /\ UNCHANGED <<made, calls, alive, logins, live, housed, entry>>
    BY <1>13 DEF HandleChunk, Arrived, edge, worker
  <2>2. d \in Calls /\ Host[SessionOf(d)] = w
    BY <2>1, TakenFrom, UpSays
  <2>3. PICK m : m.t = "r" /\ m.c = d /\ ToWorker(w, m)
    BY <2>1, <2>2 DEF GrantChunk, RefuseChunk, Answer
  <2>4. Awaits(c)' = Awaits(c)
    BY <2>1, SamePlaces
  <2>5. CASE c # d
    <3>1. RepliesOf(c)' = RepliesOf(c)
      BY <2>3, <2>5, Replied
    <3>2. Less(AsksOf(c), AsksOf(c)') /\ (AsksOf(c)' = {} => AsksOf(c) = {})
      BY <2>1, <2>5, Heard
    <3>3. c \in calls' => c \in calls /\ Host[SessionOf(c)] \in alive'
      BY <1>0, <2>1 DEF OnceOf
    <3> QED BY <1>0, <1>z, <2>1, <2>4, <3>1, <3>2, <3>3, OnceKept, LessSame
  <2>6. CASE c = d
    <3>1. AsksOf(c) # {} /\ AsksOf(c)' = {}
      BY <1>0, <2>1, <2>6, Heard DEF OnceOf
    <3>2. Awaits(c) = {} /\ RepliesOf(c) = {} /\ c \notin live /\ ~ (c[2] > made)
      BY <1>0, <3>1 DEF OnceOf
    <3>3. AtMostOne(RepliesOf(c)') /\ (w \in alive => RepliesOf(c)' # {})
      BY <2>2, <2>3, <2>6, <3>2, Replied
    <3>4. c \in calls' => Host[SessionOf(c)] \in alive' /\ w \in alive
      BY <1>0, <2>1, <2>2, <2>6 DEF OnceOf
    <3>5. ~ (c[2] > made') /\ Awaits(c)' = {} /\ AtMostOne({})
      BY <2>1, <2>4, <3>2 DEF AtMostOne
    <3> QED BY <3>1, <3>3, <3>4, <3>5 DEF OnceOf, SessionOf
  <2> QED BY <2>5, <2>6
<1>14. ASSUME NEW w \in Workers, HandleSub(w) \/ HandleAcc(w) PROVE OnceOf(c)'
  <2>1. /\ up[w] # <<>> /\ Taken(w) /\ Head(up[w]).t \in {"sub", "acc"}
        /\ UNCHANGED <<made, down, logins, alive, calls, live, housed, entry>>
    BY <1>14 DEF HandleSub, HandleAcc, Arrived, edge, worker, backend
  <2> QED BY <1>b, <2>1
<1>15. ASSUME NEW w \in Workers, HandleBye(w) PROVE OnceOf(c)'
  <2>1. /\ up[w] # <<>> /\ Taken(w) /\ Head(up[w]).t = "bye"
        /\ UNCHANGED <<made, down, logins, alive, calls>>
        /\ (\E S : CloseEntries(S)) \/ UNCHANGED <<live, housed, entry>>
    BY <1>15 DEF HandleBye, Arrived, edge, worker, backend
  <2>2. /\ c \in live' => c \in live
        /\ c \in housed' => c \in housed
        /\ entry'[SessionOf(c)] = c => entry[SessionOf(c)] = c
    BY <1>c, <2>1
  <2> QED BY <1>b, <2>1, <2>2
<1>16. ASSUME NEW w \in Workers, Evict(w) PROVE OnceOf(c)'
  <2>1. UNCHANGED <<made, up, down, logins, alive, calls>> /\ \E S : CloseEntries(S)
    BY <1>16 DEF Evict, edge, worker, wire
  <2>2. /\ c \in live' => c \in live
        /\ c \in housed' => c \in housed
        /\ entry'[SessionOf(c)] = c => entry[SessionOf(c)] = c
    BY <1>c, <2>1
  <2> QED BY <1>a, <2>1, <2>2
<1>e. ASSUME NEW l \in logins, NEW r, Settled(l, r), UNCHANGED <<made, up, alive, calls>>,
             c # l.who => /\ c \in live' => c \in live
                          /\ c \in housed' => c \in housed
                          /\ entry'[SessionOf(c)] = c => entry[SessionOf(c)] = c
      PROVE  OnceOf(c)'
  <2>1. PICK d \in Calls : d = l.who
    BY WhoIs DEF Clients
  <2>2. PICK w \in Workers : w = Host[SessionOf(d)]
    BY CallIsSome
  <2>3. PICK m : m.t = "r" /\ m.c = d /\ ToWorker(w, m)
    BY <1>e, <2>1, <2>2 DEF Settled, Answer
  <2>4. logins' = logins \ {l}
    BY <1>e DEF Settled
  <2>5. AsksOf(c)' = AsksOf(c)
    BY <1>e, SamePlaces
  <2>6. CASE c # d
    <3>1. RepliesOf(c)' = RepliesOf(c) /\ Awaits(c)' = Awaits(c)
      BY <2>1, <2>3, <2>4, <2>6, Replied DEF Awaits
    <3>2. c \in calls' => c \in calls /\ Host[SessionOf(c)] \in alive'
      BY <1>0, <1>e DEF OnceOf
    <3> QED BY <1>0, <1>z, <1>e, <2>1, <2>5, <2>6, <3>1, <3>2, OnceKept, LessSame
  <2>7. CASE c = d
    <3>1. l \in Awaits(c)
      BY <2>1, <2>7 DEF Awaits
    <3>2. AsksOf(c) = {} /\ RepliesOf(c) = {} /\ ~ (c[2] > made) /\ AtMostOne(Awaits(c))
      BY <1>0, <3>1 DEF OnceOf
    <3>3. Awaits(c)' = {}
      BY <2>4, <3>1, <3>2 DEF Awaits, AtMostOne
    <3>4. AtMostOne(RepliesOf(c)') /\ (w \in alive => RepliesOf(c)' # {})
      BY <2>2, <2>3, <2>7, <3>2, Replied
    <3>5. c \in calls' => Host[SessionOf(c)] \in alive' /\ w \in alive
      BY <1>0, <1>e, <2>2, <2>7 DEF OnceOf
    <3>6. ~ (c[2] > made') /\ AsksOf(c)' = {} /\ AtMostOne({})
      BY <1>e, <2>5, <3>2 DEF AtMostOne
    <3> QED BY <3>3, <3>4, <3>5, <3>6 DEF OnceOf, SessionOf
  <2> QED BY <2>6, <2>7
<1>17. ASSUME NEW l \in Logins, Refused(l) PROVE OnceOf(c)'
  BY <1>17, <1>e DEF Refused, edge, worker, backend
<1>18. ASSUME NEW l \in Logins, AttachFails(l) PROVE OnceOf(c)'
  <2>1. /\ l \in logins /\ Settled(l, Failed) /\ UNCHANGED <<made, up, alive, calls>> /\ Detach({l.who})
        /\ entry' = IF entry[SessionOf(l.who)] = l.who THEN [entry EXCEPT ![SessionOf(l.who)] = None] ELSE entry
    BY <1>18 DEF AttachFails, edge, worker
  <2>2. entry'[SessionOf(c)] = c => entry[SessionOf(c)] = c
    BY <1>0, <2>1 DEF Clients
  <2> QED BY <1>e, <2>1, <2>2 DEF Detach
<1>19. ASSUME NEW l \in Logins, Superseded(l) PROVE OnceOf(c)'
  BY <1>19, <1>e DEF Superseded, Detach, edge, worker
<1>20. ASSUME NEW l \in Logins, Attached(l) PROVE OnceOf(c)'
  <2>1. /\ l \in logins /\ housed' = housed \union {l.who} /\ (\E r : Settled(l, r))
        /\ UNCHANGED <<made, up, alive, calls, live, entry>>
    BY <1>20 DEF Attached, edge, worker
  <2> QED BY <1>e, <2>1
<1>21. ASSUME NEW l \in Logins, Resolved(l) PROVE OnceOf(c)'
  <2>1. PICK d \in Calls : d = l.who
    BY WhoIs
  <2>a. [l EXCEPT !.at = "attach"].who = l.who
    BY DEF Logins
  <2>2. PICK k : k = [l EXCEPT !.at = "attach"] /\ k.who = d
    BY <2>1, <2>a
  <2>3. /\ l \in logins /\ entry' = [entry EXCEPT ![SessionOf(d)] = d] /\ live' = live \union {d}
        /\ logins' = (logins \ {l}) \union {k} /\ UNCHANGED <<made, up, down, alive, calls, housed>>
    BY <1>21, <2>1, <2>2 DEF Resolved, edge, worker, wire
  <2>4. AsksOf(c)' = AsksOf(c) /\ RepliesOf(c)' = RepliesOf(c)
    BY <2>3, SamePlaces
  <2>5. CASE c # d
    <3>1. Awaits(c)' = Awaits(c)
      BY <2>1, <2>2, <2>3, <2>5 DEF Awaits
    <3>2. c \in calls' => c \in calls /\ Host[SessionOf(c)] \in alive'
      BY <1>0, <2>3 DEF OnceOf
    <3>3. entry'[SessionOf(c)] = c => entry[SessionOf(c)] = c
      BY <1>0, <2>3, <2>5 DEF Clients
    <3> QED BY <1>0, <1>z, <2>3, <2>4, <2>5, <3>1, <3>2, <3>3, OnceKept, LessSame
  <2>6. CASE c = d
    <3>1. l \in Awaits(c)
      BY <2>1, <2>3, <2>6 DEF Awaits
    <3>2. AsksOf(c) = {} /\ RepliesOf(c) = {} /\ ~ (c[2] > made) /\ AtMostOne(Awaits(c)) /\ c \notin housed
      BY <1>0, <3>1 DEF OnceOf
    <3>3. Awaits(c)' = {k}
      BY <2>2, <2>3, <2>6, <3>1, <3>2 DEF Awaits, AtMostOne
    <3>4. c \in calls' => Host[SessionOf(c)] \in alive'
      BY <1>0, <2>3 DEF OnceOf
    <3>5. AtMostOne({}) /\ AtMostOne({k}) /\ AsksOf(c)' = {} /\ RepliesOf(c)' = {} /\ ~ (c[2] > made') /\ c \notin housed'
      BY <2>3, <2>4, <3>2 DEF AtMostOne
    <3> QED BY <3>3, <3>4, <3>5 DEF OnceOf, SessionOf
  <2> QED BY <2>5, <2>6
<1>22. CASE Reset
  <2>1. UNCHANGED <<made, up, down, logins, alive, calls>> /\ \E S : CloseEntries(S)
    BY <1>22 DEF Reset, edge, worker, wire
  <2>2. /\ c \in live' => c \in live
        /\ c \in housed' => c \in housed
        /\ entry'[SessionOf(c)] = c => entry[SessionOf(c)] = c
    BY <1>c, <2>1
  <2> QED BY <1>a, <2>1, <2>2
<1>23. CASE UNCHANGED vars
  BY <1>23, <1>a DEF vars, edge, worker, wire, backend
<1> QED BY <1>1, <1>2, <1>3, <1>4, <1>5, <1>6, <1>7, <1>8, <1>9, <1>10, <1>11, <1>12, <1>13, <1>14,
           <1>15, <1>16, <1>17, <1>18, <1>19, <1>20, <1>21, <1>22, <1>23 DEF Next

-----------------------------------------------------------------------------
(* Ledgers of clients.                                                     *)

LEMMA LedgersStep ==
    ASSUME Shapes, LedgersHoused, [Next]_vars
    PROVE  LedgersHoused'
<1> Parties /\ Books /\ Wires /\ Clients
  BY DEF Shapes
<1>0. /\ \A s \in Sessions : jobs[s] \in Nat
      /\ \A c \in Calls : /\ SessionOf(c) \in Sessions /\ ledger[c] \in LedgerType /\ ledger[c].job \in Nat
                          /\ c \notin housed => ledger[c] = NoLedger
                          /\ ledger[c].job <= jobs[SessionOf(c)]
  BY CallIsSome, LedgerJob DEF Books, LedgersHoused
<1>a. ASSUME UNCHANGED <<ledger, jobs, housed>> PROVE LedgersHoused'
  BY <1>a DEF LedgersHoused, SessionOf
<1>b. ASSUME NEW cs, Detach(cs), UNCHANGED jobs PROVE LedgersHoused'
  <2>1. ASSUME NEW c \in Calls
        PROVE  (c \notin housed' => ledger'[c] = NoLedger) /\ ledger'[c].job <= jobs'[SessionOf(c)]
    <3>1. CASE c \in cs
      <4>1. ledger'[c] = NoLedger /\ NoLedger.job = 0
        BY <1>b, <3>1 DEF Detach, NoLedger
      <4> QED BY <1>0, <1>b, <4>1
    <3>2. CASE c \notin cs
      <4>1. ledger'[c] = ledger[c] /\ (c \notin housed' => c \notin housed)
        BY <1>b, <3>2 DEF Detach
      <4> QED BY <1>0, <1>b, <4>1
    <3> QED BY <3>1, <3>2
  <2> QED BY <2>1 DEF LedgersHoused, SessionOf
<1>c. ASSUME NEW S, CloseEntries(S), UNCHANGED jobs PROVE LedgersHoused'
  BY <1>b, <1>c DEF CloseEntries
<1>d. ASSUME NEW d \in Calls, NEW j \in Nat, Grant(d, j), j <= given + 1, d \in housed', housed \subseteq housed',
             j <= jobs'[SessionOf(d)], \A s \in Sessions : jobs[s] <= jobs'[s] /\ jobs'[s] \in Nat
      PROVE  LedgersHoused'
  <2>1. /\ j \in 0 .. MaxGrants /\ given' \in 1 .. MaxGrants /\ ledger'[d] = Record(ledger[d], j, given')
        /\ \A x \in Calls \ {d} : ledger'[x] = ledger[x]
    BY <1>d, GrantTyped
  <2>2. ledger'[d].job = j
    BY <1>0, <2>1, RecordIs
  <2>3. ASSUME NEW c \in Calls
        PROVE  (c \notin housed' => ledger'[c] = NoLedger) /\ ledger'[c].job <= jobs'[SessionOf(c)]
    <3>1. CASE c = d
      BY <1>d, <2>2, <3>1
    <3>2. CASE c # d
      <4>1. ledger'[c] = ledger[c] /\ jobs[SessionOf(c)] <= jobs'[SessionOf(c)] /\ jobs'[SessionOf(c)] \in Nat
        BY <1>0, <1>d, <2>1, <3>2
      <4> QED BY <1>0, <1>d, <4>1
    <3> QED BY <3>1, <3>2
  <2> QED BY <2>3 DEF LedgersHoused, SessionOf
<1>1. ASSUME NEW s \in Sessions, Connect(s) \/ AskLogin(s) \/ AskChunk(s) \/ Close(s) PROVE LedgersHoused'
  BY <1>1, <1>a DEF Connect, AskLogin, AskChunk, Ask, Close, backend, grants
<1>2. ASSUME NEW s \in Sessions, NEW g \in 1 .. MaxGrants, Submit(s, g) PROVE LedgersHoused'
  BY <1>2, <1>a DEF Submit, backend, grants
<1>3. ASSUME NEW w \in Workers, Flush(w) \/ Answered(w) \/ Pushed(w) \/ Die(w) PROVE LedgersHoused'
  BY <1>3, <1>a DEF Flush, Answered, Pushed, Die, backend, grants
<1>4. ASSUME NEW c \in Calls, Expire(c) PROVE LedgersHoused'
  BY <1>4, <1>a DEF Expire, backend, grants
<1>5. ASSUME NEW c \in Calls, Drop(c) PROVE LedgersHoused'
  BY <1>5, <1>b DEF Drop, grants
<1>6. ASSUME NEW c \in Calls, NewJob(c) PROVE LedgersHoused'
  <2>1. PICK s \in Sessions : s = SessionOf(c)
    BY CallIsSome
  <2>2. Grant(c, jobs[s] + 1) /\ jobs' = [jobs EXCEPT ![s] = jobs[s] + 1] /\ c \in housed /\ housed' = housed
    BY <1>6, <2>1 DEF NewJob
  <2>3. jobs[s] + 1 \in Nat /\ jobs[s] + 1 <= given + 1
    BY SessionsAssumption DEF Books
  <2>4. jobs'[s] = jobs[s] + 1 /\ \A x \in Sessions : jobs[x] <= jobs'[x] /\ jobs'[x] \in Nat
    BY <1>0, <2>2 DEF Books
  <2> QED BY <1>d, <2>1, <2>2, <2>3, <2>4
<1>7. ASSUME NEW w \in Workers, HandleLogin(w) PROVE LedgersHoused'
  BY <1>7, <1>c DEF HandleLogin, grants
<1>8. ASSUME NEW w \in Workers, HandleChunk(w) PROVE LedgersHoused'
  <2>1. PICK c : (GrantChunk(c) \/ UNCHANGED <<ledger, given>>) /\ UNCHANGED <<jobs, housed>>
    BY <1>8 DEF HandleChunk, RefuseChunk
  <2>2. CASE GrantChunk(c)
    <3>1. PICK e \in Calls : e \in housed /\ Grant(e, ledger[e].job)
      BY <2>2 DEF GrantChunk, Clients
    <3>2. ledger[e].job \in Nat /\ ledger[e].job <= jobs[SessionOf(e)] /\ SessionOf(e) \in Sessions
      BY <1>0
    <3>3. ledger[e].job <= given + 1
      BY <1>0, <3>2, SessionsAssumption DEF Books
    <3>4. \A s \in Sessions : jobs[s] <= jobs'[s] /\ jobs'[s] \in Nat
      BY <1>0, <2>1
    <3>5. e \in housed' /\ housed \subseteq housed' /\ ledger[e].job <= jobs'[SessionOf(e)]
      BY <2>1, <3>1, <3>2
    <3> QED BY <1>d, <3>1, <3>2, <3>3, <3>4, <3>5
  <2> QED BY <1>a, <2>1, <2>2
<1>9. ASSUME NEW w \in Workers, HandleSub(w) \/ HandleAcc(w) PROVE LedgersHoused'
  BY <1>9, <1>a DEF HandleSub, HandleAcc, backend, grants
<1>10. ASSUME NEW w \in Workers, HandleBye(w) \/ Evict(w) PROVE LedgersHoused'
  <2>1. UNCHANGED jobs /\ ((\E S : CloseEntries(S)) \/ UNCHANGED <<ledger, housed>>)
    BY <1>10 DEF HandleBye, Evict, backend, grants
  <2> QED BY <1>a, <1>c, <2>1
<1>11. ASSUME NEW l \in Logins, Refused(l) \/ Resolved(l) PROVE LedgersHoused'
  BY <1>11, <1>a DEF Refused, Resolved, backend, grants
<1>12. ASSUME NEW l \in Logins, AttachFails(l) \/ Superseded(l) PROVE LedgersHoused'
  BY <1>12, <1>b DEF AttachFails, Superseded, grants
<1>13. ASSUME NEW l \in Logins, Attached(l) PROVE LedgersHoused'
  <2>1. PICK c \in Calls : c = l.who
    BY WhoIs
  <2>2. PICK s \in Sessions : s = SessionOf(c)
    BY CallIsSome
  <2>3. PICK j \in {jobs[s], jobs[s] + 1} :
            Grant(c, j) /\ jobs' = [jobs EXCEPT ![s] = j] /\ housed' = housed \union {c}
    BY <1>13, <2>1, <2>2 DEF Attached
  <2>4. j \in Nat /\ j <= given + 1 /\ jobs[s] <= j
    BY <1>0, SessionsAssumption DEF Books
  <2>5. jobs'[s] = j /\ \A x \in Sessions : jobs[x] <= jobs'[x] /\ jobs'[x] \in Nat
    BY <1>0, <2>3, <2>4 DEF Books
  <2> QED BY <1>d, <2>2, <2>3, <2>4, <2>5
<1>14. CASE Reset
  BY <1>14, <1>c DEF Reset, grants
<1>15. CASE UNCHANGED vars
  BY <1>15, <1>a DEF vars, backend, grants
<1> QED BY <1>1, <1>2, <1>3, <1>4, <1>5, <1>6, <1>7, <1>8, <1>9, <1>10, <1>11, <1>12, <1>13, <1>14, <1>15 DEF Next

-----------------------------------------------------------------------------
(* A session whose story goes on as it was.                                *)

QuietDoor(s)  == (s \in open' <=> s \in open) /\ (s \in gone' <=> s \in gone)
QuietParty(s) == /\ s \in logged' <=> s \in logged
                 /\ known'[s] = known[s] /\ tally'[s] = tally[s] /\ owed'[s] = owed[s]
QuietHub(s) ==
    /\ s \in hub' <=> s \in hub
    /\ s \in cut' <=> s \in cut
    /\ entry'[s] = entry[s]
    /\ \A c \in housed' : SessionOf(c) = s => c \in housed
    /\ \A l \in logins' : SessionOf(l.who) = s => \E k \in logins : k.who = l.who
QuietLedger(s) == entry[s] \in housed' => ledger'[entry[s]] = ledger[entry[s]]
QuietWire(s) ==
    /\ UpKept(up[Host[s]], up'[Host[s]], s)
    /\ DownKept(down[Host[s]], down'[Host[s]], s)

Quiet(s) == QuietDoor(s) /\ QuietParty(s) /\ QuietHub(s) /\ QuietLedger(s) /\ QuietWire(s)

LEMMA BlankKept ==
    ASSUME NEW s \in Sessions, QuietParty(s), QuietWire(s), Blank(s)
    PROVE  Blank(s)'
<1>1. BlankUp(up'[Host[s]], s) /\ BlankDown(down'[Host[s]], s)
  BY DEF QuietWire, UpKept, DownKept, Blank
<1>2. s \notin logged' /\ known'[s] = NoLedger /\ tally'[s] = 0 /\ owed'[s] = 0
  BY DEF QuietParty, Blank
<1> QED BY <1>1, <1>2 DEF Blank

\* Nobody awaits anew for s or its entry.
LEMMA AwaitsKept ==
    ASSUME Clients, NEW s \in Sessions, QuietHub(s), entry[s] # None, NEW l \in logins', l.who = entry[s]
    PROVE  \E k \in logins : k.who = entry[s]
<1>1. SessionOf(entry[s]) = s
  BY DEF Clients
<1>2. PICK k \in logins : k.who = l.who
  BY <1>1 DEF QuietHub
<1> QED BY <1>2

LEMMA FreshKept ==
    ASSUME NEW s \in Sessions, QuietHub(s), Fresh(s), Blank(s)'
    PROVE  Fresh(s)'
<1>1. \A l \in logins' : SessionOf(l.who) # s
  <2> SUFFICES ASSUME NEW l \in logins', SessionOf(l.who) = s PROVE FALSE
    OBVIOUS
  <2>1. PICK k \in logins : k.who = l.who
    BY DEF QuietHub
  <2> QED BY <2>1 DEF Fresh
<1>2. entry'[s] = None /\ \A c \in housed' : SessionOf(c) # s
  BY DEF QuietHub, Fresh
<1> QED BY <1>1, <1>2 DEF Fresh, SessionOf

LEMMA TalkedKept ==
    ASSUME NEW s \in Sessions, UpKept(up[Host[s]], up'[Host[s]], s), Talked(s),
           s \in gone => s \in gone', s \in logged => s \in logged', s \in hub' => s \in hub,
           s \in open \union gone => s \in open' \union gone'
    PROVE  Talked(s)'
<1>1. PICK q, r : q = up[Host[s]] /\ r = up'[Host[s]]
  OBVIOUS
<1>2. /\ ByeLast(q, s) => ByeLast(r, s)
      /\ ByeSent(r, s) => ByeSent(q, s)
      /\ Talks(r, s) => Talks(q, s)
      /\ Chunks(r, s) => Chunks(q, s)
  BY <1>1 DEF UpKept
<1>3. /\ ByeLast(q, s)
      /\ ByeSent(q, s) => s \in gone
      /\ Chunks(q, s) => s \in logged
      /\ Talks(q, s) \/ s \in hub => s \in open \union gone
  BY <1>1 DEF Talked
<1>4. /\ ByeLast(r, s)
      /\ ByeSent(r, s) => s \in gone'
      /\ Chunks(r, s) => s \in logged'
      /\ Talks(r, s) \/ s \in hub' => s \in open' \union gone'
  BY <1>2, <1>3
<1> QED BY <1>1, <1>4 DEF Talked

LEMMA ServingKept ==
    ASSUME Shapes, Clients', NEW s \in Sessions, Serving(s), QuietHub(s), QuietLedger(s),
           \A L : SubsOK(up[Host[s]], s, L) => SubsOK(up'[Host[s]], s, L),
           s \in open' => /\ s \in open /\ known'[s] = known[s] /\ (s \in logged' <=> s \in logged)
                          /\ DownKept(down[Host[s]], down'[Host[s]], s)
    PROVE  Serving(s)'
<1> Clients /\ Books
  BY DEF Shapes
<1>0. PICK q, r : q = up[Host[s]] /\ r = up'[Host[s]]
  OBVIOUS
<1> SUFFICES ASSUME s \in hub' \ cut', entry'[s] \in housed'
             PROVE  /\ SubsOK(r, s, ledger'[entry'[s]])
                    /\ s \in open' => DownOK(down'[Host[s]], s, entry'[s], ledger'[entry'[s]], known'[s], logged')
  BY <1>0 DEF Serving
<1>1. PICK e \in Calls : e = entry[s] /\ e = entry'[s] /\ e \in housed' /\ SessionOf(e) = s
  BY DEF QuietHub, Clients, Calls, None
<1>2. e \in housed
  BY <1>1 DEF QuietHub
<1>3. PICK L \in LedgerType : L = ledger[e] /\ L = ledger'[e]
  BY <1>1 DEF QuietLedger, Books
<1>4. PICK kn \in LedgerType : kn = known[s]
  BY DEF Books
<1>5. SubsOK(q, s, L) /\ (s \in open => DownOK(down[Host[s]], s, e, L, kn, logged))
  BY <1>0, <1>1, <1>2, <1>3, <1>4 DEF Serving, QuietHub
<1>6. SubsOK(r, s, L)
  BY <1>0, <1>5
<1>7. s \in open' => DownOK(down'[Host[s]], s, e, L, kn, logged)
  BY <1>5 DEF DownKept
<1>8. s \in open' => DownOK(down'[Host[s]], s, e, L, kn, logged')
  BY <1>7, DownIn
<1> QED BY <1>1, <1>3, <1>4, <1>6, <1>8

\* The hub has nothing new for s.
LEMMA GoesOn ==
    ASSUME Clients, NEW s \in Sessions, Story(s), QuietHub(s), Talked(s)', Blank(s) => Blank(s)',
           s \notin hub /\ (s \notin gone' \/ Talks(up'[Host[s]], s)) => s \notin gone \/ Talks(up[Host[s]], s),
           Serving(s)', Accounted(s)'
    PROVE  Story(s)'
<1>0. PICK q, r : q = up[Host[s]] /\ r = up'[Host[s]]
  OBVIOUS
<1>1. NewHere(s)'
  <2>1. ASSUME s \notin hub', s \notin gone' \/ Talks(r, s) PROVE Fresh(s)'
    <3>1. s \notin hub /\ (s \notin gone \/ Talks(q, s))
      BY <1>0, <2>1 DEF QuietHub
    <3>2. Fresh(s) /\ Blank(s)
      BY <1>0, <3>1 DEF Story, NewHere, Fresh
    <3>3. Blank(s)'
      BY <3>2
    <3> QED BY <3>2, <3>3, FreshKept
  <2> QED BY <1>0, <2>1 DEF NewHere
<1>2. LoggingIn(s)'
  <2>1. ASSUME s \in hub' \ cut', entry'[s] = None \/ \E l \in logins' : l.who = entry'[s] PROVE Blank(s)'
    <3>1. s \in hub \ cut /\ entry'[s] = entry[s]
      BY <2>1 DEF QuietHub
    <3>2. entry[s] = None \/ \E l \in logins : l.who = entry[s]
      BY <2>1, <3>1, AwaitsKept
    <3>3. Blank(s)
      BY <3>1, <3>2 DEF Story, LoggingIn
    <3> QED BY <3>3
  <2> QED BY <2>1 DEF LoggingIn
<1>3. OneClient(s)'
  BY DEF Story, OneClient, QuietHub, SessionOf
<1> QED BY <1>1, <1>2, <1>3 DEF Story

LEMMA StoryKept ==
    ASSUME Shapes, Clients', NEW s \in Sessions, Story(s), Quiet(s)
    PROVE  Story(s)'
<1> Clients
  BY DEF Shapes
<1> QuietDoor(s) /\ QuietParty(s) /\ QuietHub(s) /\ QuietLedger(s) /\ QuietWire(s)
  BY DEF Quiet
<1>1. Talked(s)'
  <2>1. UpKept(up[Host[s]], up'[Host[s]], s) /\ Talked(s)
    BY DEF Story, QuietWire
  <2>2. /\ s \in gone => s \in gone'
        /\ s \in logged => s \in logged'
        /\ s \in hub' => s \in hub
        /\ s \in open \union gone => s \in open' \union gone'
    BY DEF QuietDoor, QuietParty, QuietHub
  <2> QED BY <2>1, <2>2, TalkedKept
<1>2. Blank(s) => Blank(s)'
  BY BlankKept
<1>3. s \notin gone' \/ Talks(up'[Host[s]], s) => s \notin gone \/ Talks(up[Host[s]], s)
  BY DEF QuietDoor, QuietWire, UpKept
<1>4. Serving(s)'
  <2>1. /\ \A L : SubsOK(up[Host[s]], s, L) => SubsOK(up'[Host[s]], s, L)
        /\ s \in open' => /\ s \in open /\ known'[s] = known[s] /\ (s \in logged' <=> s \in logged)
                          /\ DownKept(down[Host[s]], down'[Host[s]], s)
    BY DEF QuietDoor, QuietParty, QuietWire, UpKept
  <2>2. Serving(s)
    BY DEF Story
  <2> QED BY <2>1, <2>2, ServingKept
<1>5. Accounted(s)'
  <2>1. InFlight(s)' = InFlight(s)
    BY DEF InFlight, UpKept, QuietWire
  <2> QED BY <2>1 DEF Story, Accounted, QuietDoor, QuietParty, QuietHub
<1> QED BY <1>1, <1>2, <1>3, <1>4, <1>5, GoesOn

LEMMA StoryCut ==
    ASSUME NEW s \in Sessions, s \in cut', Talked(s)', NewHere(s)'
    PROVE  Story(s)'
BY DEF Story, LoggingIn, OneClient, Serving, Accounted

LEMMA UpSent ==
    ASSUME Wires, NEW w \in Workers, NEW m, ToPrimary(w, <<m>>), NEW s \in Sessions,
           Host[s] = w => ~ Speaks(m, s) /\ ~ ByeOf(m, s)
    PROVE  UpKept(up[Host[s]], up'[Host[s]], s)
<1>1. Grows(up[w], up'[w], m) /\ \A x \in Workers \ {w} : up'[x] = up[x]
  BY Sent
<1>2. CASE Host[s] = w
  BY <1>1, <1>2, UpGrows
<1>3. CASE Host[s] # w
  BY <1>1, <1>3, UpStays, SessionsAssumption
<1> QED BY <1>2, <1>3

LEMMA UpTaken ==
    ASSUME Wires, NEW w \in Workers, up[w] # <<>>, Taken(w), NEW s \in Sessions, ~ AccOf(Head(up[w]), s)
    PROVE  UpKept(up[Host[s]], up'[Host[s]], s)
<1>1. Drops(up[w], up'[w]) /\ Head(up[w]) = up[w][1] /\ \A x \in Workers \ {w} : up'[x] = up[x]
  BY TakenFrom
<1>2. CASE Host[s] = w
  BY <1>1, <1>2, UpDrops
<1>3. CASE Host[s] # w
  BY <1>1, <1>3, UpStays, SessionsAssumption
<1> QED BY <1>2, <1>3

LEMMA DownTyped ==
    ASSUME Wires, NEW w \in Workers, NEW s
    PROVE  \A i \in 1 .. Len(down[w]) : JobIn(down[w][i]) \in Nat
<1>1. down[w] \in Seq(DownOf(w))
  BY DEF Wires
<1>2. ASSUME NEW i \in 1 .. Len(down[w]) PROVE JobIn(down[w][i]) \in Nat
  <2>1. down[w][i] \in DownOf(w)
    BY <1>1
  <2> QED BY <2>1, DownSays, SessionsAssumption
<1> QED BY <1>2

LEMMA DownTold ==
    ASSUME Wires, NEW w \in Workers, NEW m \in DownOf(w), ToWorker(w, m), NEW s \in Sessions,
           Host[s] = w => Dull(m, s)
    PROVE  DownKept(down[Host[s]], down'[Host[s]], s)
<1>1. /\ w \in alive => Grows(down[w], down'[w], m)
      /\ w \notin alive => down'[w] = down[w]
      /\ \A x \in Workers \ {w} : down'[x] = down[x]
  BY Told
<1>2. CASE Host[s] = w /\ w \in alive
  <2>1. JobIn(m) \in Nat /\ \A i \in 1 .. Len(down[w]) : For(down[w][i], s) => JobIn(down[w][i]) \in Nat
    BY DownTyped, DownSays, SessionsAssumption
  <2> QED BY <1>1, <1>2, <2>1, DullGrows
<1>3. CASE ~ (Host[s] = w /\ w \in alive)
  BY <1>1, <1>3, DownStays, SessionsAssumption
<1> QED BY <1>2, <1>3

LEMMA DownHanded ==
    ASSUME Wires, NEW w \in Workers, down[w] # <<>>, down' = [down EXCEPT ![w] = Tail(@)],
           NEW s \in Sessions, ~ For(Head(down[w]), s)
    PROVE  DownKept(down[Host[s]], down'[Host[s]], s)
<1>1. Drops(down[w], down'[w]) /\ Head(down[w]) = down[w][1] /\ \A x \in Workers \ {w} : down'[x] = down[x]
  BY Delivered
<1>2. CASE Host[s] = w
  BY <1>1, <1>2, OtherDrops
<1>3. CASE Host[s] # w
  BY <1>1, <1>3, DownStays, SessionsAssumption
<1> QED BY <1>2, <1>3

LEMMA WireStays ==
    ASSUME NEW s
    PROVE  /\ UNCHANGED up => UpKept(up[Host[s]], up'[Host[s]], s)
           /\ UNCHANGED down => DownKept(down[Host[s]], down'[Host[s]], s)
BY UpStays, DownStays

LEMMA DetachQuiet ==
    ASSUME Clients, NEW cs, Detach(cs), NEW s \in Sessions
    PROVE  housed' \subseteq housed /\ QuietLedger(s)
<1>1. housed' = housed \ cs /\ ledger' = [c \in Calls |-> IF c \in cs THEN NoLedger ELSE ledger[c]]
  BY DEF Detach
<1> QED BY <1>1 DEF QuietLedger, Clients

LEMMA CloseQuiet ==
    ASSUME Clients, NEW S, CloseEntries(S), NEW s \in Sessions
    PROVE  /\ housed' \subseteq housed /\ QuietLedger(s)
           /\ entry'[s] = IF s \in S THEN None ELSE entry[s]
BY DetachQuiet DEF CloseEntries

-----------------------------------------------------------------------------
(* The story of a session through the steps of a worker.                   *)

Sound == Shapes /\ Owes /\ Once /\ LedgersHoused

\* What a message more means to its session.
LEMMA Said ==
    ASSUME Wires, NEW s \in Sessions, NEW m \in UpOf(Host[s]), ToPrimary(Host[s], <<m>>)
    PROVE  /\ ByeLast(up[Host[s]], s) /\ (ByeSent(up[Host[s]], s) => ~ Speaks(m, s) /\ ~ ByeOf(m, s))
                  => ByeLast(up'[Host[s]], s)
           /\ ByeSent(up'[Host[s]], s) => ByeSent(up[Host[s]], s) \/ ByeOf(m, s)
           /\ Talks(up'[Host[s]], s) => Talks(up[Host[s]], s) \/ Speaks(m, s)
           /\ Chunks(up'[Host[s]], s) => Chunks(up[Host[s]], s) \/ ChunkOf(m, s)
           /\ BlankUp(up[Host[s]], s) /\ ~ SubOf(m, s) /\ ~ AccOf(m, s) /\ ~ ChunkOf(m, s) => BlankUp(up'[Host[s]], s)
           /\ \A L : SubsOK(up[Host[s]], s, L) /\ (SubOf(m, s) => Stays(L, m.job, m.g)) => SubsOK(up'[Host[s]], s, L)
           /\ InFlight(s)' = InFlight(s) + Shares(m, s)
<1>1. Host[s] \in Workers
  BY SessionsAssumption
<1>2. Grows(up[Host[s]], up'[Host[s]], m)
  BY <1>1, Sent
<1>3. InFlight(s)' = InFlight(s) + (IF Host[s] = Host[s] THEN Shares(m, s) ELSE 0)
  BY <1>1, FlightGrows
<1> QED BY <1>2, <1>3, TalksGrows

LEMMA StoryConnect ==
    ASSUME Sound, Shapes', NEW s \in Sessions, Story(s), NEW x \in Sessions, Connect(x)
    PROVE  Story(s)'
<1> Parties /\ Clients /\ Clients'
  BY DEF Sound, Shapes
<1>1. /\ open' = open \union {x} /\ x \notin open \union gone
      /\ UNCHANGED <<gone, logged, worker, up, down, hub, backend, logins, history>>
  BY DEF Connect, wire
<1>2. QuietParty(s) /\ QuietHub(s) /\ QuietLedger(s) /\ QuietWire(s)
  <2>1. QuietWire(s)
    BY <1>1, WireStays DEF QuietWire
  <2> QED BY <1>1, <2>1 DEF QuietParty, QuietHub, QuietLedger, worker, backend, history
<1>3. CASE s # x
  BY <1>1, <1>2, <1>3, StoryKept DEF Quiet, QuietDoor, Sound
<1>4. CASE s = x
  <2>1. s \notin hub
    BY <1>1, <1>4 DEF Story, Talked
  <2>2. Talked(s)'
    BY <1>1, <1>2, TalkedKept DEF Story, QuietWire
  <2>3. Blank(s) => Blank(s)'
    BY <1>2, BlankKept
  <2>4. Serving(s)'
    BY <1>1, <2>1 DEF Serving
  <2>5. Accounted(s)'
    <3>1. InFlight(s)' = InFlight(s)
      BY <1>1 DEF InFlight
    <3> QED BY <1>1, <3>1 DEF Story, Accounted, worker, history
  <2>6. s \notin gone
    BY <1>1, <1>4
  <2> QED BY <1>2, <2>2, <2>3, <2>4, <2>5, <2>6, GoesOn
<1> QED BY <1>3, <1>4

LEMMA StoryAsk ==
    ASSUME Sound, Shapes', NEW s \in Sessions, Story(s), NEW x \in Sessions, AskLogin(x) \/ AskChunk(x)
    PROVE  Story(s)'
<1> Parties /\ Clients /\ Clients' /\ Wires
  BY DEF Sound, Shapes
<1>1. PICK t \in {"login", "chunk"} :
          /\ ToPrimary(Host[x], <<Call(t, <<x, made'>>)>>) /\ x \in open /\ made < MaxCalls /\ made' = made + 1
          /\ t = "chunk" => x \in logged
          /\ UNCHANGED <<open, gone, logged, known, tally, owed, cut, down, hub, entry, live, housed, ledger, logins>>
  BY DEF AskLogin, AskChunk, Ask, backend, history
<1>2. PICK m : m = Call(t, <<x, made'>>)
  OBVIOUS
<1>3. m \in UpOf(Host[x]) /\ m.t = t /\ SessionOf(m.c) = x /\ Host[x] \in Workers
  <2>1. made' \in 1 .. MaxCalls /\ Host[x] \in Workers
    BY <1>1, SessionsAssumption DEF Parties
  <2>2. m \in UpOf(Host[x])
    BY <1>2, <2>1, CallTyped
  <2> QED BY <1>2, <2>1, <2>2 DEF Call, SessionOf
<1>4. QuietDoor(s) /\ QuietParty(s) /\ QuietHub(s) /\ QuietLedger(s)
  BY <1>1 DEF QuietDoor, QuietParty, QuietHub, QuietLedger
<1>5. DownKept(down[Host[s]], down'[Host[s]], s)
  BY <1>1, WireStays
<1>6. CASE s # x
  <2>1. ~ Speaks(m, s) /\ ~ ByeOf(m, s)
    BY <1>3, <1>6 DEF Speaks, CallOf, SubOf, AccOf, ByeOf
  <2>2. UpKept(up[Host[s]], up'[Host[s]], s)
    BY <1>1, <1>2, <1>3, <2>1, UpSent
  <2> QED BY <1>4, <1>5, <2>2, StoryKept DEF Quiet, QuietWire, Sound
<1>7. CASE s = x
  <2>1. ~ SubOf(m, s) /\ ~ AccOf(m, s) /\ ~ ByeOf(m, s) /\ (ChunkOf(m, s) => s \in logged) /\ Shares(m, s) = 0
    BY <1>1, <1>3, <1>7 DEF SubOf, AccOf, ByeOf, ChunkOf, Shares
  <2>2. s \in open /\ s \notin gone
    BY <1>1, <1>7 DEF Parties
  <2>3. PICK q, r : q = up[Host[s]] /\ r = up'[Host[s]]
    OBVIOUS
  <2>4. /\ ByeLast(q, s) /\ (ByeSent(q, s) => ~ Speaks(m, s) /\ ~ ByeOf(m, s)) => ByeLast(r, s)
        /\ ByeSent(r, s) => ByeSent(q, s) \/ ByeOf(m, s)
        /\ Talks(r, s) => Talks(q, s) \/ Speaks(m, s)
        /\ Chunks(r, s) => Chunks(q, s) \/ ChunkOf(m, s)
        /\ BlankUp(q, s) /\ ~ SubOf(m, s) /\ ~ AccOf(m, s) /\ ~ ChunkOf(m, s) => BlankUp(r, s)
        /\ \A L : SubsOK(q, s, L) /\ (SubOf(m, s) => Stays(L, m.job, m.g)) => SubsOK(r, s, L)
        /\ InFlight(s)' = InFlight(s) + Shares(m, s)
    BY <1>1, <1>2, <1>3, <1>7, <2>3, Said
  <2>5. ByeLast(q, s) /\ ~ ByeSent(q, s) /\ (Chunks(q, s) => s \in logged)
    BY <2>2, <2>3 DEF Story, Talked
  <2>6. Talked(s)'
    <3>1. ByeLast(r, s) /\ ~ ByeSent(r, s) /\ (Chunks(r, s) => s \in logged') /\ s \in open'
      BY <1>1, <2>1, <2>2, <2>4, <2>5
    <3> QED BY <2>3, <3>1 DEF Talked
  <2>7. Blank(s) => Blank(s)'
    <3>1. ASSUME Blank(s) PROVE Blank(s)'
      <4>1. BlankUp(q, s) /\ s \notin logged
        BY <2>3, <3>1 DEF Blank
      <4>2. BlankUp(r, s)
        BY <2>1, <2>4, <4>1
      <4> QED BY <1>1, <2>3, <3>1, <4>2 DEF Blank
    <3> QED BY <3>1
  <2>8. Serving(s)'
    <3>1. \A L : SubsOK(up[Host[s]], s, L) => SubsOK(up'[Host[s]], s, L)
      BY <2>1, <2>3, <2>4
    <3>2. s \in open' => /\ s \in open /\ known'[s] = known[s] /\ (s \in logged' <=> s \in logged)
                         /\ DownKept(down[Host[s]], down'[Host[s]], s)
      BY <1>1, <1>5
    <3>3. Shapes /\ Serving(s)
      BY DEF Story, Sound
    <3> QED BY <1>4, <3>1, <3>2, <3>3, ServingKept
  <2>9. Accounted(s)'
    <3>1. InFlight(s)' = InFlight(s)
      BY <2>1, <2>4, InFlightNat
    <3> QED BY <1>1, <3>1 DEF Story, Accounted
  <2> QED BY <1>4, <2>2, <2>6, <2>7, <2>8, <2>9, GoesOn
<1> QED BY <1>6, <1>7

LEMMA StorySubmit ==
    ASSUME Sound, Shapes', NEW s \in Sessions, Story(s),
           NEW x \in Sessions, NEW g \in 1 .. MaxGrants, Submit(x, g)
    PROVE  Story(s)'
<1> Parties /\ Clients /\ Clients' /\ Wires /\ Books /\ Counts
  BY DEF Sound, Shapes
<1>1. /\ x \in open /\ x \in logged /\ g \in known[x].last
      /\ UNCHANGED <<open, gone, logged, known, down, hub, entry, housed, ledger, logins, cut>>
  BY DEF Submit, edge, backend
<1>2. \/ tally' = [tally EXCEPT ![x] = @ + 1] /\ owed' = [owed EXCEPT ![x] = @ + 1] /\ UNCHANGED up
      \/ ToPrimary(Host[x], <<Solution(x, g)>>) /\ UNCHANGED <<tally, owed>>
  BY DEF Submit
<1>3. PICK m : m = Solution(x, g)
  OBVIOUS
<1>4. m \in UpOf(Host[x]) /\ m.t = "sub" /\ m.s = x /\ m.job = known[x].job /\ m.g = g /\ Host[x] \in Workers
  BY <1>3, SolutionTyped, SessionsAssumption DEF Solution
<1>5. QuietDoor(s) /\ QuietHub(s) /\ QuietLedger(s) /\ DownKept(down[Host[s]], down'[Host[s]], s)
  BY <1>1, WireStays DEF QuietDoor, QuietHub, QuietLedger
<1>6. CASE s # x
  <2>1. QuietParty(s)
    BY <1>1, <1>2, <1>6 DEF QuietParty, Counts
  <2>2. ~ Speaks(m, s) /\ ~ ByeOf(m, s)
    BY <1>4, <1>6 DEF Speaks, CallOf, SubOf, AccOf, ByeOf
  <2>3. UpKept(up[Host[s]], up'[Host[s]], s)
    BY <1>2, <1>3, <1>4, <2>2, UpSent, WireStays
  <2> QED BY <1>5, <2>1, <2>3, StoryKept DEF Quiet, QuietWire, Sound
<1>7. CASE s = x
  <2>0. PICK q, r : q = up[Host[s]] /\ r = up'[Host[s]]
    OBVIOUS
  <2>1. s \in open /\ s \notin gone /\ s \in logged /\ ~ Blank(s)
    BY <1>1, <1>7 DEF Parties, Blank
  <2>2. s \in hub
    BY <2>1 DEF Story, NewHere, Fresh
  <2>3. ~ ByeSent(q, s) /\ ByeLast(q, s)
    BY <2>0, <2>1 DEF Story, Talked
  <2>4. CASE tally' = [tally EXCEPT ![x] = @ + 1] /\ owed' = [owed EXCEPT ![x] = @ + 1] /\ UNCHANGED up
    <3>1. Talked(s)'
      BY <1>1, <2>4, TalkedKept, WireStays DEF Story
    <3>2. Serving(s)'
      <4>1. /\ \A L : SubsOK(up[Host[s]], s, L) => SubsOK(up'[Host[s]], s, L)
            /\ s \in open' => /\ s \in open /\ known'[s] = known[s] /\ (s \in logged' <=> s \in logged)
                              /\ DownKept(down[Host[s]], down'[Host[s]], s)
        BY <1>1, <1>5, <2>4
      <4>2. Shapes /\ Serving(s)
        BY DEF Story, Sound
      <4> QED BY <1>5, <4>1, <4>2, ServingKept
    <3>3. Accounted(s)'
      <4>1. InFlight(s)' = InFlight(s) /\ InFlight(s) \in Nat
        BY <2>4, InFlightNat DEF InFlight
      <4>2. tally'[s] = tally[s] + 1 /\ owed'[s] = owed[s] + 1 /\ tally[s] \in Nat /\ owed[s] \in Int
        BY <1>7, <2>4 DEF Counts
      <4> QED BY <1>1, <2>1, <4>1, <4>2 DEF Story, Accounted
    <3> QED BY <1>5, <2>1, <2>2, <3>1, <3>2, <3>3, GoesOn
  <2>5. CASE ToPrimary(Host[x], <<Solution(x, g)>>) /\ UNCHANGED <<tally, owed>>
    <3>1. /\ ByeLast(q, s) /\ (ByeSent(q, s) => ~ Speaks(m, s) /\ ~ ByeOf(m, s)) => ByeLast(r, s)
          /\ ByeSent(r, s) => ByeSent(q, s) \/ ByeOf(m, s)
          /\ Talks(r, s) => Talks(q, s) \/ Speaks(m, s)
          /\ Chunks(r, s) => Chunks(q, s) \/ ChunkOf(m, s)
          /\ BlankUp(q, s) /\ ~ SubOf(m, s) /\ ~ AccOf(m, s) /\ ~ ChunkOf(m, s) => BlankUp(r, s)
          /\ \A L : SubsOK(q, s, L) /\ (SubOf(m, s) => Stays(L, m.job, m.g)) => SubsOK(r, s, L)
          /\ InFlight(s)' = InFlight(s) + Shares(m, s)
      BY <1>3, <1>4, <1>7, <2>0, <2>5, Said
    <3>2. ~ ByeOf(m, s) /\ Shares(m, s) = 0
      BY <1>4 DEF ByeOf, Shares
    <3>3. Talked(s)'
      <4>1. ByeLast(r, s) /\ ~ ByeSent(r, s) /\ s \in logged' /\ s \in open'
        BY <1>1, <2>1, <2>3, <3>1, <3>2
      <4> QED BY <2>0, <4>1 DEF Talked
    <3>4. Serving(s)'
      <4> SUFFICES ASSUME s \in hub' \ cut', entry'[s] \in housed'
                   PROVE  /\ SubsOK(r, s, ledger'[entry'[s]])
                          /\ s \in open' => DownOK(down'[Host[s]], s, entry'[s], ledger'[entry'[s]], known'[s], logged')
        BY <2>0 DEF Serving
      <4>1. PICK L : L = ledger[entry[s]]
        OBVIOUS
      <4>2. SubsOK(q, s, L) /\ DownOK(down[Host[s]], s, entry[s], L, known[s], logged)
        BY <1>1, <2>0, <2>1, <4>1 DEF Story, Serving
      <4>3. Stays(L, m.job, m.g)
        BY <1>1, <1>4, <1>7, <4>2 DEF DownOK, KnownStays
      <4>4. SubsOK(r, s, L)
        BY <3>1, <4>2, <4>3
      <4> QED BY <1>1, <4>1, <4>2, <4>4
    <3>5. Accounted(s)'
      <4>1. InFlight(s)' = InFlight(s)
        BY <3>1, <3>2, InFlightNat
      <4> QED BY <1>1, <2>5, <4>1 DEF Story, Accounted
    <3> QED BY <1>5, <2>1, <2>2, <3>3, <3>4, <3>5, GoesOn
  <2> QED BY <1>2, <2>4, <2>5
<1> QED BY <1>6, <1>7

LEMMA UpKeptTwice ==
    ASSUME NEW q, NEW r, NEW t, NEW s, UpKept(q, r, s), UpKept(r, t, s)
    PROVE  UpKept(q, t, s)
BY DEF UpKept

\* The shares of s are on their way: r is what has been sent, q what had been.
Passed(q, r, s, n) ==
    /\ ByeLast(q, s) /\ ~ ByeSent(q, s) => ByeLast(r, s) /\ ~ ByeSent(r, s)
    /\ Chunks(r, s) => Chunks(q, s)
    /\ \A L : SubsOK(q, s, L) => SubsOK(r, s, L)
    /\ Cardinality(Tallied(r, s)) = Cardinality(Tallied(q, s)) + n

LEMMA PassedOn ==
    ASSUME NEW q, NEW r, NEW t, NEW s, NEW n, Passed(q, r, s, n), UpKept(r, t, s)
    PROVE  Passed(q, t, s, n)
BY DEF Passed, UpKept

LEMMA FlushPasses ==
    ASSUME Wires, Counts, Owes, NEW w \in Workers, NEW r, Grows(up[w], r, Flushed(w)),
           NEW s \in Sessions, Host[s] = w
    PROVE  /\ tally[s] = 0 => UpKept(up[w], r, s)
           /\ tally[s] > 0 => Passed(up[w], r, s, tally[s])
<1>1. PICK m : m = Flushed(w)
  OBVIOUS
<1>2. PICK q : q = up[w]
  OBVIOUS
<1>3. Grows(q, r, m)
  BY <1>1, <1>2
<1>4. /\ m \in UpOf(w)
      /\ AccOf(m, s) <=> tally[s] > 0
      /\ Shares(m, s) = tally[s]
      /\ ~ CallOf(m, s) /\ ~ SubOf(m, s) /\ ~ ByeOf(m, s)
  BY <1>1, Flushes
<1>5. tally[s] \in Nat
  BY DEF Counts
<1>6. ASSUME tally[s] = 0 PROVE UpKept(q, r, s)
  <2>1. ~ Speaks(m, s) /\ ~ ByeOf(m, s)
    BY <1>4, <1>6 DEF Speaks
  <2> QED BY <1>3, <2>1, UpGrows
<1>7. ASSUME tally[s] > 0 PROVE Passed(q, r, s, tally[s])
  <2>1. /\ ByeLast(q, s) /\ (ByeSent(q, s) => ~ Speaks(m, s) /\ ~ ByeOf(m, s)) => ByeLast(r, s)
        /\ ByeSent(r, s) => ByeSent(q, s) \/ ByeOf(m, s)
        /\ Talks(r, s) => Talks(q, s) \/ Speaks(m, s)
        /\ Chunks(r, s) => Chunks(q, s) \/ ChunkOf(m, s)
        /\ BlankUp(q, s) /\ ~ SubOf(m, s) /\ ~ AccOf(m, s) /\ ~ ChunkOf(m, s) => BlankUp(r, s)
        /\ \A L : SubsOK(q, s, L) /\ (SubOf(m, s) => Stays(L, m.job, m.g)) => SubsOK(r, s, L)
    BY <1>3, TalksGrows
  <2>2. ~ ChunkOf(m, s)
    BY <1>4 DEF ChunkOf, CallOf
  <2>3. Shares(m, s) \in 0 .. MaxOwed
    BY <1>4, SharesOf
  <2>4. Cardinality(Tallied(r, s)) = Cardinality(Tallied(q, s)) + tally[s]
    BY <1>3, <1>4, <2>3, TalliedGrows
  <2> QED BY <1>4, <2>1, <2>2, <2>4 DEF Passed
<1> QED BY <1>2, <1>6, <1>7

\* Its shares go from the tally into a message.
LEMMA StoryFlushed ==
    ASSUME Sound, Shapes', NEW s \in Sessions, Story(s),
           QuietDoor(s), QuietHub(s), QuietLedger(s), DownKept(down[Host[s]], down'[Host[s]], s),
           s \in logged' <=> s \in logged, known'[s] = known[s], owed'[s] = owed[s],
           tally[s] > 0, tally'[s] = 0, Passed(up[Host[s]], up'[Host[s]], s, tally[s])
    PROVE  Story(s)'
<1> Parties /\ Clients /\ Clients' /\ Wires /\ Books /\ Counts
  BY DEF Sound, Shapes
<1>0. PICK q, r : q = up[Host[s]] /\ r = up'[Host[s]]
  OBVIOUS
<1>1. s \in open /\ s \notin gone /\ ~ Blank(s)
  BY DEF Counts, Parties, Blank
<1>2. s \in hub
  BY <1>1 DEF Story, NewHere, Fresh
<1>3. ByeLast(q, s) /\ ~ ByeSent(q, s) /\ (Chunks(q, s) => s \in logged)
  BY <1>0, <1>1 DEF Story, Talked
<1>4. /\ ByeLast(r, s) /\ ~ ByeSent(r, s) /\ (Chunks(r, s) => Chunks(q, s))
      /\ \A L : SubsOK(q, s, L) => SubsOK(r, s, L)
      /\ Cardinality(Tallied(r, s)) = Cardinality(Tallied(q, s)) + tally[s]
  BY <1>0, <1>3 DEF Passed
<1>5. Talked(s)'
  <2>1. ByeLast(r, s) /\ ~ ByeSent(r, s) /\ (Chunks(r, s) => s \in logged') /\ s \in open'
    BY <1>1, <1>3, <1>4 DEF QuietDoor
  <2> QED BY <1>0, <2>1 DEF Talked
<1>6. Serving(s)'
  <2>1. /\ \A L : SubsOK(up[Host[s]], s, L) => SubsOK(up'[Host[s]], s, L)
        /\ s \in open' => /\ s \in open /\ known'[s] = known[s] /\ (s \in logged' <=> s \in logged)
                          /\ DownKept(down[Host[s]], down'[Host[s]], s)
    BY <1>0, <1>1, <1>4
  <2>2. Shapes /\ Serving(s)
    BY DEF Story, Sound
  <2> QED BY <2>1, <2>2, ServingKept
<1>7. Accounted(s)'
  <2>1. InFlight(s)' = InFlight(s) + tally[s] /\ InFlight(s) \in Nat
    BY <1>0, <1>4, InFlightNat DEF InFlight
  <2>2. tally[s] \in Nat /\ owed[s] \in Int /\ s \notin gone'
    BY <1>1 DEF Counts, QuietDoor
  <2> QED BY <2>1, <2>2 DEF Story, Accounted, QuietHub
<1>8. s \notin hub /\ (s \notin gone' \/ Talks(up'[Host[s]], s)) => s \notin gone \/ Talks(up[Host[s]], s)
  BY <1>2
<1>9. Blank(s) => Blank(s)'
  BY <1>1
<1> QED BY <1>5, <1>6, <1>7, <1>8, <1>9, GoesOn

LEMMA StoryFlush ==
    ASSUME Sound, Shapes', NEW s \in Sessions, Story(s), NEW w \in Workers, Flush(w)
    PROVE  Story(s)'
<1> Parties /\ Clients /\ Clients' /\ Wires /\ Books /\ Counts /\ Owes
  BY DEF Sound, Shapes
<1>1. /\ ToPrimary(w, <<Flushed(w)>>)
      /\ tally' = [x \in Sessions |-> IF Host[x] = w THEN 0 ELSE tally[x]]
      /\ UNCHANGED <<open, gone, logged, known, down, hub, entry, housed, ledger, logins, owed, cut>>
  BY DEF Flush, edge, backend, history
<1>2. QuietDoor(s) /\ QuietHub(s) /\ QuietLedger(s) /\ DownKept(down[Host[s]], down'[Host[s]], s)
  BY <1>1, WireStays DEF QuietDoor, QuietHub, QuietLedger
<1>3. Grows(up[w], up'[w], Flushed(w)) /\ \A x \in Workers \ {w} : up'[x] = up[x]
  BY <1>1, Sent
<1>4. Host[s] \in Workers /\ tally[s] \in Nat
  BY SessionsAssumption DEF Counts
<1>5. CASE Host[s] = w /\ tally[s] > 0
  <2>1. Passed(up[w], up'[w], s, tally[s])
    BY <1>3, <1>5, FlushPasses
  <2>2. /\ s \in logged' <=> s \in logged
        /\ known'[s] = known[s] /\ owed'[s] = owed[s] /\ tally'[s] = 0
    BY <1>1, <1>5
  <2> QED BY <1>2, <1>5, <2>1, <2>2, StoryFlushed
<1>6. CASE ~ (Host[s] = w /\ tally[s] > 0)
  <2>1. UpKept(up[Host[s]], up'[Host[s]], s)
    <3>1. CASE Host[s] = w
      BY <1>3, <1>4, <1>6, <3>1, FlushPasses
    <3>2. CASE Host[s] # w
      BY <1>3, <1>4, <3>2, UpStays
    <3> QED BY <3>1, <3>2
  <2>2. QuietParty(s)
    BY <1>1, <1>4, <1>6 DEF QuietParty
  <2> QED BY <1>2, <2>1, <2>2, StoryKept DEF Quiet, QuietWire, Sound
<1> QED BY <1>5, <1>6

\* What close() sends, to the closed session.
LEMMA CloseSays ==
    ASSUME Sound, NEW x \in Sessions, Close(x), NEW s \in Sessions, Host[s] = Host[x]
    PROVE  /\ tally'[s] = IF tally[x] > 0 THEN 0 ELSE tally[s]
           /\ \E p : /\ Grows(p, up'[Host[x]], Bye(x))
                     /\ tally[x] = 0 => p = up[Host[x]]
                     /\ tally[x] > 0 /\ tally[s] = 0 => UpKept(up[Host[x]], p, s)
                     /\ tally[x] > 0 /\ tally[s] > 0 => Passed(up[Host[x]], p, s, tally[s])
<1> Wires /\ Counts /\ Owes
  BY DEF Sound, Shapes
<1>1. PICK w \in Workers : w = Host[x]
  BY SessionsAssumption
<1>2. tally[x] \in Nat /\ tally[s] \in Nat
  BY DEF Counts
<1>3. CASE tally[x] = 0
  <2>1. ToPrimary(w, <<Bye(x)>>) /\ UNCHANGED tally
    BY <1>1, <1>3 DEF Close
  <2>2. Grows(up[w], up'[w], Bye(x))
    BY <1>1, <2>1, Sent
  <2> QED BY <1>1, <1>2, <1>3, <2>1, <2>2
<1>4. CASE tally[x] > 0
  <2>1. /\ ToPrimary(w, <<Flushed(w), Bye(x)>>)
        /\ tally' = [y \in Sessions |-> IF Host[y] = w THEN 0 ELSE tally[y]]
    BY <1>1, <1>4 DEF Close
  <2>2. PICK p : p = Append(up[w], Flushed(w))
    OBVIOUS
  <2>3. Grows(up[w], p, Flushed(w)) /\ Grows(p, up'[w], Bye(x))
    BY <1>1, <2>1, <2>2, SentTwo
  <2>4. /\ tally[s] = 0 => UpKept(up[w], p, s)
        /\ tally[s] > 0 => Passed(up[w], p, s, tally[s])
    BY <1>1, <2>3, FlushPasses
  <2> QED BY <1>1, <1>2, <1>4, <2>1, <2>3, <2>4
<1> QED BY <1>2, <1>3, <1>4

LEMMA ByeSays ==
    ASSUME NEW x, NEW s
    PROVE  /\ ~ Speaks(Bye(x), s) /\ (ByeOf(Bye(x), s) <=> s = x)
           /\ ~ CallOf(Bye(x), s) /\ ~ ChunkOf(Bye(x), s) /\ ~ SubOf(Bye(x), s) /\ ~ AccOf(Bye(x), s)
           /\ Shares(Bye(x), s) = 0
BY DEF Bye, Speaks, ByeOf, CallOf, ChunkOf, SubOf, AccOf, Shares

\* Another session of the worker.
LEMMA StoryCloseOther ==
    ASSUME Sound, Shapes', NEW s \in Sessions, Story(s), NEW x \in Sessions, Close(x), s # x
    PROVE  Story(s)'
<1> Parties /\ Clients /\ Clients' /\ Wires /\ Books /\ Counts /\ Owes
  BY DEF Sound, Shapes
<1>1. /\ open' = open \ {x} /\ gone' = gone \union {x} /\ known' = [known EXCEPT ![x] = NoLedger]
      /\ UNCHANGED <<logged, down, hub, entry, housed, ledger, logins, owed, cut>>
      /\ \/ ToPrimary(Host[x], <<Bye(x)>>) /\ UNCHANGED tally
         \/ /\ ToPrimary(Host[x], <<Flushed(Host[x]), Bye(x)>>)
            /\ tally' = [y \in Sessions |-> IF Host[y] = Host[x] THEN 0 ELSE tally[y]]
  BY DEF Close, backend, history
<1>2. QuietDoor(s) /\ QuietHub(s) /\ QuietLedger(s) /\ DownKept(down[Host[s]], down'[Host[s]], s)
  BY <1>1, WireStays DEF QuietDoor, QuietHub, QuietLedger
<1>3. /\ s \in logged' <=> s \in logged
      /\ known'[s] = known[s] /\ owed'[s] = owed[s]
  BY <1>1 DEF Books
<1>4. Host[x] \in Workers /\ Host[s] \in Workers /\ tally[s] \in Nat /\ tally[x] \in Nat
  BY SessionsAssumption DEF Counts
<1>5. CASE Host[s] # Host[x]
  <2>1. up'[Host[s]] = up[Host[s]]
    BY <1>1, <1>4, <1>5, Sent, SentTwo
  <2>2. UpKept(up[Host[s]], up'[Host[s]], s)
    BY <2>1, UpStays
  <2>3. tally'[s] = tally[s]
    BY <1>1, <1>4, <1>5
  <2> QED BY <1>2, <1>3, <2>2, <2>3, StoryKept DEF Quiet, QuietWire, QuietParty, Sound
<1>6. CASE Host[s] = Host[x]
  <2>1. PICK p : /\ Grows(p, up'[Host[x]], Bye(x))
                 /\ tally[x] = 0 => p = up[Host[x]]
                 /\ tally[x] > 0 /\ tally[s] = 0 => UpKept(up[Host[x]], p, s)
                 /\ tally[x] > 0 /\ tally[s] > 0 => Passed(up[Host[x]], p, s, tally[s])
    BY <1>6, CloseSays
  <2>2. tally'[s] = IF tally[x] > 0 THEN 0 ELSE tally[s]
    BY <1>6, CloseSays
  <2>3. UpKept(p, up'[Host[s]], s)
    <3>1. PICK m : m = Bye(x)
      OBVIOUS
    <3>2. ~ Speaks(m, s) /\ ~ ByeOf(m, s)
      BY <3>1, ByeSays
    <3>3. PICK r : r = up'[Host[x]]
      OBVIOUS
    <3>4. Grows(p, r, m)
      BY <2>1, <3>1, <3>3
    <3>5. UpKept(p, r, s)
      BY <3>2, <3>4, UpGrows
    <3> QED BY <1>6, <3>3, <3>5
  <2>4. CASE tally[x] > 0 /\ tally[s] > 0
    <3>1. Passed(up[Host[s]], up'[Host[s]], s, tally[s])
      BY <1>6, <2>1, <2>3, <2>4, PassedOn
    <3> QED BY <1>2, <1>3, <2>2, <2>4, <3>1, StoryFlushed
  <2>5. CASE ~ (tally[x] > 0 /\ tally[s] > 0)
    <3>1. UpKept(up[Host[s]], p, s)
      BY <1>4, <1>6, <2>1, <2>5, UpStays
    <3>2. UpKept(up[Host[s]], up'[Host[s]], s)
      BY <2>3, <3>1, UpKeptTwice
    <3>3. tally'[s] = tally[s]
      BY <1>4, <2>2, <2>5
    <3> QED BY <1>2, <1>3, <3>2, <3>3, StoryKept DEF Quiet, QuietWire, QuietParty, Sound
  <2> QED BY <2>4, <2>5
<1> QED BY <1>5, <1>6

\* The session that is closed.
LEMMA StoryCloseOwn ==
    ASSUME Sound, Shapes', NEW s \in Sessions, Story(s), Close(s)
    PROVE  Story(s)'
<1> Parties /\ Clients /\ Clients' /\ Wires /\ Books /\ Counts /\ Owes
  BY DEF Sound, Shapes
<1>1. /\ s \in open /\ open' = open \ {s} /\ gone' = gone \union {s} /\ known' = [known EXCEPT ![s] = NoLedger]
      /\ UNCHANGED <<logged, down, hub, entry, housed, ledger, logins, owed, cut>>
  BY DEF Close, backend, history
<1>2. QuietHub(s) /\ QuietLedger(s) /\ DownKept(down[Host[s]], down'[Host[s]], s)
  BY <1>1, WireStays DEF QuietHub, QuietLedger
<1>3. Host[s] \in Workers /\ tally[s] \in Nat /\ owed[s] \in Int /\ s \notin gone
  BY <1>1, SessionsAssumption DEF Counts, Parties
<1>4. PICK q, r : q = up[Host[s]] /\ r = up'[Host[s]]
  OBVIOUS
<1>5. PICK p : /\ Grows(p, r, Bye(s))
               /\ tally[s] = 0 => p = q
               /\ tally[s] > 0 => Passed(q, p, s, tally[s])
  BY <1>4, CloseSays
<1>6. tally'[s] = 0
  BY <1>3, CloseSays
<1>7. PICK m : m = Bye(s)
  OBVIOUS
<1>8. /\ ~ Speaks(m, s) /\ ~ ChunkOf(m, s) /\ ~ SubOf(m, s) /\ ~ AccOf(m, s)
      /\ Shares(m, s) \in 0 .. MaxOwed /\ Shares(m, s) = 0
  BY <1>7, ByeSays, SessionsAssumption
<1>9. /\ ByeLast(p, s) /\ (ByeSent(p, s) => ~ Speaks(m, s) /\ ~ ByeOf(m, s)) => ByeLast(r, s)
      /\ ByeSent(r, s) => ByeSent(p, s) \/ ByeOf(m, s)
      /\ Talks(r, s) => Talks(p, s) \/ Speaks(m, s)
      /\ Chunks(r, s) => Chunks(p, s) \/ ChunkOf(m, s)
      /\ BlankUp(p, s) /\ ~ SubOf(m, s) /\ ~ AccOf(m, s) /\ ~ ChunkOf(m, s) => BlankUp(r, s)
      /\ \A L : SubsOK(p, s, L) /\ (SubOf(m, s) => Stays(L, m.job, m.g)) => SubsOK(r, s, L)
  BY <1>5, <1>7, TalksGrows
<1>10. Cardinality(Tallied(r, s)) = Cardinality(Tallied(p, s)) + 0
  BY <1>5, <1>7, <1>8, TalliedGrows
<1>11. ByeLast(q, s) /\ ~ ByeSent(q, s) /\ (Chunks(q, s) => s \in logged)
  BY <1>3, <1>4 DEF Story, Talked
<1>12. /\ ByeLast(p, s) /\ ~ ByeSent(p, s) /\ (Chunks(p, s) => Chunks(q, s))
       /\ \A L : SubsOK(q, s, L) => SubsOK(p, s, L)
       /\ Cardinality(Tallied(p, s)) = Cardinality(Tallied(q, s)) + tally[s]
  <2>1. Cardinality(Tallied(q, s)) \in Nat
    BY <1>4, InFlightNat
  <2>2. CASE tally[s] = 0
    BY <1>5, <1>11, <2>1, <2>2
  <2>3. CASE tally[s] > 0
    BY <1>5, <1>11, <2>3 DEF Passed
  <2> QED BY <1>3, <2>2, <2>3
<1>13. Talked(s)'
  <2>1. ByeLast(r, s) /\ (Chunks(r, s) => s \in logged') /\ s \in gone'
    BY <1>1, <1>8, <1>9, <1>11, <1>12
  <2> QED BY <1>4, <2>1 DEF Talked
<1>14. Blank(s) => Blank(s)'
  <2>1. ASSUME Blank(s) PROVE Blank(s)'
    <3>1. tally[s] = 0 /\ BlankUp(q, s) /\ s \notin logged /\ owed[s] = 0 /\ BlankDown(down[Host[s]], s)
      BY <1>4, <2>1 DEF Blank
    <3>2. BlankUp(r, s)
      BY <1>5, <1>8, <1>9, <3>1
    <3>3. known'[s] = NoLedger
      BY <1>1 DEF Books
    <3> QED BY <1>1, <1>4, <1>6, <3>1, <3>2, <3>3 DEF Blank
  <2> QED BY <2>1
<1>15. Serving(s)'
  <2>1. \A L : SubsOK(up[Host[s]], s, L) => SubsOK(up'[Host[s]], s, L)
    BY <1>4, <1>8, <1>9, <1>12
  <2>2. s \notin open'
    BY <1>1
  <2>3. Shapes /\ Serving(s)
    BY DEF Story, Sound
  <2> QED BY <1>2, <2>1, <2>2, <2>3, ServingKept
<1>16. Accounted(s)'
  <2>1. InFlight(s)' = InFlight(s) + tally[s] /\ InFlight(s) \in Nat
    BY <1>3, <1>4, <1>10, <1>12, InFlightNat DEF InFlight
  <2>2. s \notin hub => owed[s] = 0
    BY <1>3 DEF Story, NewHere, Fresh, Blank
  <2> QED BY <1>1, <1>3, <1>6, <2>1, <2>2 DEF Story, Accounted
<1> QED BY <1>2, <1>3, <1>13, <1>14, <1>15, <1>16, GoesOn

LEMMA StoryClose ==
    ASSUME Sound, Shapes', NEW s \in Sessions, Story(s), NEW x \in Sessions, Close(x)
    PROVE  Story(s)'
BY StoryCloseOther, StoryCloseOwn

LEMMA StoryExpire ==
    ASSUME Sound, Shapes', NEW s \in Sessions, Story(s), NEW c, Expire(c)
    PROVE  Story(s)'
<1>1. UNCHANGED <<open, gone, logged, known, tally, owed, up, down, hub, entry, housed, ledger, logins, cut>>
  BY DEF Expire, edge, wire, backend, history
<1>2. QuietDoor(s) /\ QuietParty(s) /\ QuietHub(s) /\ QuietLedger(s) /\ QuietWire(s)
  BY <1>1, WireStays DEF QuietDoor, QuietParty, QuietHub, QuietLedger, QuietWire
<1> QED BY <1>2, StoryKept DEF Quiet, Sound, Shapes

\* A worker ends: the others go on.
LEMMA StoryDie ==
    ASSUME Sound, Shapes', NEW s \in Sessions, NEW w \in Workers, Die(w), Host[s] \in alive',
           Story(s)
    PROVE  Story(s)'
<1> Parties /\ Clients /\ Clients' /\ Wires /\ Books /\ Counts
  BY DEF Sound, Shapes
<1>1. Host[s] # w
  BY DEF Die
<1>2. /\ open' = open \ Of(w) /\ gone' = gone \union Of(w) /\ logged' = logged \ Of(w)
      /\ known' = [x \in Sessions |-> IF Host[x] = w THEN NoLedger ELSE known[x]]
      /\ tally' = [x \in Sessions |-> IF Host[x] = w THEN 0 ELSE tally[x]]
      /\ UNCHANGED <<hub, entry, housed, ledger, logins, owed, cut>>
  BY DEF Die, backend, history
<1>3. up'[Host[s]] = up[Host[s]] /\ down'[Host[s]] = down[Host[s]]
  <2>1. PICK u : up' = [up EXCEPT ![w] = u]
    BY DEF Die
  <2>2. down' = [down EXCEPT ![w] = <<>>] /\ Host[s] \in Workers
    BY SessionsAssumption DEF Die
  <2> QED BY <1>1, <2>1, <2>2 DEF Wires
<1>4. QuietDoor(s) /\ QuietParty(s) /\ QuietHub(s) /\ QuietLedger(s) /\ QuietWire(s)
  BY <1>1, <1>2, <1>3, UpStays, DownStays DEF QuietDoor, QuietParty, QuietHub, QuietLedger, QuietWire, Of
<1> QED BY <1>4, StoryKept DEF Quiet, Sound

\* A worker is handed a message for s: what it learns is what the message says.
LEMMA StoryHanded ==
    ASSUME Sound, Shapes', NEW s \in Sessions, Story(s), NEW q, NEW r, q = down[Host[s]], r = down'[Host[s]],
           Drops(q, r), For(q[1], s), q[1] \in DownOf(Host[s]),
           QuietDoor(s), QuietHub(s), QuietLedger(s), UNCHANGED <<up, tally, owed>>,
           logged \subseteq logged',
           BlankDown(q, s) => known'[s] = known[s] /\ (s \in logged' => s \in logged),
           s \in open =>
               /\ \/ known'[s] = known[s]
                  \/ /\ GrantIn(q[1]) # 0
                     /\ known'[s] = Record(known[s], IF JobIn(q[1]) # 0 THEN JobIn(q[1]) ELSE known[s].job, GrantIn(q[1]))
               /\ PushTo(q[1], s) => JobIn(q[1]) # 0 /\ known'[s] = Record(known[s], JobIn(q[1]), GrantIn(q[1]))
               /\ s \in logged' \ logged =>
                      /\ ReplyTo(q[1], s) /\ Good(q[1])
                      /\ JobIn(q[1]) # 0 /\ GrantIn(q[1]) # 0 => known'[s] = Record(known[s], JobIn(q[1]), GrantIn(q[1]))
    PROVE  Story(s)'
<1> Parties /\ Clients /\ Clients' /\ Wires /\ Books /\ Counts
  BY DEF Sound, Shapes
<1>1. Talked(s)'
  BY TalkedKept, WireStays DEF Story, QuietDoor, QuietHub
<1>2. Blank(s) => Blank(s)'
  <2>1. ASSUME Blank(s) PROVE Blank(s)'
    <3>1. BlankDown(q, s)
      BY <2>1 DEF Blank
    <3>2. BlankDown(r, s)
      <4>1. ASSUME NEW i \in 1 .. Len(r), For(r[i], s)
            PROVE  ~ PushTo(r[i], s) /\ ~ Good(r[i]) /\ JobIn(r[i]) = 0 /\ GrantIn(r[i]) = 0
        <5>1. PICK k \in 1 .. Len(q) : r[i] = q[k]
          BY DropsAt
        <5> QED BY <3>1, <4>1, <5>1 DEF BlankDown
      <4> QED BY <4>1 DEF BlankDown
    <3> QED BY <2>1, <3>1, <3>2 DEF Blank
  <2> QED BY <2>1
<1>3. Serving(s)'
  <2> SUFFICES ASSUME s \in hub' \ cut', entry'[s] \in housed'
               PROVE  /\ SubsOK(up'[Host[s]], s, ledger'[entry'[s]])
                      /\ s \in open' => DownOK(r, s, entry'[s], ledger'[entry'[s]], known'[s], logged')
    BY DEF Serving
  <2>1. PICK e \in Calls : e = entry[s] /\ e = entry'[s] /\ e \in housed' /\ SessionOf(e) = s
    BY DEF QuietHub, Clients, Calls, None
  <2>2. PICK L \in LedgerType : L = ledger[e] /\ L = ledger'[e]
    BY <2>1 DEF QuietLedger, Books
  <2>3. SubsOK(up'[Host[s]], s, L) /\ (s \in open => DownOK(q, s, e, L, known[s], logged))
    BY <2>1, <2>2 DEF Story, Serving, QuietHub
  <2>4. ASSUME s \in open' PROVE DownOK(r, s, e, L, known'[s], logged')
    <3>1. PICK kn \in LedgerType : kn = known[s]
      BY DEF Books
    <3>2. PICK kk : kk = known'[s]
      OBVIOUS
    <3>3. s \in open /\ DownOK(q, s, e, L, kn, logged) /\ L.job \in Nat
      BY <2>3, <2>4, <3>1, LedgerJob DEF QuietDoor
    <3>4. JobIn(q[1]) \in 0 .. MaxGrants /\ GrantIn(q[1]) \in 0 .. MaxGrants
      BY DownSays, SessionsAssumption
    <3>5. /\ \/ kk = kn
             \/ /\ For(q[1], s) /\ GrantIn(q[1]) # 0
                /\ kk = Record(kn, IF JobIn(q[1]) # 0 THEN JobIn(q[1]) ELSE kn.job, GrantIn(q[1]))
          /\ PushTo(q[1], s) => JobIn(q[1]) # 0 /\ kk = Record(kn, JobIn(q[1]), GrantIn(q[1]))
          /\ s \in logged' \ logged =>
                 /\ ReplyTo(q[1], s) /\ Good(q[1])
                 /\ JobIn(q[1]) # 0 /\ GrantIn(q[1]) # 0 => kk = Record(kn, JobIn(q[1]), GrantIn(q[1]))
      BY <3>1, <3>2, <3>3
    <3> QED BY <3>2, <3>3, <3>4, <3>5, DownDrops
  <2> QED BY <2>1, <2>2, <2>3, <2>4
<1>4. Accounted(s)'
  <2>1. InFlight(s)' = InFlight(s)
    BY DEF InFlight
  <2> QED BY <2>1 DEF Story, Accounted, QuietDoor, QuietHub
<1>5. s \notin hub /\ (s \notin gone' \/ Talks(up'[Host[s]], s)) => s \notin gone \/ Talks(up[Host[s]], s)
  BY DEF QuietDoor
<1> QED BY <1>1, <1>2, <1>3, <1>4, <1>5, GoesOn

LEMMA StoryAnswered ==
    ASSUME Sound, Shapes', NEW s \in Sessions, Story(s), NEW w \in Workers, Answered(w)
    PROVE  Story(s)'
<1> Parties /\ Clients /\ Clients' /\ Wires /\ Books /\ Counts
  BY DEF Sound, Shapes
<1>1. PICK m : m = Head(down[w])
  OBVIOUS
<1>2. /\ down[w] # <<>> /\ m.t = "r" /\ down' = [down EXCEPT ![w] = Tail(@)]
      /\ UNCHANGED <<open, gone, tally, owed, up, hub, entry, housed, ledger, logins, cut>>
      /\ \/ m.c \in calls /\ m.r.ok /\ Learn(SessionOf(m.c), m.r) /\ logged' = logged \union {SessionOf(m.c)}
         \/ UNCHANGED <<known, logged>>
  BY <1>1 DEF Answered, backend, history
<1>3. QuietDoor(s) /\ QuietHub(s) /\ QuietLedger(s)
  BY <1>2 DEF QuietDoor, QuietHub, QuietLedger
<1>4. PICK q, r : q = down[w] /\ r = down'[w]
  OBVIOUS
<1>5. Drops(q, r) /\ m = q[1] /\ m \in DownOf(w) /\ \A x \in Workers \ {w} : down'[x] = down[x]
  BY <1>1, <1>2, <1>4, Delivered
<1>6. PICK x \in Sessions : x = SessionOf(m.c) /\ Host[x] = w
  BY <1>2, <1>5, DownSays
<1>7. JobIn(m) \in 0 .. MaxGrants /\ GrantIn(m) \in 0 .. MaxGrants
  BY <1>5, DownSays
<1>8. \/ UNCHANGED <<known, logged>>
      \/ /\ m.r.ok /\ logged' = logged \union {x}
         /\ \A y \in Sessions \ {x} : known'[y] = known[y]
         /\ \/ known'[x] = known[x] /\ (GrantIn(m) = 0 \/ (JobIn(m) = 0 /\ known[x].job = 0))
            \/ /\ GrantIn(m) # 0
               /\ known'[x] = Record(known[x], IF JobIn(m) # 0 THEN JobIn(m) ELSE known[x].job, GrantIn(m))
  <2>1. CASE m.r.ok /\ Learn(x, m.r) /\ logged' = logged \union {x}
    <3>1. m.r.job \in 0 .. MaxGrants /\ m.r.g \in 0 .. MaxGrants
      BY <1>7 DEF JobIn, GrantIn
    <3>2. /\ \A y \in Sessions \ {x} : known'[y] = known[y]
          /\ \/ known'[x] = known[x] /\ (m.r.g = 0 \/ (m.r.job = 0 /\ known[x].job = 0))
             \/ /\ m.r.g # 0
                /\ known'[x] = Record(known[x], IF m.r.job # 0 THEN m.r.job ELSE known[x].job, m.r.g)
      BY <2>1, <3>1, LearnTyped
    <3> QED BY <2>1, <3>2 DEF JobIn, GrantIn
  <2> QED BY <1>2, <1>6, <2>1
<1>9. CASE s # x
  <2>1. QuietParty(s)
    BY <1>2, <1>8, <1>9 DEF QuietParty
  <2>2. ~ For(m, s)
    BY <1>2, <1>6, <1>9 DEF For, ReplyTo, PushTo
  <2>3. DownKept(down[Host[s]], down'[Host[s]], s)
    BY <1>1, <1>2, <2>2, DownHanded
  <2>4. UpKept(up[Host[s]], up'[Host[s]], s)
    BY <1>2, WireStays
  <2> QED BY <1>3, <2>1, <2>3, <2>4, StoryKept DEF Quiet, QuietWire, Sound
<1>10. CASE s = x
  <2>1. ReplyTo(m, s) /\ For(m, s) /\ ~ PushTo(m, s) /\ (Good(m) <=> m.r.ok) /\ Host[s] = w
    BY <1>2, <1>6, <1>10 DEF For, ReplyTo, PushTo, Good
  <2>2. BlankDown(q, s) => known'[s] = known[s] /\ (s \in logged' => s \in logged)
    <3>1. BlankDown(q, s) => ~ Good(m)
      <4>1. 1 \in 1 .. Len(q)
        BY <1>5, DropsHead
      <4> QED BY <1>5, <2>1, <4>1 DEF BlankDown
    <3> QED BY <1>8, <2>1, <3>1
  <2>3. logged \subseteq logged'
    BY <1>8
  <2>4. /\ \/ known'[s] = known[s]
           \/ /\ GrantIn(m) # 0
              /\ known'[s] = Record(known[s], IF JobIn(m) # 0 THEN JobIn(m) ELSE known[s].job, GrantIn(m))
        /\ s \in logged' \ logged =>
               /\ ReplyTo(m, s) /\ Good(m)
               /\ JobIn(m) # 0 /\ GrantIn(m) # 0 => known'[s] = Record(known[s], JobIn(m), GrantIn(m))
    BY <1>8, <1>10, <2>1
  <2> QED BY <1>2, <1>3, <1>4, <1>5, <2>1, <2>2, <2>3, <2>4, StoryHanded
<1> QED BY <1>9, <1>10

LEMMA StoryPushed ==
    ASSUME Sound, Shapes', NEW s \in Sessions, Story(s), NEW w \in Workers, Pushed(w)
    PROVE  Story(s)'
<1> Parties /\ Clients /\ Clients' /\ Wires /\ Books /\ Counts
  BY DEF Sound, Shapes
<1>1. PICK m : m = Head(down[w])
  OBVIOUS
<1>2. /\ down[w] # <<>> /\ m.t = "j" /\ down' = [down EXCEPT ![w] = Tail(@)]
      /\ UNCHANGED <<open, gone, logged, tally, owed, up, hub, entry, housed, ledger, logins, cut>>
      /\ IF m.s \in open THEN Learn(m.s, m.r) ELSE UNCHANGED known
  BY <1>1 DEF Pushed, edge, backend, history
<1>3. QuietDoor(s) /\ QuietHub(s) /\ QuietLedger(s)
  BY <1>2 DEF QuietDoor, QuietHub, QuietLedger
<1>4. PICK q, r : q = down[w] /\ r = down'[w]
  OBVIOUS
<1>5. Drops(q, r) /\ m = q[1] /\ m \in DownOf(w) /\ \A x \in Workers \ {w} : down'[x] = down[x]
  BY <1>1, <1>2, <1>4, Delivered
<1>6. PICK x \in Sessions : x = m.s /\ Host[x] = w
  BY <1>2, <1>5, DownSays DEF Of
<1>7. JobIn(m) \in 0 .. MaxGrants /\ GrantIn(m) \in 0 .. MaxGrants /\ JobIn(m) # 0 /\ GrantIn(m) # 0
  BY <1>2, <1>5, DownSays DEF JobIn, GrantIn
<1>8. /\ \A y \in Sessions \ {x} : known'[y] = known[y]
      /\ x \in open => known'[x] = Record(known[x], JobIn(m), GrantIn(m))
  <2>1. CASE x \in open
    <3>1. m.r.job \in 0 .. MaxGrants /\ m.r.g \in 0 .. MaxGrants /\ m.r.job # 0 /\ m.r.g # 0
      BY <1>7 DEF JobIn, GrantIn
    <3>2. /\ \A y \in Sessions \ {x} : known'[y] = known[y]
          /\ \/ known'[x] = known[x] /\ (m.r.g = 0 \/ (m.r.job = 0 /\ known[x].job = 0))
             \/ /\ m.r.g # 0
                /\ known'[x] = Record(known[x], IF m.r.job # 0 THEN m.r.job ELSE known[x].job, m.r.g)
      BY <1>2, <1>6, <2>1, <3>1, LearnTyped
    <3> QED BY <3>1, <3>2 DEF JobIn, GrantIn
  <2> QED BY <1>2, <1>6, <2>1
<1>9. CASE s # x
  <2>1. QuietParty(s)
    BY <1>2, <1>8, <1>9 DEF QuietParty
  <2>2. ~ For(m, s)
    BY <1>2, <1>6, <1>9 DEF For, ReplyTo, PushTo
  <2>3. DownKept(down[Host[s]], down'[Host[s]], s)
    BY <1>1, <1>2, <2>2, DownHanded
  <2>4. UpKept(up[Host[s]], up'[Host[s]], s)
    BY <1>2, WireStays
  <2> QED BY <1>3, <2>1, <2>3, <2>4, StoryKept DEF Quiet, QuietWire, Sound
<1>10. CASE s = x
  <2>1. PushTo(m, s) /\ For(m, s) /\ Host[s] = w
    BY <1>2, <1>6, <1>10 DEF For, PushTo
  <2>2. ~ BlankDown(q, s)
    <3>1. 1 \in 1 .. Len(q)
      BY <1>5, DropsHead
    <3> QED BY <1>5, <2>1, <3>1 DEF BlankDown
  <2>3. s \in open =>
            /\ \/ known'[s] = known[s]
               \/ /\ GrantIn(m) # 0
                  /\ known'[s] = Record(known[s], IF JobIn(m) # 0 THEN JobIn(m) ELSE known[s].job, GrantIn(m))
            /\ PushTo(m, s) => JobIn(m) # 0 /\ known'[s] = Record(known[s], JobIn(m), GrantIn(m))
            /\ s \in logged' \ logged =>
                   /\ ReplyTo(m, s) /\ Good(m)
                   /\ JobIn(m) # 0 /\ GrantIn(m) # 0 => known'[s] = Record(known[s], JobIn(m), GrantIn(m))
    BY <1>2, <1>7, <1>8, <1>10
  <2> QED BY <1>2, <1>3, <1>4, <1>5, <2>1, <2>2, <2>3, StoryHanded
<1> QED BY <1>9, <1>10

-----------------------------------------------------------------------------
(* The story of a session through the steps of the primary.                *)

LEMMA NoneIsNoCall == None \notin Calls
BY CallIsSome

\* The first message has been heard.
LEMMA TalkedHeard ==
    ASSUME NEW s \in Sessions, Talked(s), Drops(up[Host[s]], up'[Host[s]]),
           s \in gone => s \in gone', s \in logged => s \in logged',
           s \in open \union gone => s \in open' \union gone',
           s \in hub' => s \in hub \/ Talks(up[Host[s]], s)
    PROVE  Talked(s)'
<1>1. PICK q, r : q = up[Host[s]] /\ r = up'[Host[s]]
  OBVIOUS
<1>2. /\ ByeLast(q, s) => ByeLast(r, s)
      /\ ByeSent(r, s) => ByeSent(q, s)
      /\ Talks(r, s) => Talks(q, s)
      /\ Chunks(r, s) => Chunks(q, s)
      /\ BlankUp(q, s) => BlankUp(r, s)
      /\ \A L : SubsOK(q, s, L) => SubsOK(r, s, L)
  BY <1>1, TalksDrops
<1>3. /\ ByeLast(q, s)
      /\ ByeSent(q, s) => s \in gone
      /\ Chunks(q, s) => s \in logged
      /\ Talks(q, s) \/ s \in hub => s \in open \union gone
      /\ s \in hub' => s \in hub \/ Talks(q, s)
  BY <1>1 DEF Talked
<1>4. /\ ByeLast(r, s)
      /\ ByeSent(r, s) => s \in gone'
      /\ Chunks(r, s) => s \in logged'
      /\ Talks(r, s) \/ s \in hub' => s \in open' \union gone'
  BY <1>2, <1>3
<1> QED BY <1>1, <1>4 DEF Talked

\* What the primary hears from a worker.
LEMMA HeardFrom ==
    ASSUME Wires, NEW w \in Workers, up[w] # <<>>, Taken(w), NEW m, m = Head(up[w])
    PROVE  /\ Drops(up[w], up'[w]) /\ m = up[w][1] /\ m \in UpOf(w)
           /\ \A x \in Workers \ {w} : up'[x] = up[x]
           /\ \A s \in Sessions : ~ AccOf(m, s) => UpKept(up[Host[s]], up'[Host[s]], s)
BY TakenFrom, UpTaken

LEMMA StoryHandleLogin ==
    ASSUME Sound, Shapes', NEW s \in Sessions, Story(s), NEW w \in Workers, HandleLogin(w)
    PROVE  Story(s)'
<1> Parties /\ Clients /\ Clients' /\ Wires /\ Books /\ Counts
  BY DEF Sound, Shapes
<1>1. PICK m : m = Head(up[w])
  OBVIOUS
<1>2. PICK x : x = SessionOf(m.c)
  OBVIOUS
<1>3. /\ up[w] # <<>> /\ m.t = "login" /\ Taken(w)
      /\ hub' = hub \union {x} /\ CloseEntries({x})
      /\ logins' = logins \union {[who |-> m.c, at |-> "resolve"]}
      /\ cut' = IF entry[x] # None THEN cut \union {x} ELSE cut
      /\ UNCHANGED <<open, gone, logged, known, tally, owed, down>>
  BY <1>1, <1>2 DEF HandleLogin, Arrived, edge, worker
<1>4. /\ Drops(up[w], up'[w]) /\ m = up[w][1] /\ m \in UpOf(w)
      /\ \A y \in Workers \ {w} : up'[y] = up[y]
      /\ \A y \in Sessions : ~ AccOf(m, y) => UpKept(up[Host[y]], up'[Host[y]], y)
  BY <1>1, <1>3, HeardFrom
<1>5. x \in Sessions /\ Host[x] = w /\ m.c \in Calls
  BY <1>2, <1>3, <1>4, UpSays
<1>6. ~ AccOf(m, s)
  BY <1>3 DEF AccOf
<1>7. UpKept(up[Host[s]], up'[Host[s]], s) /\ DownKept(down[Host[s]], down'[Host[s]], s)
  BY <1>3, <1>4, <1>6, WireStays
<1>8. housed' \subseteq housed /\ QuietLedger(s) /\ entry'[s] = IF s \in {x} THEN None ELSE entry[s]
  BY <1>3, CloseQuiet
<1>9. QuietDoor(s) /\ QuietParty(s) /\ QuietWire(s)
  BY <1>3, <1>7 DEF QuietDoor, QuietParty, QuietWire
<1>10. CASE s # x
  <2>1. \A l \in logins' : SessionOf(l.who) = s => \E k \in logins : k.who = l.who
    BY <1>2, <1>3, <1>10
  <2>2. QuietHub(s)
    BY <1>3, <1>8, <1>10, <2>1 DEF QuietHub
  <2> QED BY <1>8, <1>9, <2>2, StoryKept DEF Quiet, Sound
<1>11. CASE s = x
  <2>1. Talks(up[Host[s]], s)
    <3>1. Speaks(m, s)
      BY <1>2, <1>3, <1>11 DEF Speaks, CallOf
    <3> QED BY <1>4, <1>5, <1>11, <3>1, HeadSays
  <2>2. Talked(s)'
    BY <1>3, <1>4, <1>5, <1>11, <2>1, TalkedHeard DEF Story
  <2>3. NewHere(s)'
    BY <1>3, <1>11 DEF NewHere
  <2>4. CASE entry[s] # None
    BY <1>3, <1>11, <2>2, <2>3, <2>4, StoryCut
  <2>5. CASE entry[s] = None
    <3>1. cut' = cut /\ entry'[s] = None
      BY <1>3, <1>8, <1>11, <2>5
    <3>2. s \notin cut => Blank(s) /\ \A c \in housed : SessionOf(c) # s
      <4>1. CASE s \in hub
        <5>1. s \notin cut => Blank(s)
          BY <2>5, <4>1 DEF Story, LoggingIn
        <5>2. s \notin cut => \A c \in housed : SessionOf(c) # s
          BY <2>5, <4>1, NoneIsNoCall DEF Story, OneClient, Clients
        <5> QED BY <5>1, <5>2
      <4>2. CASE s \notin hub
        BY <2>1, <4>2 DEF Story, NewHere, Fresh
      <4> QED BY <4>1, <4>2
    <3>3. LoggingIn(s)'
      <4>1. Blank(s) => Blank(s)'
        BY <1>9, BlankKept
      <4> QED BY <3>1, <3>2, <4>1 DEF LoggingIn
    <3>4. OneClient(s)'
      BY <1>8, <3>1, <3>2 DEF OneClient, SessionOf
    <3>5. Serving(s)'
      BY <3>1, NoneIsNoCall DEF Serving, Clients
    <3>6. Accounted(s)'
      <4>1. InFlight(s)' = InFlight(s)
        BY <1>7 DEF InFlight, UpKept
      <4> QED BY <1>3, <1>11, <3>1, <4>1 DEF Story, Accounted
    <3> QED BY <2>2, <2>3, <3>3, <3>4, <3>5, <3>6 DEF Story
  <2> QED BY <2>4, <2>5
<1> QED BY <1>10, <1>11

LEMMA StoryHandleSub ==
    ASSUME Sound, Shapes', NEW s \in Sessions, Story(s), NEW w \in Workers, HandleSub(w)
    PROVE  Story(s)'
<1> Parties /\ Clients /\ Clients' /\ Wires
  BY DEF Sound, Shapes
<1>1. PICK m : m = Head(up[w])
  OBVIOUS
<1>2. /\ up[w] # <<>> /\ m.t = "sub" /\ Taken(w)
      /\ UNCHANGED <<open, gone, logged, known, tally, owed, down, hub, entry, housed, ledger, logins, cut>>
  BY <1>1 DEF HandleSub, Arrived, edge, worker, backend, history
<1>3. ~ AccOf(m, s)
  BY <1>2 DEF AccOf
<1>4. UpKept(up[Host[s]], up'[Host[s]], s)
  BY <1>1, <1>2, <1>3, HeardFrom
<1>5. QuietDoor(s) /\ QuietParty(s) /\ QuietHub(s) /\ QuietLedger(s) /\ QuietWire(s)
  BY <1>2, <1>4, WireStays DEF QuietDoor, QuietParty, QuietHub, QuietLedger, QuietWire
<1> QED BY <1>5, StoryKept DEF Quiet, Sound

LEMMA StoryHandleAcc ==
    ASSUME Sound, Shapes', NEW s \in Sessions, Story(s), NEW w \in Workers, HandleAcc(w)
    PROVE  Story(s)'
<1> Parties /\ Clients /\ Clients' /\ Wires /\ Books /\ Counts
  BY DEF Sound, Shapes
<1>1. PICK m : m = Head(up[w])
  OBVIOUS
<1>2. /\ up[w] # <<>> /\ m.t = "acc" /\ Taken(w)
      /\ owed' = [y \in Sessions |-> IF y \in DOMAIN m.d /\ y \in hub /\ entry[y] # None
                                     THEN owed[y] - m.d[y] ELSE owed[y]]
      /\ UNCHANGED <<open, gone, logged, known, tally, down, hub, entry, housed, ledger, logins, cut>>
  BY <1>1 DEF HandleAcc, Arrived, edge, worker, backend
<1>3. /\ Drops(up[w], up'[w]) /\ m = up[w][1] /\ m \in UpOf(w)
      /\ \A y \in Workers \ {w} : up'[y] = up[y]
      /\ \A y \in Sessions : ~ AccOf(m, y) => UpKept(up[Host[y]], up'[Host[y]], y)
  BY <1>1, <1>2, HeardFrom
<1>4. QuietDoor(s) /\ QuietHub(s) /\ QuietLedger(s) /\ DownKept(down[Host[s]], down'[Host[s]], s)
  BY <1>2, WireStays DEF QuietDoor, QuietHub, QuietLedger
<1>5. CASE ~ AccOf(m, s)
  <2>1. QuietParty(s)
    BY <1>2, <1>5 DEF QuietParty, AccOf, Counts
  <2>2. QuietWire(s)
    BY <1>3, <1>4, <1>5 DEF QuietWire
  <2> QED BY <1>4, <2>1, <2>2, StoryKept DEF Quiet, Sound
<1>6. CASE AccOf(m, s)
  <2>1. s \in DOMAIN m.d /\ Host[s] = w /\ m.d[s] \in 1 .. MaxOwed
    BY <1>2, <1>3, <1>6, UpSays DEF AccOf, Of
  <2>2. PICK q, r : q = up[Host[s]] /\ r = up'[Host[s]]
    OBVIOUS
  <2>3. Drops(q, r) /\ m = q[1]
    BY <1>3, <2>1, <2>2
  <2>4. Talks(q, s) /\ ~ BlankUp(q, s)
    <3>1. AccOf(q[1], s) /\ Speaks(q[1], s)
      BY <1>6, <2>3 DEF Speaks
    <3> QED BY <2>3, <3>1, HeadSays
  <2>5. ~ Blank(s)
    BY <2>2, <2>4 DEF Blank
  <2>6. s \in hub
    BY <2>2, <2>4, <2>5 DEF Story, NewHere, Fresh
  <2>7. s \notin cut => entry[s] # None
    BY <2>5, <2>6 DEF Story, LoggingIn
  <2>8. Talked(s)'
    BY <1>2, <2>2, <2>3, TalkedHeard DEF Story
  <2>9. Serving(s)'
    <3>1. /\ \A L : SubsOK(up[Host[s]], s, L) => SubsOK(up'[Host[s]], s, L)
          /\ s \in open' => /\ s \in open /\ known'[s] = known[s] /\ (s \in logged' <=> s \in logged)
                            /\ DownKept(down[Host[s]], down'[Host[s]], s)
      BY <1>2, <1>4, <2>2, <2>3, TalksDrops
    <3>2. Shapes /\ Serving(s)
      BY DEF Story, Sound
    <3> QED BY <1>4, <3>1, <3>2, ServingKept
  <2>10. Accounted(s)'
    <3>1. InFlight(s) = InFlight(s)' + m.d[s] /\ InFlight(s)' \in Nat
      <4>1. Shares(m, s) = m.d[s]
        BY <1>2, <2>1 DEF Shares
      <4>2. /\ InFlight(s)' \in Nat
            /\ InFlight(s) = InFlight(s)' + (IF Host[s] = w THEN Shares(m, s) ELSE 0)
        BY <1>1, <1>2, FlightDrops
      <4> QED BY <2>1, <4>1, <4>2
    <3>2. owed[s] \in Int /\ tally[s] \in Nat /\ tally'[s] = tally[s]
      BY <1>2 DEF Counts
    <3>3. s \notin cut => owed'[s] = owed[s] - m.d[s]
      BY <1>2, <2>1, <2>6, <2>7
    <3> QED BY <1>2, <2>1, <2>6, <3>1, <3>2, <3>3 DEF Story, Accounted
  <2> QED BY <1>2, <1>4, <2>5, <2>6, <2>8, <2>9, <2>10, GoesOn
<1> QED BY <1>5, <1>6

LEMMA StoryHandleBye ==
    ASSUME Sound, Shapes', NEW s \in Sessions, Story(s), NEW w \in Workers, HandleBye(w)
    PROVE  Story(s)'
<1> Parties /\ Clients /\ Clients' /\ Wires /\ Books /\ Counts
  BY DEF Sound, Shapes
<1>1. PICK m : m = Head(up[w])
  OBVIOUS
<1>2. PICK x : x = m.s
  OBVIOUS
<1>3. /\ up[w] # <<>> /\ m.t = "bye" /\ Taken(w)
      /\ \/ x \in hub /\ hub' = hub \ {x} /\ CloseEntries({x})
         \/ x \notin hub /\ UNCHANGED <<hub, entry, live, housed, ledger>>
      /\ UNCHANGED <<open, gone, logged, known, tally, owed, down, logins, cut>>
  BY <1>1, <1>2 DEF HandleBye, Arrived, edge, worker, backend, history
<1>4. /\ Drops(up[w], up'[w]) /\ m = up[w][1] /\ m \in UpOf(w)
      /\ \A y \in Workers \ {w} : up'[y] = up[y]
      /\ \A y \in Sessions : ~ AccOf(m, y) => UpKept(up[Host[y]], up'[Host[y]], y)
  BY <1>1, <1>3, HeardFrom
<1>5. x \in Sessions /\ Host[x] = w
  BY <1>2, <1>3, <1>4, UpSays DEF Of
<1>6. ~ AccOf(m, s)
  BY <1>3 DEF AccOf
<1>7. UpKept(up[Host[s]], up'[Host[s]], s) /\ DownKept(down[Host[s]], down'[Host[s]], s)
  BY <1>3, <1>4, <1>6, WireStays
<1>8. QuietDoor(s) /\ QuietParty(s) /\ QuietWire(s)
  BY <1>3, <1>7 DEF QuietDoor, QuietParty, QuietWire
<1>9. CASE ~ (s = x /\ s \in hub)
  <2>1. QuietHub(s) /\ QuietLedger(s)
    <3>1. CASE x \in hub /\ hub' = hub \ {x} /\ CloseEntries({x})
      <4>1. housed' \subseteq housed /\ QuietLedger(s) /\ entry'[s] = IF s \in {x} THEN None ELSE entry[s]
        BY <3>1, CloseQuiet
      <4> QED BY <1>3, <1>9, <3>1, <4>1 DEF QuietHub
    <3>2. CASE UNCHANGED <<hub, entry, live, housed, ledger>>
      BY <1>3, <3>2 DEF QuietHub, QuietLedger
    <3> QED BY <1>3, <3>1, <3>2
  <2> QED BY <1>8, <2>1, StoryKept DEF Quiet, Sound
<1>10. CASE s = x /\ s \in hub
  <2>1. PICK q, r : q = up[Host[s]] /\ r = up'[Host[s]]
    OBVIOUS
  <2>2. Drops(q, r) /\ ByeOf(q[1], s) /\ ByeLast(q, s)
    BY <1>2, <1>3, <1>4, <1>5, <1>10, <2>1 DEF ByeOf, Story, Talked
  <2>3. ByeSent(q, s) /\ ~ Talks(r, s) /\ \A i \in 1 .. Len(q) : i # 1 => ~ Speaks(q[i], s)
    BY <2>2, ByeEnds
  <2>4. s \in gone /\ s \notin open /\ s \notin hub'
    BY <1>3, <1>10, <2>1, <2>3 DEF Story, Talked, Parties
  <2>5. Talked(s)'
    BY <1>3, <2>1, <2>2, <2>4, TalkedHeard DEF Story
  <2>6. NewHere(s)'
    BY <1>3, <2>1, <2>3, <2>4 DEF NewHere
  <2>7. Accounted(s)'
    <3>1. InFlight(s)' = InFlight(s)
      BY <1>7 DEF InFlight, UpKept
    <3>2. tally[s] = 0
      BY <2>4 DEF Counts
    <3>3. InFlight(s)' = 0
      <4>1. ASSUME NEW i \in 1 .. Len(r) PROVE Shares(r[i], s) = 0
        <5>1. i + 1 \in 1 .. Len(q) /\ r[i] = q[i + 1] /\ i + 1 # 1
          BY <2>2, DropsAt
        <5>2. ~ AccOf(r[i], s)
          BY <2>3, <5>1 DEF Speaks
        <5> QED BY <5>2 DEF Shares, AccOf
      <4>2. Len(r) \in Nat
        BY <2>2 DEF Drops
      <4>3. Cardinality(Tallied(r, s)) = 0
        BY <4>1, <4>2, NoneTallied
      <4> QED BY <2>1, <4>3 DEF InFlight
    <3> QED BY <1>3, <3>1, <3>2, <3>3 DEF Story, Accounted
  <2> QED BY <2>4, <2>5, <2>6, <2>7 DEF Story, LoggingIn, OneClient, Serving
<1> QED BY <1>9, <1>10

LEMMA StoryEvict ==
    ASSUME Sound, Shapes', NEW s \in Sessions, Story(s), Host[s] \in alive, NEW w \in Workers, Evict(w)
    PROVE  Story(s)'
<1> Parties /\ Clients /\ Clients'
  BY DEF Sound, Shapes
<1>1. /\ w \notin alive /\ hub' = hub \ Of(w) /\ CloseEntries(hub \intersect Of(w))
      /\ UNCHANGED <<open, gone, logged, known, tally, owed, up, down, logins, cut>>
  BY DEF Evict, edge, worker, wire, history
<1>2. s \notin Of(w)
  BY <1>1 DEF Of
<1>3. housed' \subseteq housed /\ QuietLedger(s) /\ entry'[s] = entry[s]
  BY <1>1, <1>2, CloseQuiet
<1>4. QuietHub(s)
  BY <1>1, <1>2, <1>3 DEF QuietHub
<1>5. QuietDoor(s) /\ QuietParty(s) /\ QuietWire(s)
  BY <1>1, WireStays DEF QuietDoor, QuietParty, QuietWire
<1> QED BY <1>3, <1>4, <1>5, StoryKept DEF Quiet, Sound

\* The entry of s goes, or is replaced.
LEMMA StoryCutShort ==
    ASSUME NEW s \in Sessions, Story(s), s \in cut', entry[s] # None,
           UNCHANGED <<open, gone, logged, up, hub>>
    PROVE  Story(s)'
<1>1. Talked(s)'
  BY TalkedKept, WireStays DEF Story
<1>2. NewHere(s)'
  BY DEF Story, NewHere, Fresh
<1> QED BY <1>1, <1>2, StoryCut

\* A grant adds to what is owned.
LEMMA GrantAdds ==
    ASSUME Books, LedgersHoused, NEW c \in Calls, NEW j \in Nat, j <= given + 1, ledger[c].job <= j, Grant(c, j)
    PROVE  /\ ledger[c] \in LedgerType /\ ledger'[c].job = j /\ Stays(ledger'[c], j, given')
           /\ \A i \in Nat : \A h : Stays(ledger[c], i, h) => Stays(ledger'[c], i, h)
           /\ given' \in 1 .. MaxGrants /\ j \in 0 .. MaxGrants
           /\ \A x \in Calls \ {c} : ledger'[x] = ledger[x]
<1>1. /\ given' \in 1 .. MaxGrants /\ j \in 0 .. MaxGrants
      /\ ledger[c] \in LedgerType /\ ledger'[c] = Record(ledger[c], j, given')
      /\ \A x \in Calls \ {c} : ledger'[x] = ledger[x]
  BY GrantTyped
<1>2. ledger'[c].job = j /\ Stays(ledger'[c], j, given')
  BY <1>1, RecordIs
<1>3. ASSUME NEW i \in Nat, NEW h, Stays(ledger[c], i, h) PROVE Stays(ledger'[c], i, h)
  BY <1>1, <1>3, RecordKeeps
<1> QED BY <1>1, <1>2, <1>3

\* A message from which the worker may learn, and what the ledger has then.
LEMMA ServingTold ==
    ASSUME Shapes, Clients', NEW s \in Sessions, Serving(s), QuietDoor(s), QuietHub(s),
           s \in logged' <=> s \in logged, known'[s] = known[s],
           \A L : SubsOK(up[Host[s]], s, L) => SubsOK(up'[Host[s]], s, L),
           NEW m \in DownOf(Host[s]), ToWorker(Host[s], m), For(m, s),
           NEW L \in LedgerType, NEW M,
           s \in hub \ cut /\ entry[s] \in housed =>
               /\ L = ledger[entry[s]] /\ M = ledger'[entry[s]]
               /\ \A j \in Nat : \A g : Stays(L, j, g) => Stays(M, j, g)
               /\ JobIn(m) # 0 => GrantIn(m) # 0 /\ Stays(M, JobIn(m), GrantIn(m))
               /\ JobIn(m) = 0 /\ GrantIn(m) # 0 => s \in logged /\ Stays(M, L.job, GrantIn(m))
               /\ \/ M.job = L.job /\ JobIn(m) \in {0, L.job}
                  \/ PushTo(m, s) /\ JobIn(m) = M.job
               /\ ReplyTo(m, s) /\ Good(m) => m.c # entry[s] /\ s \in logged
    PROVE  Serving(s)'
<1> Parties /\ Clients /\ Wires /\ Books
  BY DEF Shapes
<1> SUFFICES ASSUME s \in hub' \ cut', entry'[s] \in housed'
             PROVE  /\ SubsOK(up'[Host[s]], s, ledger'[entry'[s]])
                    /\ s \in open' => DownOK(down'[Host[s]], s, entry'[s], ledger'[entry'[s]], known'[s], logged')
  BY DEF Serving
<1>1. PICK e \in Calls : e = entry[s] /\ e = entry'[s] /\ e \in housed' /\ SessionOf(e) = s
  BY DEF QuietHub, Clients, Calls, None
<1>2. e \in housed /\ s \in hub \ cut
  BY <1>1 DEF QuietHub
<1>3. /\ L = ledger[e] /\ M = ledger'[e]
      /\ \A j \in Nat : \A g : Stays(L, j, g) => Stays(M, j, g)
      /\ JobIn(m) # 0 => GrantIn(m) # 0 /\ Stays(M, JobIn(m), GrantIn(m))
      /\ JobIn(m) = 0 /\ GrantIn(m) # 0 => s \in logged /\ Stays(M, L.job, GrantIn(m))
      /\ \/ M.job = L.job /\ JobIn(m) \in {0, L.job}
         \/ PushTo(m, s) /\ JobIn(m) = M.job
      /\ ReplyTo(m, s) /\ Good(m) => m.c # e /\ s \in logged
  BY <1>1, <1>2
<1>4. PICK u : u = up[Host[s]]
  OBVIOUS
<1>5. PICK kn \in LedgerType : kn = known[s]
  BY DEF Books
<1>6. SubsOK(u, s, L) /\ (s \in open => DownOK(down[Host[s]], s, e, L, kn, logged))
  BY <1>1, <1>2, <1>3, <1>4, <1>5 DEF Serving
<1>7. SubsOK(up'[Host[s]], s, M)
  <2>1. SubsOK(u, s, M)
    <3>1. ASSUME NEW i \in 1 .. Len(u), SubOf(u[i], s) PROVE Stays(M, u[i].job, u[i].g)
      <4>1. u[i] \in UpOf(Host[s])
        BY <1>4, SessionsAssumption DEF Wires
      <4>2. u[i].job \in Nat
        BY <3>1, <4>1, SessionsAssumption DEF SubOf, UpOf
      <4>3. Stays(L, u[i].job, u[i].g)
        BY <1>6, <3>1 DEF SubsOK
      <4> QED BY <1>3, <4>2, <4>3
    <3> QED BY <3>1 DEF SubsOK
  <2> QED BY <1>4, <2>1
<1>8. ASSUME s \in open' PROVE DownOK(down'[Host[s]], s, e, M, kn, logged')
  <2>1. s \in open /\ Host[s] \in alive /\ Host[s] \in Workers
    BY <1>8, SessionsAssumption DEF QuietDoor, Parties
  <2>2. PICK q, r : q = down[Host[s]] /\ r = down'[Host[s]]
    OBVIOUS
  <2>3. Grows(q, r, m)
    BY <2>1, <2>2, Told
  <2>4. DownOK(q, s, e, L, kn, logged)
    BY <1>6, <2>1, <2>2
  <2>5. JobIn(m) \in Nat /\ L.job \in Nat /\ kn.job \in Nat
    BY <2>1, DownSays, LedgerJob, SessionsAssumption
  <2>6. \A i \in 1 .. Len(q) : For(q[i], s) => JobIn(q[i]) \in Nat
    BY <2>1, <2>2, DownTyped
  <2>7. DownOK(r, s, e, M, kn, logged)
    <3>1. /\ For(m, s) /\ JobIn(m) # 0 => GrantIn(m) # 0 /\ Stays(M, JobIn(m), GrantIn(m))
          /\ For(m, s) /\ JobIn(m) = 0 /\ GrantIn(m) # 0 => s \in logged /\ Stays(M, L.job, GrantIn(m))
          /\ \/ M.job = L.job /\ (For(m, s) => JobIn(m) \in {0, L.job})
             \/ PushTo(m, s) /\ JobIn(m) = M.job
          /\ ReplyTo(m, s) /\ Good(m) => m.c # e /\ s \in logged
      BY <1>3
    <3>2. \A j \in Nat : \A g : Stays(L, j, g) => Stays(M, j, g)
      BY <1>3
    <3> QED BY <2>3, <2>4, <2>5, <2>6, <3>1, <3>2, DownGrows
  <2> QED BY <2>2, <2>7, DownIn
<1> QED BY <1>1, <1>3, <1>5, <1>7, <1>8

LEMMA AnswerSays ==
    ASSUME NEW c \in Calls, NEW r, NEW m, m = Answer(c, r)
    PROVE  /\ \A s : /\ For(m, s) <=> SessionOf(c) = s
                     /\ ReplyTo(m, s) <=> SessionOf(c) = s
                     /\ ~ PushTo(m, s)
           /\ JobIn(m) = r.job /\ GrantIn(m) = r.g /\ m.c = c /\ (Good(m) <=> r.ok)
           /\ r \in Answers => m \in DownOf(Host[SessionOf(c)])
<1>1. r \in Answers => m \in DownOf(Host[SessionOf(c)])
  BY CallHere, AnswerTyped
<1> QED BY <1>1 DEF Answer, For, ReplyTo, PushTo, JobIn, GrantIn, Good

LEMMA StoryHandleChunk ==
    ASSUME Sound, Shapes', NEW s \in Sessions, Story(s), NEW w \in Workers, HandleChunk(w)
    PROVE  Story(s)'
<1> Parties /\ Clients /\ Clients' /\ Wires /\ Books /\ Counts /\ Once /\ LedgersHoused
  BY DEF Sound, Shapes
<1>1. PICK m : m = Head(up[w])
  OBVIOUS
<1>2. PICK c, x : c = m.c /\ x = SessionOf(c)
  OBVIOUS
<1>3. /\ up[w] # <<>> /\ m.t = "chunk" /\ Taken(w) /\ hub' = hub \union {x}
      /\ GrantChunk(c) \/ RefuseChunk(c)
      /\ UNCHANGED <<open, gone, logged, known, tally, owed, entry, housed, logins, cut>>
  BY <1>1, <1>2 DEF HandleChunk, Arrived, edge, worker, history
<1>4. /\ Drops(up[w], up'[w]) /\ m = up[w][1] /\ m \in UpOf(w)
      /\ \A y \in Workers \ {w} : up'[y] = up[y]
      /\ \A y \in Sessions : ~ AccOf(m, y) => UpKept(up[Host[y]], up'[Host[y]], y)
  BY <1>1, <1>3, HeardFrom
<1>5. x \in Sessions /\ Host[x] = w /\ c \in Calls
  BY <1>2, <1>3, <1>4, UpSays
<1>6. UpKept(up[Host[s]], up'[Host[s]], s)
  BY <1>3, <1>4 DEF AccOf
<1>7. PICK e : e = entry[x]
  OBVIOUS
<1>8. e # None => e \in Calls /\ SessionOf(e) = x
  BY <1>5, <1>7 DEF Clients
<1>9. PICK a : a = Answer(c, a.r) /\ a.r \in Answers /\ ToWorker(Host[x], a)
               /\ \/ /\ e \in housed /\ Grant(e, ledger[e].job)
                     /\ a.r.job \in {0, ledger[e].job} /\ a.r.g = given'
                  \/ UNCHANGED ledger /\ a.r.job = 0 /\ a.r.g = 0
  <2>1. CASE GrantChunk(c)
    <3>1. PICK j \in {0, ledger[e].job} :
              e \in housed /\ Grant(e, ledger[e].job) /\ ToWorker(Host[x], Answer(c, Result(j, given')))
      BY <1>2, <1>7, <2>1 DEF GrantChunk
    <3>2. e \in Calls /\ SessionOf(e) = x
      BY <1>8, <3>1, NoneIsNoCall DEF Clients
    <3>3. ledger[e].job \in 0 .. MaxGrants /\ given' \in 0 .. MaxGrants
      <4>1. ledger[e].job \in Nat /\ ledger[e].job <= jobs[x] /\ jobs[x] <= given /\ jobs[x] \in Nat /\ given \in Nat
        BY <1>5, <3>2, LedgerJob DEF LedgersHoused, Books
      <4>2. ledger[e].job <= given + 1
        BY <4>1
      <4> QED BY <3>1, <3>2, <4>1, <4>2, GrantTyped
    <3>4. PICK r : r = Result(j, given')
      OBVIOUS
    <3>5. r \in Answers /\ r.job = j /\ r.g = given'
      BY <3>3, <3>4, ResultTyped, SessionsAssumption DEF Result
    <3>6. PICK a : a = Answer(c, r)
      OBVIOUS
    <3>7. a.r = r
      BY <3>6 DEF Answer
    <3> QED BY <3>1, <3>4, <3>5, <3>6, <3>7
  <2>2. CASE RefuseChunk(c)
    <3>1. PICK r \in {Failed, Result(0, 0)} : ToWorker(Host[x], Answer(c, r)) /\ UNCHANGED ledger
      BY <1>2, <1>7, <2>2 DEF RefuseChunk
    <3>2. r \in Answers /\ r.job = 0 /\ r.g = 0
      <4>1. 0 \in 0 .. MaxGrants
        BY SessionsAssumption
      <4>2. Result(0, 0) \in Answers /\ Failed \in Answers
        BY <4>1, ResultTyped, FailedTyped
      <4>3. r.job = 0 /\ r.g = 0
        BY <3>1 DEF Result, Failed
      <4> QED BY <3>1, <4>2, <4>3
    <3>3. PICK a : a = Answer(c, r)
      OBVIOUS
    <3>4. a.r = r
      BY <3>3 DEF Answer
    <3> QED BY <3>1, <3>2, <3>3, <3>4
  <2> QED BY <1>3, <2>1, <2>2
<1>10. /\ \A y : /\ For(a, y) <=> x = y
                 /\ ReplyTo(a, y) <=> x = y
                 /\ ~ PushTo(a, y)
       /\ JobIn(a) = a.r.job /\ GrantIn(a) = a.r.g /\ a.c = c /\ a \in DownOf(Host[x])
  BY <1>2, <1>5, <1>9, AnswerSays
<1>11. QuietDoor(s) /\ QuietParty(s)
  BY <1>3 DEF QuietDoor, QuietParty
<1>12. CASE s # x
  <2>1. QuietHub(s)
    BY <1>3, <1>12 DEF QuietHub
  <2>2. QuietLedger(s)
    <3>1. CASE UNCHANGED ledger
      BY <3>1 DEF QuietLedger
    <3>2. CASE e \in housed /\ Grant(e, ledger[e].job)
      <4>1. ASSUME entry[s] \in housed PROVE entry[s] # e /\ entry[s] \in Calls
        BY <1>7, <1>8, <1>12, <3>2, <4>1, NoneIsNoCall DEF Clients
      <4>2. ledger' = [ledger EXCEPT ![e] = Record(@, ledger[e].job, given')]
        BY <3>2 DEF Grant
      <4> QED BY <1>3, <4>1, <4>2 DEF QuietLedger, Books
    <3> QED BY <1>9, <3>1, <3>2
  <2>3. DownKept(down[Host[s]], down'[Host[s]], s)
    <3>1. Dull(a, s)
      BY <1>10, <1>12 DEF Dull
    <3> QED BY <1>5, <1>9, <1>10, <3>1, DownTold
  <2> QED BY <1>6, <1>11, <2>1, <2>2, <2>3, StoryKept DEF Quiet, QuietWire, Sound
<1>13. CASE s = x
  <2>1. PICK q, r : q = up[Host[s]] /\ r = up'[Host[s]]
    OBVIOUS
  <2>2. Drops(q, r) /\ ChunkOf(q[1], s) /\ Speaks(q[1], s)
    BY <1>2, <1>3, <1>4, <1>5, <1>13, <2>1 DEF ChunkOf, Speaks, CallOf
  <2>3. Chunks(q, s) /\ Talks(q, s)
    BY <2>2, HeadSays
  <2>4. s \in logged /\ ~ Blank(s)
    BY <2>1, <2>3 DEF Story, Talked, Blank
  <2>5. s \in hub
    BY <2>1, <2>3, <2>4 DEF Story, NewHere, Fresh
  <2>6. QuietHub(s)
    BY <1>3, <1>13, <2>5 DEF QuietHub
  <2>7. Talked(s)'
    BY <1>3, <2>1, <2>2, <2>5, TalkedHeard DEF Story
  <2>8. entry[s] # c
    <3>1. AsksOf(c) # {}
      <4>1. 1 \in Asks(q, c)
        <5>1. 1 \in 1 .. Len(q)
          BY <2>2, DropsHead
        <5> QED BY <1>2, <1>3, <1>4, <1>5, <1>13, <2>1, <5>1 DEF Asks
      <4> QED BY <1>2, <1>13, <2>1, <4>1 DEF AsksOf
    <3> QED BY <1>2, <1>5, <1>13, <3>1 DEF Once, OnceOf
  <2>9. Serving(s)'
    <3>1. PICK L : L = IF e \in Calls THEN ledger[e] ELSE NoLedger
      OBVIOUS
    <3>2. L \in LedgerType
      BY <3>1, NoLedgerTyped DEF Books
    <3>3. PICK M : M = ledger'[e]
      OBVIOUS
    <3>4. ASSUME entry[s] \in housed
          PROVE  /\ L = ledger[entry[s]] /\ M = ledger'[entry[s]]
                 /\ \A j \in Nat : \A g : Stays(L, j, g) => Stays(M, j, g)
                 /\ JobIn(a) # 0 => GrantIn(a) # 0 /\ Stays(M, JobIn(a), GrantIn(a))
                 /\ JobIn(a) = 0 /\ GrantIn(a) # 0 => s \in logged /\ Stays(M, L.job, GrantIn(a))
                 /\ M.job = L.job /\ JobIn(a) \in {0, L.job}
      <4>1. e \in Calls /\ e = entry[s] /\ L = ledger[e] /\ SessionOf(e) = x
        BY <1>7, <1>8, <1>13, <3>1, <3>4, NoneIsNoCall DEF Clients
      <4>2. CASE e \in housed /\ Grant(e, ledger[e].job) /\ a.r.job \in {0, ledger[e].job} /\ a.r.g = given'
        <5>1. ledger[e].job \in Nat /\ ledger[e].job <= given + 1
          <6>1. ledger[e].job \in Nat /\ ledger[e].job <= jobs[x] /\ jobs[x] <= given /\ jobs[x] \in Nat /\ given \in Nat
            BY <1>5, <4>1, LedgerJob DEF LedgersHoused, Books
          <6> QED BY <6>1
        <5>2. PICK j : j = ledger[e].job
          OBVIOUS
        <5>3. /\ ledger'[e].job = j /\ Stays(ledger'[e], j, given')
              /\ \A i \in Nat : \A h : Stays(ledger[e], i, h) => Stays(ledger'[e], i, h)
              /\ given' \in 1 .. MaxGrants
          BY <4>1, <4>2, <5>1, <5>2, GrantAdds
        <5>4. given' # 0 /\ JobIn(a) \in {0, j} /\ GrantIn(a) = given'
          BY <1>10, <4>2, <5>2, <5>3
        <5> QED BY <2>4, <3>3, <4>1, <5>2, <5>3, <5>4
      <4>3. CASE UNCHANGED ledger /\ a.r.job = 0 /\ a.r.g = 0
        BY <1>10, <3>3, <4>1, <4>3
      <4> QED BY <1>9, <4>2, <4>3
    <3>5. ReplyTo(a, s) /\ Good(a) => a.c # entry[s] /\ s \in logged
      BY <1>10, <2>4, <2>8
    <3>6. s \in hub \ cut /\ entry[s] \in housed =>
              /\ L = ledger[entry[s]] /\ M = ledger'[entry[s]]
              /\ \A j \in Nat : \A g : Stays(L, j, g) => Stays(M, j, g)
              /\ JobIn(a) # 0 => GrantIn(a) # 0 /\ Stays(M, JobIn(a), GrantIn(a))
              /\ JobIn(a) = 0 /\ GrantIn(a) # 0 => s \in logged /\ Stays(M, L.job, GrantIn(a))
              /\ \/ M.job = L.job /\ JobIn(a) \in {0, L.job}
                 \/ PushTo(a, s) /\ JobIn(a) = M.job
              /\ ReplyTo(a, s) /\ Good(a) => a.c # entry[s] /\ s \in logged
      BY <3>4, <3>5
    <3>7. \A K : SubsOK(up[Host[s]], s, K) => SubsOK(up'[Host[s]], s, K)
      BY <1>6 DEF UpKept
    <3>8. a \in DownOf(Host[s]) /\ ToWorker(Host[s], a) /\ For(a, s)
      BY <1>9, <1>10, <1>13
    <3>9. (s \in logged' <=> s \in logged) /\ known'[s] = known[s] /\ Serving(s) /\ Shapes
      BY <1>3 DEF Story, Sound
    <3> QED BY <1>11, <2>6, <3>2, <3>6, <3>7, <3>8, <3>9, ServingTold
  <2>10. Accounted(s)'
    <3>1. InFlight(s)' = InFlight(s)
      BY <1>6 DEF InFlight, UpKept
    <3> QED BY <1>3, <1>13, <2>5, <3>1 DEF Story, Accounted
  <2> QED BY <2>4, <2>5, <2>6, <2>7, <2>9, <2>10, GoesOn
<1> QED BY <1>12, <1>13

LEMMA StoryNewJob ==
    ASSUME Sound, Shapes', NEW s \in Sessions, Story(s), NEW c \in Calls, NewJob(c)
    PROVE  Story(s)'
<1> Parties /\ Clients /\ Clients' /\ Wires /\ Books /\ Counts /\ Once /\ LedgersHoused
  BY DEF Sound, Shapes
<1>1. PICK x \in Sessions, j \in Nat : x = SessionOf(c) /\ j = jobs[x] + 1
  BY CallIsSome DEF Books
<1>2. /\ c \in housed /\ Grant(c, j) /\ ToWorker(Host[x], Job(x, Result(j, given')))
      /\ UNCHANGED <<open, gone, logged, known, tally, owed, up, hub, entry, housed, logins, cut>>
  BY <1>1 DEF NewJob, edge, worker, history
<1>3. /\ ledger[c] \in LedgerType /\ ledger'[c].job = j /\ Stays(ledger'[c], j, given')
      /\ \A i \in Nat : \A h : Stays(ledger[c], i, h) => Stays(ledger'[c], i, h)
      /\ given' \in 1 .. MaxGrants /\ j \in 1 .. MaxGrants
      /\ \A y \in Calls \ {c} : ledger'[y] = ledger[y]
  <2>1. jobs[x] \in Nat /\ jobs[x] <= given /\ given \in Nat /\ ledger[c].job <= jobs[x] /\ ledger[c].job \in Nat
    BY <1>1, LedgerJob DEF Books, LedgersHoused
  <2>2. j \in Nat /\ j <= given + 1 /\ ledger[c].job <= j /\ j >= 1
    BY <1>1, <2>1
  <2>3. /\ ledger[c] \in LedgerType /\ ledger'[c].job = j /\ Stays(ledger'[c], j, given')
        /\ \A i \in Nat : \A h : Stays(ledger[c], i, h) => Stays(ledger'[c], i, h)
        /\ given' \in 1 .. MaxGrants /\ j \in 0 .. MaxGrants
        /\ \A y \in Calls \ {c} : ledger'[y] = ledger[y]
    BY <1>2, <2>2, GrantAdds
  <2> QED BY <2>2, <2>3
<1>4. PICK r : r = Result(j, given')
  OBVIOUS
<1>5. r \in Pushes /\ r.job = j /\ r.g = given'
  <2>1. j \in 0 .. MaxGrants /\ given' \in 0 .. MaxGrants /\ j # 0 /\ given' # 0
    BY <1>3
  <2>2. r \in Pushes
    BY <1>4, <2>1, ResultTyped
  <2> QED BY <1>4, <2>2 DEF Result
<1>6. PICK a : a = Job(x, r)
  OBVIOUS
<1>7. /\ a \in DownOf(Host[x]) /\ ToWorker(Host[x], a)
      /\ \A y : PushTo(a, y) <=> x = y
      /\ \A y : ~ ReplyTo(a, y)
      /\ \A y : For(a, y) <=> x = y
      /\ JobIn(a) = j /\ GrantIn(a) = given' /\ Host[x] \in Workers
  <2>1. a \in DownOf(Host[x]) /\ Host[x] \in Workers
    BY <1>5, <1>6, JobTyped, SessionsAssumption
  <2>2. ToWorker(Host[x], a)
    BY <1>2, <1>4, <1>6
  <2> QED BY <1>5, <1>6, <2>1, <2>2 DEF Job, For, ReplyTo, PushTo, JobIn, GrantIn
<1>8. QuietDoor(s) /\ QuietParty(s) /\ QuietHub(s) /\ UpKept(up[Host[s]], up'[Host[s]], s)
  BY <1>2, WireStays DEF QuietDoor, QuietParty, QuietHub
<1>9. CASE s # x
  <2>1. QuietLedger(s)
    <3>1. ASSUME entry[s] \in housed PROVE entry[s] \in Calls \ {c}
      BY <1>1, <1>9, <3>1, NoneIsNoCall DEF Clients
    <3> QED BY <1>2, <1>3, <3>1 DEF QuietLedger
  <2>2. DownKept(down[Host[s]], down'[Host[s]], s)
    <3>1. Dull(a, s)
      BY <1>7, <1>9 DEF Dull
    <3> QED BY <1>7, <3>1, DownTold
  <2> QED BY <1>8, <2>1, <2>2, StoryKept DEF Quiet, QuietWire, Sound
<1>10. CASE s = x
  <2>1. Talked(s)'
    BY <1>2, TalkedKept, WireStays DEF Story
  <2>2. NewHere(s)'
    BY <1>1, <1>2, <1>10 DEF Story, NewHere, Fresh
  <2>3. s \in hub \ cut => c = entry[s]
    BY <1>1, <1>2, <1>10 DEF Story, OneClient
  <2>4. LoggingIn(s)'
    <3>1. ASSUME NEW l \in logins, l.who = c PROVE FALSE
      <4>1. l \in Awaits(c)
        BY <3>1 DEF Awaits
      <4> QED BY <1>2, <4>1 DEF Once, OnceOf
    <3>2. c # None
      BY CallIsSome
    <3> QED BY <1>2, <2>3, <3>1, <3>2 DEF LoggingIn
  <2>5. OneClient(s)'
    BY <1>2 DEF Story, OneClient, SessionOf
  <2>6. Serving(s)'
    <3>1. PICK L, M : L = ledger[c] /\ M = ledger'[c]
      OBVIOUS
    <3>2. /\ L \in LedgerType /\ M.job = j /\ Stays(M, j, given')
          /\ \A i \in Nat : \A h : Stays(L, i, h) => Stays(M, i, h)
          /\ j # 0 /\ given' # 0
      BY <1>3, <3>1
    <3>3. s \in hub \ cut /\ entry[s] \in housed =>
              /\ L = ledger[entry[s]] /\ M = ledger'[entry[s]]
              /\ \A i \in Nat : \A h : Stays(L, i, h) => Stays(M, i, h)
              /\ JobIn(a) # 0 => GrantIn(a) # 0 /\ Stays(M, JobIn(a), GrantIn(a))
              /\ JobIn(a) = 0 /\ GrantIn(a) # 0 => s \in logged /\ Stays(M, L.job, GrantIn(a))
              /\ \/ M.job = L.job /\ JobIn(a) \in {0, L.job}
                 \/ PushTo(a, s) /\ JobIn(a) = M.job
              /\ ReplyTo(a, s) /\ Good(a) => a.c # entry[s] /\ s \in logged
      BY <1>7, <1>10, <2>3, <3>1, <3>2
    <3>4. \A K : SubsOK(up[Host[s]], s, K) => SubsOK(up'[Host[s]], s, K)
      BY <1>8 DEF UpKept
    <3>5. a \in DownOf(Host[s]) /\ ToWorker(Host[s], a) /\ For(a, s)
      BY <1>7, <1>10
    <3>6. (s \in logged' <=> s \in logged) /\ known'[s] = known[s] /\ Serving(s) /\ Shapes
      BY <1>2 DEF Story, Sound
    <3> QED BY <1>8, <3>2, <3>3, <3>4, <3>5, <3>6, ServingTold
  <2>7. Accounted(s)'
    <3>1. InFlight(s)' = InFlight(s)
      BY <1>8 DEF InFlight, UpKept
    <3> QED BY <1>2, <3>1 DEF Story, Accounted
  <2> QED BY <2>1, <2>2, <2>4, <2>5, <2>6, <2>7 DEF Story
<1> QED BY <1>9, <1>10

\* An answer that fails a login.
LEMMA FailedDown ==
    ASSUME Wires, NEW l \in Logins, Settled(l, Failed), NEW s \in Sessions
    PROVE  DownKept(down[Host[s]], down'[Host[s]], s) /\ logins' \subseteq logins
<1>1. PICK a : a = Answer(l.who, Failed)
  OBVIOUS
<1>2. l.who \in Calls /\ Failed \in Answers /\ Host[SessionOf(l.who)] \in Workers
  BY WhoIs, FailedTyped, CallHere
<1>3. /\ \A y : /\ For(a, y) <=> SessionOf(l.who) = y
                /\ ReplyTo(a, y) <=> SessionOf(l.who) = y
                /\ ~ PushTo(a, y)
      /\ JobIn(a) = Failed.job /\ GrantIn(a) = Failed.g /\ (Good(a) <=> Failed.ok)
      /\ a \in DownOf(Host[SessionOf(l.who)])
  BY <1>1, <1>2, AnswerSays
<1>4. Dull(a, s)
  BY <1>3 DEF Dull, Failed
<1>5. ToWorker(Host[SessionOf(l.who)], a) /\ logins' = logins \ {l}
  BY <1>1 DEF Settled
<1> QED BY <1>2, <1>3, <1>4, <1>5, DownTold

LEMMA StoryFails ==
    ASSUME Sound, Shapes', NEW s \in Sessions, Story(s), NEW l \in Logins,
           Refused(l) \/ Superseded(l) \/ AttachFails(l)
    PROVE  Story(s)'
<1> Parties /\ Clients /\ Clients' /\ Wires /\ Books /\ Counts
  BY DEF Sound, Shapes
<1>1. PICK c \in Calls : c = l.who
  BY WhoIs
<1>2. /\ Settled(l, Failed)
      /\ UNCHANGED <<open, gone, logged, known, tally, owed, up, hub>>
      /\ Detach({c}) \/ UNCHANGED <<housed, ledger>>
      /\ \/ entry[SessionOf(c)] = c /\ entry' = [entry EXCEPT ![SessionOf(c)] = None] /\ cut' = cut \union {SessionOf(c)}
         \/ UNCHANGED <<entry, cut>>
  BY <1>1 DEF Refused, Superseded, AttachFails, edge, worker, backend, history
<1>3. DownKept(down[Host[s]], down'[Host[s]], s) /\ logins' \subseteq logins
  BY <1>2, FailedDown
<1>4. QuietDoor(s) /\ QuietParty(s) /\ QuietWire(s)
  BY <1>2, <1>3, WireStays DEF QuietDoor, QuietParty, QuietWire
<1>5. CASE s = SessionOf(c) /\ entry[s] = c /\ cut' = cut \union {s}
  BY <1>1, <1>2, <1>5, CallIsSome, StoryCutShort
<1>6. CASE (s \in cut' <=> s \in cut) /\ entry'[s] = entry[s]
  <2>1. housed' \subseteq housed /\ QuietLedger(s)
    BY <1>2, DetachQuiet DEF QuietLedger
  <2>2. QuietHub(s)
    BY <1>2, <1>3, <1>6, <2>1 DEF QuietHub
  <2> QED BY <1>4, <2>1, <2>2, StoryKept DEF Quiet, Sound
<1> QED BY <1>2, <1>5, <1>6 DEF Clients

LEMMA StoryResolved ==
    ASSUME Sound, Shapes', NEW s \in Sessions, Story(s), NEW l \in Logins, Resolved(l)
    PROVE  Story(s)'
<1> Parties /\ Clients /\ Clients' /\ Wires /\ Books /\ Counts
  BY DEF Sound, Shapes
<1>1. PICK c \in Calls, x \in Sessions : c = l.who /\ x = SessionOf(c)
  BY WhoIs, CallIsSome
<1>2. /\ l \in logins /\ entry' = [entry EXCEPT ![x] = c]
      /\ cut' = IF entry[x] # None THEN cut \union {x} ELSE cut
      /\ logins' = (logins \ {l}) \union {[l EXCEPT !.at = "attach"]}
      /\ UNCHANGED <<open, gone, logged, known, tally, owed, up, down, hub, housed, ledger>>
  BY <1>1 DEF Resolved, edge, worker, wire
<1>3. \A k \in logins' : \E n \in logins : n.who = k.who
  BY <1>1, <1>2 DEF Logins
<1>4. QuietDoor(s) /\ QuietParty(s) /\ QuietWire(s)
  BY <1>2, WireStays DEF QuietDoor, QuietParty, QuietWire
<1>5. CASE s # x
  <2>1. QuietHub(s) /\ QuietLedger(s)
    BY <1>2, <1>3, <1>5 DEF QuietHub, QuietLedger, Clients
  <2> QED BY <1>4, <2>1, StoryKept DEF Quiet, Sound
<1>6. CASE s = x
  <2>1. CASE entry[s] # None
    BY <1>2, <1>6, <2>1, StoryCutShort
  <2>2. CASE entry[s] = None
    <3>1. cut' = cut /\ entry'[s] = c
      BY <1>2, <1>6, <2>2 DEF Clients
    <3>2. Talked(s)'
      BY <1>2, TalkedKept, WireStays DEF Story
    <3>3. NewHere(s)'
      BY <1>1, <1>2, <1>6 DEF Story, NewHere, Fresh
    <3>4. LoggingIn(s)'
      <4>1. Blank(s) => Blank(s)'
        BY <1>4, BlankKept
      <4> QED BY <1>2, <2>2, <3>1, <4>1 DEF Story, LoggingIn
    <3>5. s \in hub \ cut => \A d \in housed : SessionOf(d) # s
      BY <2>2, NoneIsNoCall DEF Story, OneClient, Clients
    <3>6. OneClient(s)'
      BY <1>2, <3>1, <3>5 DEF OneClient, SessionOf
    <3>7. Serving(s)'
      BY <1>1, <1>2, <1>6, <3>1, <3>5 DEF Serving
    <3>8. Accounted(s)'
      <4>1. InFlight(s)' = InFlight(s)
        BY <1>2 DEF InFlight
      <4> QED BY <1>2, <3>1, <4>1 DEF Story, Accounted
    <3> QED BY <3>2, <3>3, <3>4, <3>6, <3>7, <3>8 DEF Story
  <2> QED BY <2>1, <2>2
<1> QED BY <1>5, <1>6

LEMMA StoryDrop ==
    ASSUME Sound, Shapes', NEW s \in Sessions, Story(s), NEW c, Drop(c)
    PROVE  Story(s)'
<1> Clients /\ Clients'
  BY DEF Sound, Shapes
<1>1. /\ Detach({c})
      /\ UNCHANGED <<open, gone, logged, known, tally, owed, up, down, hub, entry, logins, cut>>
  BY DEF Drop, edge, worker, wire, history
<1>2. housed' \subseteq housed /\ QuietLedger(s)
  BY <1>1, DetachQuiet
<1>3. QuietDoor(s) /\ QuietParty(s) /\ QuietHub(s) /\ QuietWire(s)
  BY <1>1, <1>2, WireStays DEF QuietDoor, QuietParty, QuietHub, QuietWire
<1> QED BY <1>2, <1>3, StoryKept DEF Quiet, Sound

LEMMA StoryReset ==
    ASSUME Sound, Shapes', NEW s \in Sessions, Story(s), Reset
    PROVE  Story(s)'
<1> Clients /\ Clients'
  BY DEF Sound, Shapes
<1>1. PICK S : S = {x \in Sessions : entry[x] # None}
  OBVIOUS
<1>2. /\ CloseEntries(S) /\ cut' = cut \union S
      /\ UNCHANGED <<open, gone, logged, known, tally, owed, up, down, hub, logins>>
  BY <1>1 DEF Reset, edge, worker, wire
<1>3. CASE entry[s] # None
  BY <1>1, <1>2, <1>3, StoryCutShort
<1>4. CASE entry[s] = None
  <2>1. housed' \subseteq housed /\ QuietLedger(s) /\ entry'[s] = IF s \in S THEN None ELSE entry[s]
    BY <1>2, CloseQuiet
  <2>2. QuietDoor(s) /\ QuietParty(s) /\ QuietHub(s) /\ QuietWire(s)
    BY <1>1, <1>2, <1>4, <2>1, WireStays DEF QuietDoor, QuietParty, QuietHub, QuietWire
  <2> QED BY <2>1, <2>2, StoryKept DEF Quiet, Sound
<1> QED BY <1>3, <1>4

\* A login has come to its end: the client is housed, and its worker is told.
LEMMA StoryAttached ==
    ASSUME Sound, Shapes', NEW s \in Sessions, Story(s), NEW l \in Logins, Attached(l)
    PROVE  Story(s)'
<1> Parties /\ Clients /\ Clients' /\ Wires /\ Books /\ Books' /\ Counts /\ Once /\ LedgersHoused
  BY DEF Sound, Shapes
<1>1. PICK c \in Calls, x \in Sessions : c = l.who /\ x = SessionOf(c)
  BY WhoIs, CallIsSome
<1>2. PICK j \in {jobs[x], jobs[x] + 1} \ {0} :
          /\ Grant(c, j) /\ housed' = housed \union {c} /\ Settled(l, Result(j, given'))
          /\ l \in logins /\ entry[x] = c
          /\ UNCHANGED <<open, gone, logged, known, tally, owed, up, hub, entry, cut>>
  BY <1>1 DEF Attached, edge, worker, history
<1>3. Awaits(c) # {} /\ AtMostOne(Awaits(c)) /\ c \notin housed
  <2>1. l \in Awaits(c)
    BY <1>1, <1>2 DEF Awaits
  <2> QED BY <2>1 DEF Once, OnceOf
<1>4. /\ ledger'[c].job = j /\ Stays(ledger'[c], j, given')
      /\ given' \in 1 .. MaxGrants /\ j \in 1 .. MaxGrants
      /\ \A y \in Calls \ {c} : ledger'[y] = ledger[y]
  <2>1. jobs[x] \in Nat /\ jobs[x] <= given /\ given \in Nat /\ ledger[c].job <= jobs[x] /\ ledger[c].job \in Nat
    BY <1>1, LedgerJob DEF Books, LedgersHoused
  <2>2. j \in Nat /\ j <= given + 1 /\ ledger[c].job <= j /\ j >= 1
    BY <2>1
  <2>3. /\ ledger[c] \in LedgerType /\ ledger'[c].job = j /\ Stays(ledger'[c], j, given')
        /\ \A i \in Nat : \A h : Stays(ledger[c], i, h) => Stays(ledger'[c], i, h)
        /\ given' \in 1 .. MaxGrants /\ j \in 0 .. MaxGrants
        /\ \A y \in Calls \ {c} : ledger'[y] = ledger[y]
    BY <1>2, <2>2, GrantAdds
  <2> QED BY <2>2, <2>3
<1>5. PICK r : r = Result(j, given')
  OBVIOUS
<1>6. r \in Answers /\ r.job = j /\ r.g = given'
  <2>1. j \in 0 .. MaxGrants /\ given' \in 0 .. MaxGrants
    BY <1>4
  <2>2. r \in Answers
    BY <1>5, <2>1, ResultTyped
  <2> QED BY <1>5, <2>2 DEF Result
<1>7. PICK a : a = Answer(c, r)
  OBVIOUS
<1>8. /\ \A y : /\ For(a, y) <=> x = y
                /\ ReplyTo(a, y) <=> x = y
                /\ ~ PushTo(a, y)
      /\ JobIn(a) = j /\ GrantIn(a) = given' /\ a.c = c /\ a \in DownOf(Host[x]) /\ Host[x] \in Workers
  BY <1>1, <1>6, <1>7, AnswerSays, SessionsAssumption
<1>9. ToWorker(Host[x], a) /\ logins' = logins \ {l}
  BY <1>1, <1>2, <1>5, <1>7 DEF Settled
<1>10. QuietDoor(s) /\ QuietParty(s) /\ UpKept(up[Host[s]], up'[Host[s]], s)
  BY <1>2, WireStays DEF QuietDoor, QuietParty
<1>11. CASE s # x
  <2>1. QuietHub(s)
    BY <1>1, <1>2, <1>9, <1>11 DEF QuietHub
  <2>2. QuietLedger(s)
    <3>1. ASSUME entry[s] \in housed' PROVE entry[s] \in Calls \ {c}
      BY <1>1, <1>2, <1>11, <3>1, NoneIsNoCall DEF Clients
    <3> QED BY <1>4, <3>1 DEF QuietLedger
  <2>3. DownKept(down[Host[s]], down'[Host[s]], s)
    <3>1. Dull(a, s)
      BY <1>8, <1>11 DEF Dull
    <3> QED BY <1>8, <1>9, <3>1, DownTold
  <2> QED BY <1>10, <2>1, <2>2, <2>3, StoryKept DEF Quiet, QuietWire, Sound
<1>12. CASE s = x
  <2>1. entry[s] = c /\ c # None
    BY <1>2, <1>12, CallIsSome
  <2>2. Talked(s)'
    BY <1>2, TalkedKept, WireStays DEF Story
  <2>3. NewHere(s)'
    BY <1>2, <2>1 DEF Story, NewHere, Fresh
  <2>4. LoggingIn(s)'
    <3>1. ASSUME NEW k \in logins', k.who = c PROVE FALSE
      <4>1. k \in Awaits(c) /\ l \in Awaits(c) /\ k # l
        BY <1>1, <1>2, <1>9, <3>1 DEF Awaits
      <4> QED BY <1>3, <4>1 DEF AtMostOne
    <3> QED BY <1>2, <2>1, <3>1 DEF LoggingIn
  <2>5. OneClient(s)'
    BY <1>2, <2>1 DEF Story, OneClient, SessionOf
  <2>6. Serving(s)'
    <3> SUFFICES ASSUME s \in hub' \ cut', entry'[s] \in housed'
                 PROVE  /\ SubsOK(up'[Host[s]], s, ledger'[entry'[s]])
                        /\ s \in open' => DownOK(down'[Host[s]], s, entry'[s], ledger'[entry'[s]], known'[s], logged')
      BY DEF Serving
    <3>1. Blank(s)
      BY <1>1, <1>2, <2>1 DEF Story, LoggingIn
    <3>2. PICK L : L = ledger'[c]
      OBVIOUS
    <3>3. SubsOK(up'[Host[s]], s, L)
      BY <1>2, <3>1 DEF Blank, BlankUp, SubsOK
    <3>4. ASSUME s \in open' PROVE DownOK(down'[Host[s]], s, c, L, known'[s], logged')
      <4>1. Host[s] \in alive
        BY <1>2, <3>4 DEF Parties
      <4>2. PICK q, n : q = down[Host[s]] /\ n = down'[Host[s]]
        OBVIOUS
      <4>3. Grows(q, n, a)
        BY <1>8, <1>9, <1>12, <4>1, <4>2, Told
      <4>4. PICK kn : kn = known[s]
        OBVIOUS
      <4>5. BlankDown(q, s) /\ kn.last = {} /\ s \notin logged
        BY <3>1, <4>2, <4>4 DEF Blank, NoLedger
      <4>6. /\ ReplyTo(a, s) /\ ~ PushTo(a, s) /\ a.c = c /\ JobIn(a) = L.job /\ JobIn(a) # 0 /\ GrantIn(a) # 0
            /\ Stays(L, JobIn(a), GrantIn(a))
        BY <1>4, <1>8, <1>12, <3>2
      <4>7. DownOK(n, s, c, L, kn, logged)
        BY <4>3, <4>5, <4>6, DownStarts
      <4> QED BY <1>2, <4>2, <4>4, <4>7
    <3> QED BY <1>2, <2>1, <3>2, <3>3, <3>4
  <2>7. Accounted(s)'
    <3>1. InFlight(s)' = InFlight(s)
      BY <1>2 DEF InFlight
    <3> QED BY <1>2, <3>1 DEF Story, Accounted
  <2> QED BY <2>2, <2>3, <2>4, <2>5, <2>6, <2>7 DEF Story
<1> QED BY <1>11, <1>12

LEMMA AliveDrops ==
    ASSUME [Next]_vars
    PROVE  alive' \subseteq alive
<1>1. CASE \E w \in Workers : Die(w)
  BY <1>1 DEF Die
<1>2. CASE ~ \E w \in Workers : Die(w)
  <2>1. CASE UNCHANGED vars
    BY <2>1 DEF vars
  <2>2. CASE \E s \in Sessions : Connect(s) \/ AskLogin(s) \/ AskChunk(s) \/ Close(s)
    BY <2>2 DEF Connect, AskLogin, AskChunk, Ask, Close
  <2>3. CASE \E s \in Sessions, g \in 1 .. MaxGrants : Submit(s, g)
    BY <2>3 DEF Submit
  <2>4. CASE \E w \in Workers : Flush(w) \/ Answered(w) \/ Pushed(w)
    BY <2>4 DEF Flush, Answered, Pushed
  <2>5. CASE \E c \in Calls : Expire(c) \/ NewJob(c) \/ Drop(c)
    BY <2>5 DEF Expire, NewJob, Drop
  <2>6. CASE \E w \in Workers : \/ HandleLogin(w) \/ HandleChunk(w) \/ HandleSub(w)
                                \/ HandleAcc(w) \/ HandleBye(w) \/ Evict(w)
    BY <2>6 DEF HandleLogin, HandleChunk, HandleSub, HandleAcc, HandleBye, Evict
  <2>7. CASE \E l \in Logins : Refused(l) \/ Resolved(l) \/ AttachFails(l) \/ Attached(l) \/ Superseded(l)
    BY <2>7 DEF Refused, Resolved, AttachFails, Attached, Superseded
  <2>8. CASE Reset
    BY <2>8 DEF Reset
  <2> QED BY <1>2, <2>1, <2>2, <2>3, <2>4, <2>5, <2>6, <2>7, <2>8 DEF Next
<1> QED BY <1>1, <1>2

LEMMA StoriesStep ==
    ASSUME Sound, Stories, Shapes', [Next]_vars
    PROVE  Stories'
<1> SUFFICES ASSUME NEW s \in Sessions, Host[s] \in alive' PROVE Story(s)'
  BY DEF Stories
<1>1. Host[s] \in alive /\ Story(s)
  BY AliveDrops DEF Stories
<1>2. CASE UNCHANGED vars
  <2>1. UNCHANGED <<open, gone, logged, known, tally, owed, up, down, hub, entry, housed, ledger, logins, cut>>
    BY <1>2 DEF vars, edge, worker, wire, backend, history
  <2>2. QuietDoor(s) /\ QuietParty(s) /\ QuietHub(s) /\ QuietLedger(s) /\ QuietWire(s)
    BY <2>1, WireStays DEF QuietDoor, QuietParty, QuietHub, QuietLedger, QuietWire
  <2> QED BY <1>1, <2>2, StoryKept DEF Quiet, Sound, Shapes
<1>3. CASE \E x \in Sessions : Connect(x) \/ AskLogin(x) \/ AskChunk(x) \/ Close(x)
  BY <1>1, <1>3, StoryConnect, StoryAsk, StoryClose
<1>4. CASE \E x \in Sessions, g \in 1 .. MaxGrants : Submit(x, g)
  BY <1>1, <1>4, StorySubmit
<1>5. CASE \E w \in Workers : Flush(w) \/ Answered(w) \/ Pushed(w) \/ Die(w)
  BY <1>1, <1>5, StoryFlush, StoryAnswered, StoryPushed, StoryDie
<1>6. CASE \E c \in Calls : Expire(c) \/ NewJob(c) \/ Drop(c)
  BY <1>1, <1>6, StoryExpire, StoryNewJob, StoryDrop
<1>7. CASE \E w \in Workers : \/ HandleLogin(w) \/ HandleChunk(w) \/ HandleSub(w)
                              \/ HandleAcc(w) \/ HandleBye(w) \/ Evict(w)
  BY <1>1, <1>7, StoryHandleLogin, StoryHandleChunk, StoryHandleSub, StoryHandleAcc, StoryHandleBye, StoryEvict
<1>8. CASE \E l \in Logins : Refused(l) \/ Resolved(l) \/ AttachFails(l) \/ Attached(l) \/ Superseded(l)
  BY <1>1, <1>8, StoryFails, StoryResolved, StoryAttached
<1>9. CASE Reset
  BY <1>1, <1>9, StoryReset
<1> QED BY <1>2, <1>3, <1>4, <1>5, <1>6, <1>7, <1>8, <1>9 DEF Next

SInv == Sound /\ Stories

LEMMA SoundStep ==
    ASSUME SInv, [Next]_vars
    PROVE  SInv'
<1> Sound /\ Stories /\ Shapes /\ Owes /\ Once /\ LedgersHoused
  BY DEF SInv, Sound
<1>1. Shapes' /\ Owes'
  BY ShapesStep
<1>2. Once'
  <2>1. Parties'
    BY <1>1 DEF Shapes
  <2>2. \A c \in Calls : OnceOf(c)'
    BY <2>1, OnceStep
  <2> QED BY <2>2 DEF Once
<1>3. LedgersHoused'
  BY LedgersStep
<1>4. Stories'
  BY <1>1, StoriesStep
<1> QED BY <1>1, <1>2, <1>3, <1>4 DEF SInv, Sound

LEMMA SoundInit == Init => SInv
<1> SUFFICES ASSUME Init PROVE SInv
  OBVIOUS
<1>1. \A w \in Workers : up[w] = <<>> /\ down[w] = <<>>
  BY DEF Init
<1>2. Len(<<>>) = 0 /\ \A S : <<>> \in Seq(S)
  OBVIOUS
<1>3. \A s \in Sessions : Host[s] \in Workers /\ Len(up[Host[s]]) = 0 /\ Len(down[Host[s]]) = 0
  BY <1>1, <1>2, SessionsAssumption
<1>4. Shapes
  <2>1. Parties
    BY SessionsAssumption DEF Init, Parties
  <2>2. Books
    BY NoLedgerTyped, SessionsAssumption DEF Init, Books
  <2>3. Counts
    BY DEF Init, Counts
  <2>4. Wires
    BY <1>2 DEF Init, Wires
  <2>5. Clients
    BY DEF Init, Clients
  <2> QED BY <2>1, <2>2, <2>3, <2>4, <2>5 DEF Shapes
<1>5. \A s \in Sessions : InFlight(s) = 0
  <2>1. ASSUME NEW s \in Sessions PROVE InFlight(s) = 0
    <3>1. PICK q : q = up[Host[s]]
      OBVIOUS
    <3>2. Len(q) \in Nat /\ \A i \in 1 .. Len(q) : Shares(q[i], s) = 0
      BY <1>3, <3>1
    <3>3. Cardinality(Tallied(q, s)) = 0
      BY <3>2, NoneTallied
    <3> QED BY <3>1, <3>3 DEF InFlight
  <2> QED BY <2>1
<1>6. Owes
  BY <1>5, SessionsAssumption DEF Init, Owes
<1>7. Once
  <2>1. ASSUME NEW c \in Calls PROVE OnceOf(c)
    <3>1. AsksOf(c) = {} /\ RepliesOf(c) = {}
      BY <1>3, CallIsSome DEF AsksOf, RepliesOf, Asks, Replies
    <3>2. Awaits(c) = {} /\ c \notin live /\ c \notin calls /\ entry[SessionOf(c)] # c
      BY CallIsSome DEF Init, Awaits
    <3> QED BY <3>1, <3>2 DEF OnceOf, AtMostOne
  <2> QED BY <2>1 DEF Once
<1>8. LedgersHoused
  BY CallIsSome DEF Init, LedgersHoused, NoLedger
<1>9. Stories
  <2>1. ASSUME NEW s \in Sessions PROVE Story(s)
    <3>1. /\ ByeLast(up[Host[s]], s) /\ ~ ByeSent(up[Host[s]], s) /\ ~ Talks(up[Host[s]], s)
          /\ ~ Chunks(up[Host[s]], s) /\ BlankUp(up[Host[s]], s) /\ BlankDown(down[Host[s]], s)
      BY <1>3 DEF ByeLast, ByeSent, Talks, Chunks, BlankUp, BlankDown
    <3>2. /\ entry[s] = None /\ s \notin hub /\ s \notin logged /\ known[s] = NoLedger
          /\ tally[s] = 0 /\ owed[s] = 0 /\ housed = {} /\ logins = {}
      BY DEF Init
    <3>3. Fresh(s)
      BY <3>1, <3>2 DEF Fresh, Blank
    <3> QED BY <1>5, <3>1, <3>2, <3>3 DEF Story, Talked, NewHere, LoggingIn, OneClient, Serving, Accounted
  <2> QED BY <2>1 DEF Stories
<1> QED BY <1>4, <1>6, <1>7, <1>8, <1>9 DEF SInv, Sound

\* What the three theorems rest on holds of every state.
LEMMA SoundAlways == Spec => []SInv
<1>1. SInv /\ [Next]_vars => SInv'
  BY SoundStep
<1> QED BY SoundInit, <1>1, PTL DEF Spec

LEMMA OneOf ==
    ASSUME NEW S, AtMostOne(S)
    PROVE  Cardinality(S) = IF S = {} THEN 0 ELSE 1
<1>1. CASE S = {}
  BY <1>1, FS_EmptySet
<1>2. CASE S # {}
  <2>1. PICK x : x \in S
    BY <1>2
  <2>2. S = {x}
    BY <2>1 DEF AtMostOne
  <2>3. Cardinality({x}) = 1
    BY FS_Singleton
  <2> QED BY <1>2, <2>2, <2>3
<1> QED BY <1>1, <1>2

LEMMA AnsweredOnceHolds == SInv => CallsAnswered
<1> SUFFICES ASSUME SInv PROVE CallsAnswered
  OBVIOUS
<1> Shapes /\ Owes /\ Once /\ Parties /\ Books /\ Counts /\ Wires /\ Clients
  BY DEF SInv, Sound, Shapes
<1>1. TypeOK
  <2>1. tally \in [Sessions -> 0 .. MaxOwed]
    BY TallyBound DEF Counts
  <2>2. owed \in [Sessions -> 0 .. MaxOwed]
    <3>1. ASSUME NEW s \in Sessions PROVE owed[s] \in 0 .. MaxOwed
      <4>1. /\ tally[s] \in Nat /\ InFlight(s) \in Nat /\ owed[s] \in Int
            /\ tally[s] + InFlight(s) <= owed[s] /\ owed[s] <= MaxOwed /\ MaxOwed \in Nat
        BY InFlightNat, SessionsAssumption DEF Counts, Owes
      <4> QED BY <4>1
    <3> QED BY <3>1 DEF Counts
  <2>3. jobs \in [Sessions -> 0 .. MaxGrants] /\ given \in 0 .. MaxGrants
    <3>1. ASSUME NEW s \in Sessions PROVE jobs[s] \in 0 .. MaxGrants
      <4>1. jobs[s] \in Nat /\ jobs[s] <= given /\ given \in 0 .. MaxGrants /\ MaxGrants \in Nat
        BY SessionsAssumption DEF Books
      <4> QED BY <4>1
    <3> QED BY <3>1 DEF Books
  <2> QED BY <2>1, <2>2, <2>3 DEF TypeOK, Parties, Books, Clients
<1>2. AnsweredOnce
  <2> SUFFICES ASSUME NEW c \in calls PROVE Held(c) = 1
    BY DEF AnsweredOnce
  <2>1. OnceOf(c)
    BY DEF Once, Parties
  <2>2. /\ AtMostOne(AsksOf(c)) /\ AtMostOne(Awaits(c)) /\ AtMostOne(RepliesOf(c))
        /\ AsksOf(c) # {} => Awaits(c) = {} /\ RepliesOf(c) = {}
        /\ Awaits(c) # {} => RepliesOf(c) = {}
        /\ AsksOf(c) # {} \/ Awaits(c) # {} \/ RepliesOf(c) # {}
    BY <2>1 DEF OnceOf
  <2>3. PICK A, B, C : A = AsksOf(c) /\ B = Awaits(c) /\ C = RepliesOf(c)
    OBVIOUS
  <2>4. /\ Cardinality(A) = IF A = {} THEN 0 ELSE 1
        /\ Cardinality(B) = IF B = {} THEN 0 ELSE 1
        /\ Cardinality(C) = IF C = {} THEN 0 ELSE 1
    BY <2>2, <2>3, OneOf
  <2>5. Cardinality(A) + Cardinality(B) + Cardinality(C) = 1
    BY <2>2, <2>3, <2>4
  <2> QED BY <2>3, <2>5 DEF Held, AsksOf, RepliesOf
<1> QED BY <1>1, <1>2 DEF CallsAnswered

LEMMA SolutionsOwnedHolds == SInv => SolutionsOwned
<1> SUFFICES ASSUME SInv, NEW w \in alive, NEW i \in 1 .. Len(up[w]),
                    up[w][i].t = "sub", up[w][i].s \in hub \ cut, entry[up[w][i].s] \in housed
             PROVE  \/ Owns(ledger[entry[up[w][i].s]], up[w][i].g)
                    \/ ledger[entry[up[w][i].s]].job >= up[w][i].job + 2
  BY DEF SolutionsOwned
<1> Stories /\ Parties /\ Books /\ Wires /\ Clients
  BY DEF SInv, Sound, Shapes
<1>1. PICK q, m, s, L : q = up[w] /\ m = q[i] /\ s = m.s /\ L = ledger[entry[s]]
  OBVIOUS
<1>2. w \in Workers /\ m \in UpOf(w)
  BY <1>1 DEF Parties, Wires
<1>3. m.t = "sub" /\ s \in Sessions /\ Host[s] = w /\ m.job \in Nat
  <2>1. s \in Of(w)
    BY <1>1, <1>2, UpSays
  <2>2. m.job \in Nat
    BY <1>1, <1>2, SessionsAssumption DEF UpOf
  <2> QED BY <1>1, <2>1, <2>2 DEF Of
<1>4. Serving(s)
  BY <1>3 DEF Stories, Story
<1>5. SubsOK(q, s, L)
  BY <1>1, <1>3, <1>4 DEF Serving
<1>6. Stays(L, m.job, m.g)
  BY <1>1, <1>3, <1>5 DEF SubsOK, SubOf
<1>7. L.job \in Nat
  BY <1>1, LedgerJob DEF Books, Clients
<1>8. Owns(L, m.g) \/ L.job >= m.job + 2
  BY <1>3, <1>6, <1>7 DEF Stays, Owns
<1> QED BY <1>1, <1>8

LEMMA WorkCountedHolds == SInv => WorkCounted
BY DEF SInv, Stories, Story, Accounted, WorkCounted

-----------------------------------------------------------------------------
(* The theorems.                                                           *)

\* A call that a worker waits for stands in one place, and only one: a message, a
\* login that awaits, or an answer on its way (hub.ts call, handle, settle), and
\* all that is held of sessions and calls is well formed.
THEOREM CallsAreAnswered == Spec => []CallsAnswered
<1> QED BY SoundAlways, AnsweredOnceHolds, PTL

\* A share that a worker acknowledged is in its tally, on its way or accounted
\* for; when the session is over, none is left (hub.ts flush, close, handle).
THEOREM WorkIsCounted == Spec => []WorkCounted
<1> QED BY SoundAlways, WorkCountedHolds, PTL

\* The nonce of a solution the worker's mirror let through is in the ledger of
\* the session's client when the primary gets it, unless two newer jobs came to
\* that ledger meanwhile (hub.ts learn, submit; nonce.ts Ledger).
THEOREM SolutionsAreOwned == Spec => []SolutionsOwned
<1> QED BY SoundAlways, SolutionsOwnedHolds, PTL
=============================================================================
