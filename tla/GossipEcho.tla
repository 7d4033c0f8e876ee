----------------------------- MODULE GossipEcho -----------------------------
(***************************************************************************)
(* The reverse aggregate (gossip-echo/1) of GossipProtocol                 *)
(* (src/src/gossip.ts): one broadcast with aggregateDelivery spreads along *)
(* a tree of first arrivals, and every holder reports to the peer it got   *)
(* the message from how many holders its branch has.                       *)
(*                                                                         *)
(* Membership views are complete, so the size a spread aims at is that of  *)
(* Peer.  The clock of each peer is a phase: before (0), at (1) or past    *)
(* (2) the deadline of the broadcast.  The summaries of anti-entropy are   *)
(* left out: a peer that lacks the message asks a neighbour that offers it *)
(* (Ask).  `broken' are the neighbours whose channel a handler finds dead  *)
(* when it sends: the send throws and the adapter drops them.              *)
(***************************************************************************)
EXTENDS Integers, Sequences, FiniteSets, FiniteSetsExt, FanOut

CONSTANTS
    Peer,           \* peer identifiers, as integers in sorted order
    Root,           \* the peer that broadcasts
    None,           \* "no entry"
    Links,          \* pairs of peers with a channel
    MaxFaults,      \* bound: channel losses
    MaxAsked,       \* bound: requests of anti-entropy
    LastPhase       \* bound: the latest phase of the clocks

ASSUME GossipEchoAssumption ==
    /\ Peer \subseteq Nat /\ IsFiniteSet(Peer) /\ Root \in Peer
    /\ Links \subseteq SUBSET Peer
    /\ MaxFaults \in Nat /\ MaxAsked \in Nat /\ LastPhase \in 0..2
    /\ None \notin Peer
    /\ None \notin [total : Nat, hops : Nat, settled : BOOLEAN]
    /\ None \notin [total : Nat, hops : Nat]

VARIABLES
    conn,       \* conn[p]: getConnectedPeers() of p
    chan,       \* chan[p][q]: packets sent by p that q has not handled yet
    seen,       \* the peers that hold the message and have logged it
    agg,        \* agg[p]: the aggregateStates entry of a holder
    told,       \* the root's last aggregateProgress status
    phase,      \* phase[p]: the clock of p against the deadline
    asked,      \* requests so far
    served,     \* has a request been answered with the payload?
    faults      \* channel losses so far

vars == <<conn, chan, seen, agg, told, phase, asked, served, faults>>

Packet == [type : {"gossip"}, hops : Nat]
          \cup [type : {"request"}]
          \cup [type : {"echo"}, total : Nat, hops : Nat]

MaxOf(a, b) == IF a < b THEN b ELSE a

-----------------------------------------------------------------------------
(* One aggregate.  The code refreshes the three results below after every  *)
(* change of the children.                                                 *)

Child == [total : Nat, hops : Nat, settled : BOOLEAN]

Branches(s) == {q \in Peer : s.children[q] # None}

\* The branch of p to q, None when there is none.
BranchOf(p, q) == IF p \in seen THEN agg[p].children[q] ELSE None

\* The sum of the branches, as the number of their pairs <<q, i>>.
Counted(s) == UNION {{q} \X (1..s.children[q].total) : q \in Branches(s)}
Total(s) == 1 + Cardinality(Counted(s))
MaxHops(s) == Max({s.hops} \cup {s.children[q].hops : q \in Branches(s)})
Settled(s) == \A q \in Branches(s) : s.children[q].settled

Report(s) == [total |-> Total(s), hops |-> MaxHops(s)]

\* initialSpreadComplete.
Complete(s) == Settled(s) /\ Total(s) >= Cardinality(Peer)

Aggregate(parent, hops, children, sent) ==
    [parent |-> parent, hops |-> hops, children |-> children, sent |-> sent]

\* propagate: open a branch to every selected peer; a failed send closes it.
OpenBranches(selected, hops, broken) ==
    [q \in Peer |-> IF q \in selected
                    THEN [total |-> 0, hops |-> hops, settled |-> q \in broken]
                    ELSE None]

WithChild(s, q, child) ==
    Aggregate(s.parent, s.hops, [s.children EXCEPT ![q] = child], s.sent)

\* maintainAggregateDeliveries past the deadline.
CloseBranches(s) ==
    Aggregate(s.parent, s.hops,
        [q \in Peer |->
            IF s.children[q] = None THEN None
            ELSE [total |-> s.children[q].total, hops |-> s.children[q].hops,
                  settled |-> TRUE]],
        s.sent)

-----------------------------------------------------------------------------
(* The end of a handler *)

Silence == [q \in Peer |-> <<>>]
Gossip(hops) == [type |-> "gossip", hops |-> hops]
Echo(report) == [type |-> "echo", total |-> report.total, hops |-> report.hops]

\* p drops its broken channels; out[q] reaches q unless q has closed its end.
Drop(p, broken, queues, out) ==
    /\ broken \subseteq conn[p]
    /\ faults + Cardinality(broken) <= MaxFaults
    /\ faults' = faults + Cardinality(broken)
    /\ conn' = [conn EXCEPT ![p] = @ \ broken]
    /\ chan' = [x \in Peer |-> [q \in Peer |->
                  IF x = p /\ p \in conn[q] THEN queues[p][q] \o out[q]
                  ELSE IF x \in broken /\ q = p THEN <<>> ELSE queues[x][q]]]

\* Faulty variant: a report for every answer, without waiting for the others.
ReportsEarly(s, force) == s.parent # None /\ (force \/ s.sent # Report(s))

\* publishAggregateState: a settled branch reports to its parent when the
\* report is news or is asked for again; the root tells the application.
Reports(s, force) ==
    s.parent # None /\ Settled(s) /\ (force \/ s.sent # Report(s))

Publish(p, s, force, broken, queues, out) ==
    LET sends == Reports(s, force) /\ s.parent \in conn[p] \ broken
    IN  /\ agg' = [agg EXCEPT ![p] =
              IF sends THEN Aggregate(s.parent, s.hops, s.children, Report(s))
              ELSE s]
        /\ told' = IF s.parent = None
                   THEN [total |-> Total(s), hops |-> MaxHops(s),
                         settled |-> Settled(s)]
                   ELSE told
        /\ Drop(p, broken, queues,
                [q \in Peer |-> IF sends /\ q = s.parent
                                THEN Append(out[q], Echo(Report(s)))
                                ELSE out[q]])

\* chan after p has taken the first packet from q.
Taken(p, q) == [chan EXCEPT ![q] = [chan[q] EXCEPT ![p] = Tail(@)]]

Arrived(p, q, t) == chan[q][p] # <<>> /\ Head(chan[q][p]).type = t

\* registerAggregateDelivery and propagate at p.
Join(p, parent, hops, excluded, queues) ==
    \E cursor \in 0..Cardinality(Peer), broken \in SUBSET conn[p] :
        LET selected == SelectFanoutPeers(conn[p], excluded, cursor,
                                          Cardinality(Peer)).peers
        IN  Publish(p,
                Aggregate(parent, hops, OpenBranches(selected, hops, broken), None),
                FALSE, broken, queues,
                [q \in Peer |-> IF q \in selected \ broken
                                THEN <<Gossip(hops + 1)>> ELSE <<>>])

-----------------------------------------------------------------------------
(* Actions *)

\* broadcast with aggregateDelivery.
Broadcast ==
    /\ Root \notin seen /\ seen' = seen \cup {Root}
    /\ Join(Root, None, 0, {Root}, chan)
    /\ UNCHANGED <<phase, asked, served>>

\* handleIncomingMessage past the deadline.
DropLate(p, q) ==
    /\ Arrived(p, q, "gossip")
    /\ phase[p] = 2
    /\ chan' = Taken(p, q)
    /\ UNCHANGED <<conn, seen, agg, told, phase, asked, served, faults>>

\* handleIncomingMessage of a first copy: q becomes the parent.
ReceiveNew(p, q) ==
    /\ Arrived(p, q, "gossip")
    /\ phase[p] < 2 /\ p \notin seen /\ seen' = seen \cup {p}
    /\ Join(p, q, Head(chan[q][p]).hops, {Root, q}, Taken(p, q))
    /\ UNCHANGED <<phase, asked, served>>

\* Faulty variant: every further copy is answered with the report.
AnswerWithReport(p, q) ==
    /\ Arrived(p, q, "gossip")
    /\ phase[p] < 2 /\ p \in seen
    /\ Drop(p, {}, Taken(p, q), [Silence EXCEPT ![q] =
              IF q \in conn[p] THEN <<Echo(Report(agg[p]))>> ELSE <<>>])
    /\ UNCHANGED <<seen, agg, told, phase, asked, served>>

\* handleIncomingMessage of a further copy: the parent gets the report again,
\* anyone else the answer that there is no branch here.
ReceiveDuplicate(p, q) ==
    /\ Arrived(p, q, "gossip")
    /\ phase[p] < 2 /\ p \in seen
    /\ \E broken \in SUBSET conn[p] :
          IF agg[p].parent = q
          THEN Publish(p, agg[p], TRUE, broken, Taken(p, q), Silence)
          ELSE /\ Drop(p, broken, Taken(p, q),
                     [Silence EXCEPT ![q] =
                        IF q \in conn[p] \ broken
                        THEN <<Echo([total |-> 0, hops |-> Head(chan[q][p]).hops])>>
                        ELSE <<>>])
               /\ UNCHANGED <<agg, told>>
    /\ UNCHANGED <<seen, phase, asked, served>>

IgnoreLateEchoes(p, q) ==
    /\ Arrived(p, q, "echo")
    /\ LET old == BranchOf(p, q)
           pkt == Head(chan[q][p])
           new == [total |-> pkt.total, hops |-> MaxOf(old.hops, pkt.hops),
                   settled |-> TRUE]
       IN  IF old = None \/ old.settled
           THEN chan' = Taken(p, q) /\ UNCHANGED <<conn, agg, told, faults>>
           ELSE Publish(p, WithChild(agg[p], q, new), FALSE, {}, Taken(p, q), Silence)
    /\ UNCHANGED <<seen, phase, asked, served>>

\* handleIncomingAggregate: the answer of the branch to q; an answer that
\* changes nothing, or is for no branch, is dropped.
ReceiveEcho(p, q) ==
    /\ Arrived(p, q, "echo")
    /\ LET old == BranchOf(p, q)
           pkt == Head(chan[q][p])
           new == [total |-> MaxOf(old.total, pkt.total),
                   hops |-> MaxOf(old.hops, pkt.hops), settled |-> TRUE]
       IN  IF old = None \/ old = new
           THEN /\ chan' = Taken(p, q)
                /\ UNCHANGED <<conn, agg, told, faults>>
           ELSE \E broken \in SUBSET conn[p] :
                    Publish(p, WithChild(agg[p], q, new), FALSE, broken,
                            Taken(p, q), Silence)
    /\ UNCHANGED <<seen, phase, asked, served>>

\* A summary of q reaches p, which lacks the message and asks for it.  It
\* follows every copy that q has sent to p before.
Ask(p, q) ==
    /\ asked < MaxAsked /\ asked' = asked + 1
    /\ p \notin seen /\ q \in seen
    /\ p \in conn[q] /\ q \in conn[p] /\ chan[q][p] = <<>>
    /\ ~Complete(agg[q]) /\ phase[q] < 2
    /\ chan' = [chan EXCEPT ![p] = [chan[p] EXCEPT ![q] =
                                      Append(@, [type |-> "request"])]]
    /\ UNCHANGED <<conn, seen, agg, told, phase, served, faults>>

\* handleGossipAntiEntropy of a request: a complete or expired spread is not
\* served.  The payload opens a branch to q unless there is one; only a
\* failed send is published.
ReceiveRequest(p, q) ==
    /\ Arrived(p, q, "request")
    /\ LET s == agg[p]
           hops == s.hops + 1
           branch == IF s.children[q] # None THEN s.children[q]
                     ELSE [total |-> 0, hops |-> hops, settled |-> FALSE]
           closed == [total |-> 0, hops |-> hops, settled |-> TRUE]
       IN  \/ /\ p \notin seen \/ Complete(s) \/ phase[p] = 2
              /\ chan' = Taken(p, q)
              /\ UNCHANGED <<conn, agg, told, served, faults>>
           \/ /\ p \in seen /\ ~Complete(s) /\ phase[p] < 2 /\ q \in conn[p]
              /\ agg' = [agg EXCEPT ![p] = WithChild(s, q, branch)]
              /\ Drop(p, {}, Taken(p, q), [Silence EXCEPT ![q] = <<Gossip(hops)>>])
              /\ served' = TRUE
              /\ UNCHANGED told
           \/ /\ p \in seen /\ ~Complete(s) /\ phase[p] < 2
              /\ \E broken \in SUBSET conn[p] :
                    /\ q \notin conn[p] \ broken
                    /\ Publish(p, WithChild(s, q, closed), FALSE, broken,
                               Taken(p, q), Silence)
              /\ UNCHANGED served
    /\ UNCHANGED <<seen, phase, asked>>

\* Faulty variant: the deadline closes no branch.
TimerRetries(p) ==
    /\ p \in seen
    /\ Publish(p, agg[p], FALSE, {}, chan, Silence)
    /\ UNCHANGED <<seen, phase, asked, served>>

\* maintainAggregateDeliveries, from the two-second and the cleanup timer:
\* at the deadline open branches are closed; an unsent report is sent.
Timer(p) ==
    /\ p \in seen
    /\ \E broken \in SUBSET conn[p] :
          Publish(p, IF phase[p] > 0 /\ ~Settled(agg[p])
                     THEN CloseBranches(agg[p]) ELSE agg[p],
                  FALSE, broken, chan, Silence)
    /\ UNCHANGED <<seen, phase, asked, served>>

\* The clocks of different peers reach the deadline at different times.
PassTime(p) ==
    /\ Root \in seen
    /\ phase[p] < LastPhase
    /\ phase' = [phase EXCEPT ![p] = @ + 1]
    /\ UNCHANGED <<conn, chan, seen, agg, told, asked, served, faults>>

PeerConnected(p, q) ==
    /\ {p, q} \in Links /\ p # q /\ q \notin conn[p]
    /\ conn' = [conn EXCEPT ![p] = @ \cup {q}]
    /\ UNCHANGED <<chan, seen, agg, told, phase, asked, served, faults>>

\* What q still had under way to p is lost; q notices in a step of its own.
PeerDisconnected(p, q) ==
    /\ q \in conn[p]
    /\ Drop(p, {q}, chan, Silence)
    /\ UNCHANGED <<seen, agg, told, phase, asked, served>>

-----------------------------------------------------------------------------
Init ==
    /\ conn = [p \in Peer |-> {q \in Peer \ {p} : {p, q} \in Links}]
    /\ chan = [p \in Peer |-> [q \in Peer |-> <<>>]]
    /\ seen = {}
    /\ agg = [p \in Peer |-> None]
    /\ told = None
    /\ phase = [p \in Peer |-> 0]
    /\ asked = 0 /\ served = FALSE /\ faults = 0

Receive(p, q) ==
    \/ DropLate(p, q)
    \/ ReceiveNew(p, q)
    \/ ReceiveDuplicate(p, q)
    \/ ReceiveEcho(p, q)
    \/ ReceiveRequest(p, q)

Next ==
    \/ Broadcast
    \/ \E p \in Peer :
          \/ Timer(p)
          \/ PassTime(p)
          \/ \E q \in Peer : \/ Receive(p, q)
                             \/ Ask(p, q)
                             \/ PeerConnected(p, q)
                             \/ PeerDisconnected(p, q)

Spec == Init /\ [][Next]_vars

\* An RTC channel delivers, timers fire and time passes; nobody is obliged
\* to broadcast, to ask or to find a channel dead.  Since each of these can
\* happen only so often, it is enough that they do not all stop.
Progress ==
    \/ \E p, q \in Peer : Receive(p, q)
    \/ \E p \in Peer : Timer(p) /\ UNCHANGED faults
    \/ \E p \in Peer : PassTime(p)

FairSpec == Spec /\ WF_vars(Progress)

-----------------------------------------------------------------------------
(* Properties *)

ChildOrNone == Child \cup {None}
AggregateRecord ==
    [parent : Peer \cup {None}, hops : Nat, children : [Peer -> ChildOrNone],
     sent : [total : Nat, hops : Nat] \cup {None}]

\* Type invariant of the state of the reverse aggregate.
TypeOK ==
    /\ conn \in [Peer -> SUBSET Peer]
    /\ chan \in [Peer -> [Peer -> Seq(Packet)]]
    /\ seen \subseteq Peer
    /\ agg \in [Peer -> AggregateRecord \cup {None}]
    /\ \A p \in seen : agg[p] # None
    /\ told \in Child \cup {None}
    /\ phase \in [Peer -> 0..LastPhase]
    /\ asked \in 0..MaxAsked /\ served \in BOOLEAN /\ faults \in 0..MaxFaults

Counts(p, q) == BranchOf(p, q) # None /\ BranchOf(p, q).total # 0

\* No holder is counted in two branches, whatever copies, repairs and lost
\* channels there were: only the peer a holder got its first copy from ever
\* gets a count of it (the answer 0 to duplicates, gossip.ts:668).
CountedOnce == \A p, q, r \in Peer : Counts(p, r) /\ Counts(q, r) => p = q

Undisturbed == faults = 0 /\ \A p \in Peer : phase[p] = 0

\* As long as no channel broke, no deadline passed and anti-entropy served
\* nobody, a settled status is exact: it counts every holder, and no copy
\* is under way that could make another one.
SettledIsExact ==
    Undisturbed /\ ~served /\ told # None /\ told.settled =>
        /\ told.total = Cardinality(seen)
        /\ \A p, q \in Peer : \A i \in DOMAIN chan[p][q] :
              chan[p][q][i].type = "gossip" => q \in seen

\* Whatever is lost, the sender is eventually told that its broadcast is
\* settled, and it stays so: the deadline closes branches without answer.
SenderIsTold == (Root \in seen) ~> [](told # None /\ told.settled)

\* Without losses every holder is counted in the end, those included that
\* were repaired or that answered after the deadline had closed their branch.
EveryHolderIsCounted ==
    (Root \in seen)
        ~> [](told # None /\ (faults = 0 => told.total = Cardinality(seen)))
=============================================================================
