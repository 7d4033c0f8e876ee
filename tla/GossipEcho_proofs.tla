-------------------------- MODULE GossipEcho_proofs --------------------------
(***************************************************************************)
(* In the reverse aggregate no holder is counted in two branches, for all  *)
(* peers, channels, losses, repairs and clocks.  The reason: a count that  *)
(* is not 0 only ever travels to the peer the holder got its first copy    *)
(* from, and that peer never changes.                                      *)
(*                                                                         *)
(* As long as nothing disturbs the spread a settled status is exact.  The  *)
(* invariant Tree says of every branch that what the holder knows, what is *)
(* under way between the two and what the other end has found so far agree *)
(* (Edge); the totals of a settled tree then add up to its size            *)
(* (Counting).                                                             *)
(***************************************************************************)
EXTENDS GossipEcho, FiniteSetTheorems, FunctionTheorems, WellFoundedInduction, TLAPS

\* In `holders' and `aggs', p is the parent of q.
ParentIn(holders, aggs, p, q) == q \in holders /\ aggs[q].parent = p
Parent(p, q) == ParentIn(seen, agg, p, q)

\* Every parent stays a parent.
Keeps(holders, aggs, holders2, aggs2) ==
    \A p, q \in Peer : ParentIn(holders, aggs, p, q)
                           => ParentIn(holders2, aggs2, p, q)

\* The packets of S that q may have under way to p.
Truthful(S, holders, aggs, q, p) ==
    {pkt \in S : pkt.type = "echo" /\ pkt.total # 0
                    => ParentIn(holders, aggs, p, q)}

Channels(S, queues, holders, aggs) ==
    \A q, p \in Peer : queues[q][p] \in Seq(Truthful(S, holders, aggs, q, p))

\* Functions on the peers, and on pairs of them.
Table(f) == f = [x \in Peer |-> f[x]]
Matrix(f) == Table(f) /\ \A x \in Peer : Table(f[x])

Shape ==
    /\ conn \in [Peer -> SUBSET Peer]
    /\ seen \subseteq Peer
    /\ Table(agg)
    /\ Matrix(chan)
    /\ \A p \in seen : Table(agg[p].children)

CountsByParent == \A p, q \in Peer : Counts(p, q) => Parent(p, q)

Inv ==
    /\ Shape
    /\ CountsByParent
    /\ \E S : Channels(S, chan, seen, agg)

-----------------------------------------------------------------------------
(* Channels *)

LEMMA SeqMonotone ==
    ASSUME NEW S, NEW T, S \subseteq T
    PROVE  Seq(S) \subseteq Seq(T)
OBVIOUS

\* More packets and more known parents keep channels truthful.
LEMMA ChannelsMonotone ==
    ASSUME NEW S, NEW T, S \subseteq T, NEW queues,
           NEW holders, NEW aggs, NEW holders2, NEW aggs2,
           Keeps(holders, aggs, holders2, aggs2),
           Channels(S, queues, holders, aggs)
    PROVE  Channels(T, queues, holders2, aggs2)
<1> SUFFICES ASSUME NEW q \in Peer, NEW p \in Peer
             PROVE  queues[q][p] \in Seq(Truthful(T, holders2, aggs2, q, p))
  BY DEF Channels
<1>1. Truthful(S, holders, aggs, q, p) \subseteq Truthful(T, holders2, aggs2, q, p)
  BY DEF Truthful, Keeps
<1>2. queues[q][p] \in Seq(Truthful(S, holders, aggs, q, p))
  BY DEF Channels
<1> QED
  BY <1>1, <1>2, SeqMonotone

\* Taking a packet.
LEMMA TakenChannels ==
    ASSUME Shape, NEW S, NEW p \in Peer, NEW q \in Peer, chan[q][p] # <<>>,
           Channels(S, chan, seen, agg)
    PROVE  /\ Channels(S, Taken(p, q), seen, agg)
           /\ Head(chan[q][p]) \in Truthful(S, seen, agg, q, p)
<1>1. chan[q][p] \in Seq(Truthful(S, seen, agg, q, p))
  BY DEF Channels
<1>2. /\ Tail(chan[q][p]) \in Seq(Truthful(S, seen, agg, q, p))
      /\ Head(chan[q][p]) \in Truthful(S, seen, agg, q, p)
  BY <1>1
<1>3. \A x, y \in Peer : Taken(p, q)[x][y] =
          IF x = q /\ y = p THEN Tail(chan[q][p]) ELSE chan[x][y]
  BY DEF Taken, Shape, Matrix, Table
<1> QED
  BY <1>2, <1>3 DEF Channels

LEMMA TakenShape ==
    ASSUME Shape, NEW p \in Peer, NEW q \in Peer
    PROVE  Matrix(Taken(p, q))
BY DEF Taken, Shape, Matrix, Table

\* The end of a handler: p sends `out'.
LEMMA DropChannels ==
    ASSUME NEW S, NEW p \in Peer, NEW broken, NEW queues, NEW out,
           Drop(p, broken, queues, out), conn \in [Peer -> SUBSET Peer],
           NEW holders, NEW aggs,
           Channels(S, queues, holders, aggs),
           \A q \in Peer : out[q] \in Seq(Truthful(S, holders, aggs, p, q))
    PROVE  /\ Channels(S, chan', holders, aggs)
           /\ conn' \in [Peer -> SUBSET Peer]
           /\ Matrix(chan')
<1>1. chan' = [x \in Peer |-> [q \in Peer |->
                  IF x = p /\ p \in conn[q] THEN queues[p][q] \o out[q]
                  ELSE IF x \in broken /\ q = p THEN <<>> ELSE queues[x][q]]]
  BY DEF Drop
<1>2. conn' \in [Peer -> SUBSET Peer]
  BY DEF Drop
<1>3. ASSUME NEW x \in Peer, NEW q \in Peer
      PROVE  chan'[x][q] \in Seq(Truthful(S, holders, aggs, x, q))
  <2>1. queues[x][q] \in Seq(Truthful(S, holders, aggs, x, q))
    BY DEF Channels
  <2>2. x = p => queues[x][q] \o out[q] \in Seq(Truthful(S, holders, aggs, x, q))
    BY <2>1
  <2>3. <<>> \in Seq(Truthful(S, holders, aggs, x, q))
    OBVIOUS
  <2> QED
    BY <1>1, <2>1, <2>2, <2>3
<1>4. Matrix(chan')
  BY <1>1 DEF Matrix, Table
<1>5. Channels(S, chan', holders, aggs)
  BY <1>3 DEF Channels
<1> QED
  BY <1>2, <1>4, <1>5

-----------------------------------------------------------------------------
(* The steps that change aggregates *)

Child0(s, r) == s.children[r] # None /\ s.children[r].total # 0

\* p ends a handler with Publish: its branches count by parent, its own
\* parent is what it was, and its echo goes there.
LEMMA PublishStep ==
    Shape /\ CountsByParent =>
        \A S, s, force, broken, queues, out : \A p \in Peer :
            /\ Publish(p, s, force, broken, queues, out)
            /\ seen' = seen \cup {p}
            /\ p \in seen => agg[p].parent = s.parent
            /\ Table(s.children)
            /\ \A q \in Peer : Child0(s, q) => Parent(p, q)
            /\ Channels(S, queues, seen, agg)
            /\ \A q \in Peer : out[q] \in Seq({x \in S : x.type # "echo"})
            => Inv'
<1> SUFFICES ASSUME Shape, CountsByParent,
                    NEW S, NEW s, NEW force, NEW broken, NEW queues, NEW out,
                    NEW p \in Peer,
                    Publish(p, s, force, broken, queues, out),
                    seen' = seen \cup {p},
                    p \in seen => agg[p].parent = s.parent,
                    Table(s.children),
                    \A q \in Peer : Child0(s, q) => Parent(p, q),
                    Channels(S, queues, seen, agg),
                    \A q \in Peer : out[q] \in Seq({x \in S : x.type # "echo"})
             PROVE  Inv'
  OBVIOUS
<1> DEFINE sends == Reports(s, force) /\ s.parent \in conn[p] \ broken
           echo == Echo(Report(s))
           sent == [q \in Peer |-> IF sends /\ q = s.parent
                                   THEN Append(out[q], echo) ELSE out[q]]
           T == S \cup {echo}
<1>1. Drop(p, broken, queues, sent)
  BY DEF Publish
<1>2. agg' = [agg EXCEPT ![p] =
              IF sends THEN Aggregate(s.parent, s.hops, s.children, Report(s))
              ELSE s]
  BY DEF Publish
<1>3. agg'[p].parent = s.parent /\ agg'[p].children = s.children
  BY <1>2 DEF Shape, Aggregate, Table
<1>4. \A q \in Peer \ {p} : agg'[q] = agg[q]
  BY <1>2 DEF Shape
<1>5. Keeps(seen, agg, seen', agg')
  BY <1>3, <1>4 DEF ParentIn, Keeps
<1>6. Channels(T, queues, seen', agg')
  <2> HIDE DEF T
  <2>1. S \subseteq T
    BY DEF T
  <2> QED
    BY <2>1, <1>5, ChannelsMonotone
<1>7. ASSUME NEW q \in Peer
      PROVE  sent[q] \in Seq(Truthful(T, seen', agg', p, q))
  <2>1. {x \in S : x.type # "echo"} \subseteq Truthful(T, seen', agg', p, q)
    BY DEF Truthful
  <2>2. out[q] \in Seq(Truthful(T, seen', agg', p, q))
    <3> HIDE DEF T
    <3> QED
      BY <2>1, SeqMonotone
  <2>3. q = s.parent => echo \in Truthful(T, seen', agg', p, q)
    <3>1. q = s.parent => ParentIn(seen', agg', q, p)
      BY <1>3 DEF ParentIn
    <3> QED
      BY <3>1 DEF Truthful
  <2>4. q = s.parent => Append(out[q], echo) \in Seq(Truthful(T, seen', agg', p, q))
    <3> HIDE DEF T, echo
    <3> QED
      BY <2>2, <2>3
  <2> HIDE DEF T, echo, sends
  <2> QED
    BY <2>2, <2>4
<1>8. /\ Channels(T, chan', seen', agg')
      /\ conn' \in [Peer -> SUBSET Peer]
      /\ Matrix(chan')
  <2>1. conn \in [Peer -> SUBSET Peer]
    BY DEF Shape
  <2> HIDE DEF T, sent
  <2> QED
    BY <2>1, <1>1, <1>6, <1>7, DropChannels
<1>9. Shape'
  <2>1. Table(agg') /\ seen' \subseteq Peer
    BY <1>2 DEF Shape, Table
  <2>2. \A q \in seen' : Table(agg'[q].children)
    <3> SUFFICES ASSUME NEW q \in seen'
                 PROVE  Table(agg'[q].children)
      OBVIOUS
    <3>1. CASE q = p
      BY <3>1, <1>3
    <3>2. CASE q # p
      <4>1. q \in seen /\ agg'[q] = agg[q]
        BY <3>2, <1>4 DEF Shape
      <4> QED
        BY <4>1 DEF Shape
    <3> QED
      BY <3>1, <3>2
  <2> QED
    BY <2>1, <2>2, <1>8 DEF Shape
<1>10. CountsByParent'
  <2> SUFFICES ASSUME NEW q \in Peer, NEW r \in Peer, Counts(q, r)'
               PROVE  ParentIn(seen', agg', q, r)
    BY DEF CountsByParent, Parent
  <2>1. CASE q = p
    <3>1. Child0(s, r)
      BY <2>1, <1>3 DEF Counts, BranchOf, Child0
    <3> QED
      BY <3>1, <2>1, <1>5 DEF Parent, Keeps
  <2>2. CASE q # p
    <3>1. Counts(q, r)
      BY <2>2, <1>4 DEF Counts, BranchOf
    <3> QED
      BY <3>1, <1>5 DEF CountsByParent, Parent, Keeps
  <2> QED
    BY <2>1, <2>2
<1> QED
  <2> HIDE DEF T
  <2> QED
    BY <1>8, <1>9, <1>10 DEF Inv

\* p gets its first copy, or is the root.
LEMMA JoinStep ==
    Shape /\ CountsByParent =>
        \A S, parent, hops, excluded, queues : \A p \in Peer :
            /\ Join(p, parent, hops, excluded, queues)
            /\ p \notin seen /\ seen' = seen \cup {p}
            /\ Channels(S, queues, seen, agg)
            => Inv'
<1> SUFFICES ASSUME Shape, CountsByParent,
                    NEW S, NEW parent, NEW hops, NEW excluded, NEW queues,
                    NEW p \in Peer,
                    Join(p, parent, hops, excluded, queues),
                    p \notin seen, seen' = seen \cup {p},
                    Channels(S, queues, seen, agg)
             PROVE  Inv'
  OBVIOUS
<1>1. PICK cursor, broken, selected :
          Publish(p,
                Aggregate(parent, hops, OpenBranches(selected, hops, broken), None),
                FALSE, broken, queues,
                [q \in Peer |-> IF q \in selected \ broken
                                THEN <<Gossip(hops + 1)>> ELSE <<>>])
  BY DEF Join
<1> DEFINE s == Aggregate(parent, hops, OpenBranches(selected, hops, broken), None)
           copy == Gossip(hops + 1)
           T == S \cup {copy}
           out == [q \in Peer |-> IF q \in selected \ broken
                                  THEN <<copy>> ELSE <<>>]
<1>2. Table(s.children)
  BY DEF Aggregate, OpenBranches, Table
<1>3. \A q \in Peer : ~Child0(s, q)
  BY DEF Child0, Aggregate, OpenBranches
<1>4. copy \in {x \in T : x.type # "echo"}
  BY DEF Gossip
<1>5. \A q \in Peer : out[q] \in Seq({x \in T : x.type # "echo"})
  <2> DEFINE R == {x \in T : x.type # "echo"}
  <2>1. copy \in R
    BY <1>4
  <2> HIDE DEF copy, R
  <2>2. <<copy>> \in Seq(R) /\ <<>> \in Seq(R)
    BY <2>1
  <2>3. \A q \in Peer : out[q] \in Seq(R)
    BY <2>2
  <2> QED
    BY <2>3 DEF R
<1>6. Channels(T, queues, seen, agg)
  <2>1. S \subseteq T /\ Keeps(seen, agg, seen, agg)
    BY DEF Keeps
  <2> HIDE DEF T
  <2> QED
    BY <2>1, ChannelsMonotone
<1>7. Publish(p, s, FALSE, broken, queues, out)
  BY <1>1
<1> HIDE DEF s, T, out
<1> QED
  BY <1>2, <1>3, <1>5, <1>6, <1>7, PublishStep

\* Sending without a change of the aggregates.
LEMMA SendStep ==
    Shape /\ CountsByParent =>
        \A S, broken, queues, out : \A p \in Peer :
            /\ Drop(p, broken, queues, out)
            /\ UNCHANGED <<seen, agg>>
            /\ Channels(S, queues, seen, agg)
            /\ \A q \in Peer : out[q] \in Seq(Truthful(S, seen, agg, p, q))
            => Inv'
<1> SUFFICES ASSUME Shape, CountsByParent,
                    NEW S, NEW broken, NEW queues, NEW out, NEW p \in Peer,
                    Drop(p, broken, queues, out),
                    UNCHANGED <<seen, agg>>,
                    Channels(S, queues, seen, agg),
                    \A q \in Peer : out[q] \in Seq(Truthful(S, seen, agg, p, q))
             PROVE  Inv'
  OBVIOUS
<1>1. conn \in [Peer -> SUBSET Peer]
  BY DEF Shape
<1>2. /\ Channels(S, chan', seen, agg)
      /\ conn' \in [Peer -> SUBSET Peer]
      /\ Matrix(chan')
  BY <1>1, DropChannels
<1>3. Shape'
  BY <1>2 DEF Shape
<1>4. CountsByParent'
  BY DEF CountsByParent, Counts, BranchOf, Parent, ParentIn
<1>5. Channels(S, chan', seen', agg')
  BY <1>2
<1> QED
  BY <1>3, <1>4, <1>5 DEF Inv

LEMMA SilenceIsSilent == \A S : \A q \in Peer : Silence[q] \in Seq(S)
BY DEF Silence

\* A handler that sends nothing but its report.
LEMMA PublishAlone ==
    Inv =>
        \A s, force, broken : \A p \in Peer :
            /\ Publish(p, s, force, broken, chan, Silence)
            /\ p \in seen /\ seen' = seen
            /\ agg[p].parent = s.parent
            /\ Table(s.children)
            /\ \A q \in Peer : Child0(s, q) => Parent(p, q)
            => Inv'
<1> SUFFICES ASSUME Inv, NEW s, NEW force, NEW broken, NEW p \in Peer,
                    Publish(p, s, force, broken, chan, Silence),
                    p \in seen, seen' = seen,
                    agg[p].parent = s.parent,
                    Table(s.children),
                    \A q \in Peer : Child0(s, q) => Parent(p, q)
             PROVE  Inv'
  OBVIOUS
<1>1. PICK S : Channels(S, chan, seen, agg)
  BY DEF Inv
<1>2. Shape /\ CountsByParent /\ seen' = seen \cup {p}
  BY DEF Inv
<1> QED
  BY <1>1, <1>2, SilenceIsSilent, PublishStep
-----------------------------------------------------------------------------
(* Each action preserves the invariant *)

LEMMA BroadcastStep == Inv /\ Broadcast => Inv'
<1> SUFFICES ASSUME Inv, Broadcast PROVE Inv'
  OBVIOUS
<1>1. PICK S : Channels(S, chan, seen, agg)
  BY DEF Inv
<1>2. Root \in Peer
  BY GossipEchoAssumption
<1>3. Shape /\ CountsByParent
  BY DEF Inv
<1> QED
  BY <1>1, <1>2, <1>3, JoinStep DEF Broadcast

LEMMA ReceiveNewStep ==
    ASSUME Inv, NEW p \in Peer, NEW q \in Peer, ReceiveNew(p, q)
    PROVE  Inv'
<1>1. PICK S : Channels(S, chan, seen, agg)
  BY DEF Inv
<1>2. Shape /\ CountsByParent
  BY DEF Inv
<1>3. Channels(S, Taken(p, q), seen, agg)
  BY <1>1, <1>2, TakenChannels DEF ReceiveNew, Arrived
<1> QED
  BY <1>2, <1>3, JoinStep DEF ReceiveNew

\* What a holder knows of its own aggregate.
LEMMA OwnAggregate ==
    ASSUME Inv, NEW p \in Peer, p \in seen
    PROVE  /\ Table(agg[p].children)
           /\ \A q \in Peer : Child0(agg[p], q) => Parent(p, q)
BY DEF Inv, Shape, CountsByParent, Counts, BranchOf, Child0

LEMMA ReceiveDuplicateStep ==
    ASSUME Inv, NEW p \in Peer, NEW q \in Peer, ReceiveDuplicate(p, q)
    PROVE  Inv'
<1>1. PICK S : Channels(S, chan, seen, agg)
  BY DEF Inv
<1>2. Shape /\ CountsByParent
  BY DEF Inv
<1>3. Channels(S, Taken(p, q), seen, agg)
  BY <1>1, <1>2, TakenChannels DEF ReceiveDuplicate, Arrived
<1>4. p \in seen /\ seen' = seen /\ seen' = seen \cup {p}
  BY DEF ReceiveDuplicate
<1>5. CASE agg[p].parent = q
  <2>1. PICK broken : Publish(p, agg[p], TRUE, broken, Taken(p, q), Silence)
    BY <1>5 DEF ReceiveDuplicate
  <2> QED
    BY <2>1, <1>2, <1>3, <1>4, OwnAggregate, SilenceIsSilent, PublishStep
<1>6. CASE agg[p].parent # q
  <2> DEFINE answer == Echo([total |-> 0, hops |-> Head(chan[q][p]).hops])
             T == S \cup {answer}
  <2>1. PICK broken :
            /\ Drop(p, broken, Taken(p, q),
                    [Silence EXCEPT ![q] = IF q \in conn[p] \ broken
                                           THEN <<answer>> ELSE <<>>])
            /\ UNCHANGED <<seen, agg>>
    BY <1>6 DEF ReceiveDuplicate
  <2>2. answer \in Truthful(T, seen, agg, p, q)
    BY DEF Truthful, Echo
  <2>3. Channels(T, Taken(p, q), seen, agg)
    <3>1. S \subseteq T /\ Keeps(seen, agg, seen, agg)
      BY DEF Keeps
    <3> HIDE DEF T
    <3> QED
      BY <3>1, <1>3, ChannelsMonotone
  <2> DEFINE out == [Silence EXCEPT ![q] = IF q \in conn[p] \ broken
                                           THEN <<answer>> ELSE <<>>]
  <2>4. ASSUME NEW r \in Peer
        PROVE  out[r] \in Seq(Truthful(T, seen, agg, p, r))
    <3> HIDE DEF answer, T
    <3>1. <<>> \in Seq(Truthful(T, seen, agg, p, r))
      OBVIOUS
    <3>2. r = q => <<answer>> \in Seq(Truthful(T, seen, agg, p, r))
      BY <2>2
    <3> QED
      BY <3>1, <3>2 DEF Silence
  <2> HIDE DEF T, out
  <2>5. Drop(p, broken, Taken(p, q), out)
    BY <2>1 DEF out
  <2> QED
    BY <2>1, <2>3, <2>4, <2>5, <1>2, SendStep
<1> QED
  BY <1>5, <1>6

\* An aggregate with another branch to q.
LEMMA WithChildFacts ==
    \A s, child : \A q \in Peer :
        Table(s.children) =>
            /\ WithChild(s, q, child).parent = s.parent
            /\ Table(WithChild(s, q, child).children)
            /\ WithChild(s, q, child).children[q] = child
            /\ \A r \in Peer \ {q} :
                  WithChild(s, q, child).children[r] = s.children[r]
BY DEF WithChild, Aggregate, Table

\* Nothing but packets and what does not concern the aggregates changes.
LEMMA QuietStep ==
    ASSUME Inv, UNCHANGED <<seen, agg>>, conn' \in [Peer -> SUBSET Peer],
           Matrix(chan'),
           \E S : Channels(S, chan', seen, agg)
    PROVE  Inv'
<1>1. Shape'
  BY DEF Inv, Shape
<1>2. CountsByParent'
  BY DEF Inv, CountsByParent, Counts, BranchOf, Parent, ParentIn
<1> QED
  BY <1>1, <1>2 DEF Inv

LEMMA ReceiveEchoStep ==
    ASSUME Inv, NEW p \in Peer, NEW q \in Peer, ReceiveEcho(p, q)
    PROVE  Inv'
<1> DEFINE old == BranchOf(p, q)
           pkt == Head(chan[q][p])
           new == [total |-> MaxOf(old.total, pkt.total),
                   hops |-> MaxOf(old.hops, pkt.hops), settled |-> TRUE]
<1>1. PICK S : Channels(S, chan, seen, agg)
  BY DEF Inv
<1>2. Shape /\ CountsByParent
  BY DEF Inv
<1>3. /\ Channels(S, Taken(p, q), seen, agg)
      /\ pkt \in Truthful(S, seen, agg, q, p)
  BY <1>1, <1>2, TakenChannels DEF ReceiveEcho, Arrived
<1>4. CASE chan' = Taken(p, q) /\ UNCHANGED <<conn, seen, agg>>
  <2>1. /\ Matrix(chan')
    BY <1>2, <1>4, TakenShape
  <2>2. UNCHANGED <<seen, agg>> /\ conn' \in [Peer -> SUBSET Peer]
    BY <1>2, <1>4 DEF Shape
  <2>3. \E S1 : Channels(S1, chan', seen, agg)
    BY <1>3, <1>4
  <2> QED
    BY <2>1, <2>2, <2>3, QuietStep
<1>5. ASSUME old # None, NEW broken,
             Publish(p, WithChild(agg[p], q, new), FALSE, broken,
                     Taken(p, q), Silence)
      PROVE  Inv'
  <2> DEFINE s == WithChild(agg[p], q, new)
  <2>1. p \in seen /\ seen' = seen \cup {p}
    BY <1>5 DEF BranchOf, ReceiveEcho
  <2>2. new.total # 0 => Parent(p, q)
    <3>1. new.total = old.total \/ new.total = pkt.total
      BY DEF MaxOf
    <3>2. old.total # 0 => Parent(p, q)
      BY <1>2, <1>5 DEF CountsByParent, Counts
    <3>3. pkt.total # 0 => Parent(p, q)
      BY <1>3 DEF Truthful, Parent, ReceiveEcho, Arrived
    <3> QED
      BY <3>1, <3>2, <3>3
  <2> HIDE DEF new
  <2>3. /\ s.parent = agg[p].parent
        /\ Table(s.children)
        /\ s.children[q] = new
        /\ \A r \in Peer \ {q} : s.children[r] = agg[p].children[r]
    BY <2>1, OwnAggregate, WithChildFacts
  <2>4. \A r \in Peer : Child0(s, r) => Parent(p, r)
    BY <2>1, <2>2, <2>3, OwnAggregate DEF Child0
  <2> HIDE DEF s
  <2>5. Publish(p, s, FALSE, broken, Taken(p, q), Silence)
    BY <1>5 DEF s
  <2> QED
    BY <2>1, <2>3, <2>4, <2>5, <1>2, <1>3, SilenceIsSilent, PublishStep
<1> QED
  BY <1>4, <1>5 DEF ReceiveEcho

LEMMA TimerStep ==
    ASSUME Inv, NEW p \in Peer, Timer(p)
    PROVE  Inv'
<1>1. p \in seen /\ seen' = seen
  BY DEF Timer
<1>2. PICK broken :
          \/ Publish(p, CloseBranches(agg[p]), FALSE, broken, chan, Silence)
          \/ Publish(p, agg[p], FALSE, broken, chan, Silence)
  BY DEF Timer
<1>3. CASE Publish(p, agg[p], FALSE, broken, chan, Silence)
  BY <1>1, <1>3, OwnAggregate, PublishAlone
<1>4. CASE Publish(p, CloseBranches(agg[p]), FALSE, broken, chan, Silence)
  <2> DEFINE s == CloseBranches(agg[p])
  <2>1. s.parent = agg[p].parent /\ Table(s.children)
    BY DEF CloseBranches, Aggregate, Table
  <2>2. \A r \in Peer : Child0(s, r) => Child0(agg[p], r)
    BY DEF CloseBranches, Aggregate, Child0
  <2>3. \A r \in Peer : Child0(s, r) => Parent(p, r)
    BY <1>1, <2>2, OwnAggregate
  <2> HIDE DEF s
  <2>4. Publish(p, s, FALSE, broken, chan, Silence)
    BY <1>4 DEF s
  <2> QED
    BY <1>1, <2>1, <2>3, <2>4, PublishAlone
<1> QED
  BY <1>2, <1>3, <1>4

LEMMA DropLateStep ==
    ASSUME Inv, NEW p \in Peer, NEW q \in Peer, DropLate(p, q)
    PROVE  Inv'
<1>1. PICK S : Channels(S, chan, seen, agg)
  BY DEF Inv
<1>2. Channels(S, Taken(p, q), seen, agg)
  BY <1>1, TakenChannels DEF DropLate, Arrived, Inv
<1>3. Shape
  BY DEF Inv
<1>4. chan' = Taken(p, q) /\ UNCHANGED <<conn, seen, agg>>
  BY DEF DropLate
<1>5. /\ Matrix(chan')
  BY <1>3, <1>4, TakenShape
<1>6. UNCHANGED <<seen, agg>> /\ conn' \in [Peer -> SUBSET Peer]
  BY <1>3, <1>4 DEF Shape
<1>7. \E S1 : Channels(S1, chan', seen, agg)
  BY <1>2, <1>4
<1> QED
  BY <1>5, <1>6, <1>7, QuietStep

LEMMA AskStep ==
    ASSUME Inv, NEW p \in Peer, NEW q \in Peer, Ask(p, q)
    PROVE  Inv'
<1> DEFINE request == [type |-> "request"]
<1>1. PICK S : Channels(S, chan, seen, agg)
  BY DEF Inv
<1> DEFINE T == S \cup {request}
<1>2. Channels(T, chan, seen, agg)
  <2>1. S \subseteq T /\ Keeps(seen, agg, seen, agg)
    BY DEF Keeps
  <2> HIDE DEF T
  <2> QED
    BY <1>1, <2>1, ChannelsMonotone
<1>3. request \in Truthful(T, seen, agg, p, q)
  BY DEF Truthful
<1>4. \A x, y \in Peer : chan'[x][y] =
          IF x = p /\ y = q THEN Append(chan[x][y], request) ELSE chan[x][y]
  BY DEF Ask, Inv, Shape, Matrix, Table
<1>5. Channels(T, chan', seen, agg)
  <2>1. chan[p][q] \in Seq(Truthful(T, seen, agg, p, q))
    BY <1>2 DEF Channels
  <2> HIDE DEF T, request
  <2>2. Append(chan[p][q], request) \in Seq(Truthful(T, seen, agg, p, q))
    BY <2>1, <1>3
  <2> QED
    BY <2>2, <1>2, <1>4 DEF Channels
<1>6. /\ Matrix(chan')
  BY DEF Ask, Inv, Shape, Matrix, Table
<1>7. UNCHANGED <<seen, agg>> /\ conn' \in [Peer -> SUBSET Peer]
  BY DEF Ask, Inv, Shape
<1> HIDE DEF T
<1> QED
  BY <1>5, <1>6, <1>7, QuietStep
\* The payload is served: a branch to q is opened unless there is one.
LEMMA ServeStep ==
    ASSUME Inv, NEW p \in Peer, NEW q \in Peer, p \in seen, seen' = seen,
           chan[q][p] # <<>>, NEW branch, NEW hops,
           branch # None /\ branch.total # 0 => Parent(p, q),
           agg' = [agg EXCEPT ![p] = WithChild(agg[p], q, branch)],
           Drop(p, {}, Taken(p, q), [Silence EXCEPT ![q] = <<Gossip(hops)>>])
    PROVE  Inv'
<1> DEFINE copy == Gossip(hops)
           out == [Silence EXCEPT ![q] = <<copy>>]
<1>1. PICK S : Channels(S, chan, seen, agg)
  BY DEF Inv
<1> DEFINE T == S \cup {copy}
<1>2. Shape /\ CountsByParent
  BY DEF Inv
<1>3. Channels(S, Taken(p, q), seen, agg)
  BY <1>1, <1>2, TakenChannels
<1>4. /\ agg'[p].parent = agg[p].parent
      /\ Table(agg'[p].children)
      /\ agg'[p].children[q] = branch
      /\ \A r \in Peer \ {q} : agg'[p].children[r] = agg[p].children[r]
  <2>1. agg'[p] = WithChild(agg[p], q, branch) /\ Table(agg[p].children)
    BY DEF Inv, Shape, Table
  <2> QED
    BY <2>1, WithChildFacts
<1>5. Table(agg') /\ \A x \in Peer \ {p} : agg'[x] = agg[x]
  BY DEF Inv, Shape, Table
<1>6. Keeps(seen, agg, seen', agg')
  BY <1>4, <1>5 DEF Keeps, ParentIn
<1>7. Channels(T, Taken(p, q), seen', agg')
  <2>1. S \subseteq T
    BY DEF T
  <2> HIDE DEF T
  <2> QED
    BY <2>1, <1>3, <1>6, ChannelsMonotone
<1>8. ASSUME NEW r \in Peer
      PROVE  out[r] \in Seq(Truthful(T, seen', agg', p, r))
  <2>1. copy \in Truthful(T, seen', agg', p, r)
    BY DEF Truthful, Gossip
  <2> HIDE DEF copy, T
  <2>2. /\ <<copy>> \in Seq(Truthful(T, seen', agg', p, r))
        /\ <<>> \in Seq(Truthful(T, seen', agg', p, r))
    BY <2>1
  <2> QED
    BY <2>2 DEF Silence
<1>9. Channels(T, chan', seen', agg') /\ Matrix(chan')
      /\ conn' \in [Peer -> SUBSET Peer]
  <2>1. conn \in [Peer -> SUBSET Peer]
    BY <1>2 DEF Shape
  <2>2. Drop(p, {}, Taken(p, q), out)
    OBVIOUS
  <2> HIDE DEF out, T
  <2> QED
    BY <2>1, <2>2, <1>7, <1>8, DropChannels
<1>10. Shape'
  BY <1>2, <1>4, <1>5, <1>9 DEF Shape
<1>11. CountsByParent'
  <2> SUFFICES ASSUME NEW x \in Peer, NEW r \in Peer, Counts(x, r)'
               PROVE  ParentIn(seen', agg', x, r)
    BY DEF CountsByParent, Parent
  <2>1. CASE x = p /\ r = q
    <3>1. Parent(p, q)
      BY <2>1, <1>4 DEF Counts, BranchOf
    <3> QED
      BY <3>1, <2>1, <1>6 DEF Parent, Keeps
  <2>2. CASE ~(x = p /\ r = q)
    <3>1. Counts(x, r)
      BY <2>2, <1>4, <1>5 DEF Counts, BranchOf
    <3> QED
      BY <3>1, <1>2, <1>6 DEF CountsByParent, Parent, Keeps
  <2> QED
    BY <2>1, <2>2
<1> QED
  <2> HIDE DEF T
  <2> QED
    BY <1>9, <1>10, <1>11 DEF Inv

LEMMA ReceiveRequestStep ==
    ASSUME Inv, NEW p \in Peer, NEW q \in Peer, ReceiveRequest(p, q)
    PROVE  Inv'
<1> DEFINE hops == agg[p].hops + 1
           branch == IF agg[p].children[q] # None THEN agg[p].children[q]
                     ELSE [total |-> 0, hops |-> hops, settled |-> FALSE]
           closed == [total |-> 0, hops |-> hops, settled |-> TRUE]
<1>1. PICK S : Channels(S, chan, seen, agg)
  BY DEF Inv
<1>2. Shape /\ CountsByParent
  BY DEF Inv
<1>3. seen' = seen /\ chan[q][p] # <<>>
  BY DEF ReceiveRequest, Arrived
<1>4. Channels(S, Taken(p, q), seen, agg)
  BY <1>1, <1>2, <1>3, TakenChannels
<1>5. CASE chan' = Taken(p, q) /\ UNCHANGED <<conn, agg>>
  <2>1. Matrix(chan')
    BY <1>2, <1>5, TakenShape
  <2>2. UNCHANGED <<seen, agg>> /\ conn' \in [Peer -> SUBSET Peer]
    BY <1>2, <1>3, <1>5 DEF Shape
  <2>3. \E S1 : Channels(S1, chan', seen, agg)
    BY <1>4, <1>5
  <2> QED
    BY <2>1, <2>2, <2>3, QuietStep
<1>6. ASSUME p \in seen,
             agg' = [agg EXCEPT ![p] = WithChild(agg[p], q, branch)],
             Drop(p, {}, Taken(p, q), [Silence EXCEPT ![q] = <<Gossip(hops)>>])
      PROVE  Inv'
  <2>1. branch # None /\ branch.total # 0 => Parent(p, q)
    BY <1>2, <1>6 DEF CountsByParent, Counts, BranchOf
  <2> HIDE DEF branch, hops
  <2> QED
    BY <2>1, <1>3, <1>6, ServeStep
<1>7. ASSUME p \in seen, NEW broken,
             Publish(p, WithChild(agg[p], q, closed), FALSE, broken,
                     Taken(p, q), Silence)
      PROVE  Inv'
  <2> DEFINE s == WithChild(agg[p], q, closed)
  <2>1. closed.total = 0
    OBVIOUS
  <2> HIDE DEF closed
  <2>2. /\ s.parent = agg[p].parent
        /\ Table(s.children)
        /\ s.children[q] = closed
        /\ \A r \in Peer \ {q} : s.children[r] = agg[p].children[r]
    BY <1>7, OwnAggregate, WithChildFacts
  <2>3. \A r \in Peer : Child0(s, r) => Parent(p, r)
    BY <1>7, <2>1, <2>2, OwnAggregate DEF Child0
  <2> HIDE DEF s
  <2>4. Publish(p, s, FALSE, broken, Taken(p, q), Silence)
    BY <1>7 DEF s
  <2>5. seen' = seen \cup {p}
    BY <1>3, <1>7
  <2> QED
    BY <2>2, <2>3, <2>4, <2>5, <1>2, <1>4, SilenceIsSilent, PublishStep
<1> QED
  BY <1>5, <1>6, <1>7 DEF ReceiveRequest

LEMMA MeshStep ==
    ASSUME Inv, NEW p \in Peer, NEW q \in Peer,
           PeerConnected(p, q) \/ PeerDisconnected(p, q)
    PROVE  Inv'
<1>1. PICK S : Channels(S, chan, seen, agg)
  BY DEF Inv
<1>2. Shape /\ CountsByParent
  BY DEF Inv
<1>3. CASE PeerConnected(p, q)
  <2>1. UNCHANGED <<seen, agg, chan>> /\ conn' \in [Peer -> SUBSET Peer]
    BY <1>2, <1>3 DEF PeerConnected, Shape
  <2>2. Matrix(chan')
    BY <1>2, <2>1 DEF Shape
  <2> QED
    BY <1>1, <2>1, <2>2, QuietStep
<1>4. CASE PeerDisconnected(p, q)
  BY <1>1, <1>2, <1>4, SilenceIsSilent, SendStep DEF PeerDisconnected
<1> QED
  BY <1>3, <1>4

-----------------------------------------------------------------------------
(* The theorem *)

LEMMA InitInv == Init => Inv
<1> SUFFICES ASSUME Init PROVE Inv
  OBVIOUS
<1>1. Shape
  BY DEF Init, Shape, Matrix, Table
<1>2. CountsByParent
  BY DEF Init, CountsByParent, Counts, BranchOf
<1>3. Channels({}, chan, seen, agg)
  BY DEF Init, Channels
<1> QED
  BY <1>1, <1>2, <1>3 DEF Inv

LEMMA NextInv == Inv /\ [Next]_vars => Inv'
<1> SUFFICES ASSUME Inv, [Next]_vars PROVE Inv'
  OBVIOUS
<1>1. CASE UNCHANGED vars \/ \E p \in Peer : PassTime(p)
  <2>1. UNCHANGED <<conn, chan, seen, agg>>
    BY <1>1 DEF vars, PassTime
  <2> QED
    BY <2>1, QuietStep DEF Inv, Shape
<1>2. CASE Broadcast
  BY <1>2, BroadcastStep
<1>3. ASSUME NEW p \in Peer, Timer(p) PROVE Inv'
  BY <1>3, TimerStep
<1>4. ASSUME NEW p \in Peer, NEW q \in Peer, Receive(p, q) PROVE Inv'
  BY <1>4, DropLateStep, ReceiveNewStep, ReceiveDuplicateStep, ReceiveEchoStep,
     ReceiveRequestStep DEF Receive
<1>5. ASSUME NEW p \in Peer, NEW q \in Peer,
             Ask(p, q) \/ PeerConnected(p, q) \/ PeerDisconnected(p, q)
      PROVE  Inv'
  BY <1>5, AskStep, MeshStep
<1> QED
  BY <1>1, <1>2, <1>3, <1>4, <1>5 DEF Next

\* No holder is counted in two branches of the reverse aggregate.
THEOREM CountedOnceAlways == Spec => []CountedOnce
<1>1. Inv => CountedOnce
  BY DEF Inv, CountsByParent, CountedOnce, Parent, ParentIn
<1> QED
  BY <1>1, InitInv, NextInv, PTL DEF Spec

-----------------------------------------------------------------------------
(* Finite sets *)

LEMMA FiniteImage ==
    ASSUME NEW S, IsFiniteSet(S), NEW f
    PROVE  IsFiniteSet({f[x] : x \in S})
<1> DEFINE T == {f[x] : x \in S}
           g == [x \in S |-> f[x]]
<1>1. g \in Surjection(S, T)
  BY DEF Surjection
<1> HIDE DEF g, T
<1>2. IsFiniteSet(T)
  BY <1>1, FS_Surjection
<1> QED
  BY <1>2 DEF T

LEMMA LeastNumber ==
    ASSUME NEW T, T \subseteq Nat, T # {}
    PROVE  \E x \in T : \A y \in T : x <= y
<1> DEFINE R == {ss \in Nat \X Nat : ss[1] < ss[2]}
<1>1. IsWellFoundedOn(R, Nat)
  <2>1. R = OpToRel(<, Nat)
    BY DEF OpToRel
  <2> QED
    BY <2>1, NatLessThanWellFounded
<1>2. PICK x \in T : \A y \in T : ~(<<y, x>> \in R)
  <2> HIDE DEF R
  <2> QED
    BY <1>1, WFMin
<1>3. ASSUME NEW y \in T
      PROVE  x <= y
  <2>1. x \in Nat /\ y \in Nat
    OBVIOUS
  <2>2. y < x => <<y, x>> \in R
    BY <2>1
  <2> QED
    BY <1>2, <2>1, <2>2
<1> QED
  BY <1>3

\* The maximum of FiniteSetsExt.
LEMMA MaxIsElement ==
    ASSUME NEW S, S \subseteq Nat, IsFiniteSet(S), S # {}
    PROVE  Max(S) \in S
<1> DEFINE above(x) == {y \in S : y > x}
           T == {Cardinality(above(x)) : x \in S}
<1>1. ASSUME NEW x \in S
      PROVE  IsFiniteSet(above(x)) /\ Cardinality(above(x)) \in Nat
  <2>1. above(x) \in SUBSET S
    OBVIOUS
  <2> HIDE DEF above
  <2> QED
    BY <2>1, FS_Subset, FS_CardinalityType
<1>2. T \subseteq Nat /\ T # {}
  <2> HIDE DEF above
  <2> QED
    BY <1>1
<1>3. PICK m \in S : \A y \in S : Cardinality(above(m)) <= Cardinality(above(y))
  <2>1. PICK n \in T : \A k \in T : n <= k
    <3> HIDE DEF T
    <3> QED
      BY <1>2, LeastNumber
  <2> HIDE DEF above
  <2> QED
    BY <2>1
<1>4. ASSUME NEW y \in S, y > m
      PROVE  FALSE
  <2>1. above(y) \in SUBSET above(m) /\ y \in above(m) /\ y \notin above(y)
    <3>1. m \in Nat /\ y \in Nat
      BY <1>4
    <3>2. \A z \in S : z > y => z > m
      BY <3>1, <1>4
    <3>3. above(y) \in SUBSET above(m)
      BY <3>2
    <3>4. y \in above(m)
      BY <1>4
    <3>5. y \notin above(y)
      BY <3>1
    <3> QED
      BY <3>3, <3>4, <3>5
  <2>2. above(y) # above(m)
    BY <2>1
  <2> HIDE DEF above
  <2>3. /\ Cardinality(above(y)) <= Cardinality(above(m))
        /\ Cardinality(above(m)) = Cardinality(above(y)) => above(m) = above(y)
    BY <2>1, <1>1, FS_Subset
  <2> QED
    BY <2>2, <2>3, <1>1, <1>3
<1>5. \A y \in S : m >= y
  BY <1>4
<1> QED
  BY <1>5 DEF Max

\* In the tree on S that `par' describes every p counts T[p], one more than
\* its children count together; D[p] is a set of that many pairs.
CountsTree(S, root, par, T, D) ==
    \A p \in S :
        /\ T[p] \in Nat
        /\ p # root => par[p] \in S
        /\ D[p] \subseteq (S \ {root}) \X Nat
        /\ \A e \in (S \ {root}) \X Nat :
              e \in D[p] <=> par[e[1]] = p /\ e[2] \in 1..T[e[1]]
        /\ T[p] = 1 + Cardinality(D[p])

\* Then the root counts S.
LEMMA Counting ==
    ASSUME NEW S, IsFiniteSet(S), NEW root \in S, NEW par, NEW T, NEW D,
           CountsTree(S, root, par, T, D)
    PROVE  T[root] = Cardinality(S)
<1> DEFINE C(p) == {e \in (S \ {root}) \X Nat :
                        par[e[1]] = p /\ e[2] \in 1..T[e[1]]}
           U == {e \in S \X Nat : e[2] \in 1..T[e[1]]}
           U0 == {e \in U : e[1] # root}
           R == {e \in U : e[1] = root}
           V == {e \in U : e[2] # T[e[1]]}
           W == {e \in U : e[2] = T[e[1]]}
<1>1. IsFiniteSet(U)
  <2> DEFINE f == [p \in S |-> {p} \X (1..T[p])]
             F == {f[p] : p \in S}
  <2>1. IsFiniteSet(F)
    <3> HIDE DEF f
    <3> QED
      BY FiniteImage
  <2>2. \A X \in F : IsFiniteSet(X)
    <3> SUFFICES ASSUME NEW p \in S PROVE IsFiniteSet({p} \X (1..T[p]))
      OBVIOUS
    <3>1. T[p] \in Nat
      BY DEF CountsTree
    <3>2. IsFiniteSet(1..T[p])
      BY <3>1, FS_Interval
    <3>3. IsFiniteSet({p})
      BY FS_Singleton
    <3> QED
      BY <3>2, <3>3, FS_Product
  <2>3. IsFiniteSet(UNION F)
    <3> HIDE DEF F
    <3> QED
      BY <2>1, <2>2, FS_UNION
  <2>4. U \in SUBSET (UNION F)
    <3> SUFFICES ASSUME NEW e \in U PROVE e \in UNION F
      OBVIOUS
    <3>1. e[1] \in S /\ e = <<e[1], e[2]>> /\ e[2] \in 1..T[e[1]]
      OBVIOUS
    <3>2. e \in f[e[1]] /\ f[e[1]] \in F
      BY <3>1
    <3> QED
      BY <3>2
  <2> HIDE DEF F, U
  <2> QED
    BY <2>3, <2>4, FS_Subset
<1>2. U0 \in SUBSET U /\ R \in SUBSET U /\ V \in SUBSET U /\ W \in SUBSET U
  OBVIOUS
<1>3. U = U0 \cup R /\ U0 \cap R = {} /\ U = V \cup W /\ V \cap W = {}
  <2> HIDE DEF U
  <2> QED
    OBVIOUS
<1>4. \A p \in S : /\ C(p) \in SUBSET U0
                   /\ IsFiniteSet(C(p))
                   /\ Cardinality(C(p)) \in Nat
                   /\ T[p] = 1 + Cardinality(C(p))
                   /\ T[p] \in Nat
  <2> SUFFICES ASSUME NEW p \in S
               PROVE  /\ C(p) \in SUBSET U0
                      /\ IsFiniteSet(C(p))
                      /\ Cardinality(C(p)) \in Nat
                      /\ T[p] = 1 + Cardinality(C(p))
                      /\ T[p] \in Nat
    OBVIOUS
  <2>1. C(p) \in SUBSET U0
    OBVIOUS
  <2>2. C(p) \in SUBSET U
    BY <2>1, <1>2
  <2>3. T[p] = 1 + Cardinality(C(p)) /\ T[p] \in Nat
    <3>1. D[p] = C(p)
      BY DEF CountsTree
    <3> QED
      BY <3>1 DEF CountsTree
  <2> HIDE DEF U, C, U0
  <2>4. IsFiniteSet(C(p))
    BY <2>2, <1>1, FS_Subset
  <2>5. Cardinality(C(p)) \in Nat
    BY <2>4, FS_CardinalityType
  <2> QED
    BY <2>1, <2>3, <2>4, <2>5
<1>5. Cardinality(R) = T[root] /\ IsFiniteSet(R)
  <2>1. R = {root} \X (1..T[root])
    OBVIOUS
  <2>2. IsFiniteSet({root}) /\ Cardinality({root}) = 1
    BY FS_Singleton
  <2>3. T[root] \in Nat
    BY <1>4
  <2>4. IsFiniteSet(1..T[root]) /\ Cardinality(1..T[root]) = T[root]
    BY <2>3, FS_Interval
  <2> HIDE DEF R
  <2> DEFINE one == {root}
             I == 1..T[root]
  <2>5. IsFiniteSet(one \X I) /\ Cardinality(one \X I) = Cardinality(one) * Cardinality(I)
    <3> HIDE DEF one, I
    <3> QED
      BY <2>2, <2>4, FS_Product DEF one, I
  <2>6. Cardinality(R) = 1 * T[root] /\ IsFiniteSet(R)
    BY <2>1, <2>2, <2>4, <2>5
  <2> QED
    BY <2>3, <2>6
<1>6. Cardinality(W) = Cardinality(S)
  <2> DEFINE w == [p \in S |-> <<p, T[p]>>]
  <2>1. \A p \in S : w[p] \in W
    <3> SUFFICES ASSUME NEW p \in S PROVE <<p, T[p]>> \in W
      OBVIOUS
    <3> DEFINE n == Cardinality(C(p))
    <3>1. n \in Nat /\ T[p] = 1 + n
      BY <1>4
    <3> HIDE DEF n
    <3>2. T[p] \in 1..T[p] /\ T[p] \in Nat
      BY <3>1
    <3> QED
      BY <3>2
  <2>2. \A e \in W : e[1] \in S /\ w[e[1]] = e
    OBVIOUS
  <2>3. \A p1, p2 \in S : w[p1] = w[p2] => p1 = p2
    OBVIOUS
  <2> HIDE DEF W
  <2>4. w \in Bijection(S, W)
    BY <2>1, <2>2, <2>3 DEF Bijection, Injection, IsInjective, Surjection
  <2> QED
    BY <2>4, FS_Bijection DEF ExistsBijection
<1>7. Cardinality(U0) = Cardinality(V)
  <2> DEFINE B == [p \in S |-> CHOOSE f : f \in Bijection(C(p), 1..Cardinality(C(p)))]
  <2>1. ASSUME NEW p \in S
        PROVE  B[p] \in Bijection(C(p), 1..Cardinality(C(p)))
    <3> HIDE DEF C
    <3>1. PICK f : f \in Bijection(1..Cardinality(C(p)), C(p))
      BY <1>4, FS_CardinalityType DEF ExistsBijection
    <3>2. \E h : h \in Bijection(C(p), 1..Cardinality(C(p)))
      BY <1>4, FS_CardinalityType, Fun_ExistsBijSymmetric DEF ExistsBijection
    <3> QED
      BY <3>2
  <2> DEFINE g == [e \in U0 |-> <<par[e[1]], B[par[e[1]]][e]>>]
  <2>2. ASSUME NEW e \in U0
        PROVE  par[e[1]] \in S /\ e \in C(par[e[1]])
    BY <2>2 DEF CountsTree
  <2>3. ASSUME NEW p \in S, NEW n
        PROVE  <<p, n>> \in V <=> n \in 1..Cardinality(C(p))
    <3>1. T[p] \in Nat /\ T[p] = 1 + Cardinality(C(p)) /\ Cardinality(C(p)) \in Nat
      BY <1>4
    <3>2. <<p, n>> \in V <=> n \in 1..T[p] /\ n # T[p]
      OBVIOUS
    <3> HIDE DEF C, V
    <3> QED
      BY <3>1, <3>2
  <2>4. \A e \in U0 : g[e] \in V
    <3> SUFFICES ASSUME NEW e \in U0 PROVE g[e] \in V
      OBVIOUS
    <3> HIDE DEF U0, V, C, B
    <3>1. B[par[e[1]]][e] \in 1..Cardinality(C(par[e[1]]))
      BY <2>1, <2>2 DEF Bijection, Injection, IsInjective
    <3> QED
      BY <3>1, <2>2, <2>3
  <2>5. \A e1, e2 \in U0 : g[e1] = g[e2] => e1 = e2
    <3> SUFFICES ASSUME NEW e1 \in U0, NEW e2 \in U0, g[e1] = g[e2]
                 PROVE  e1 = e2
      OBVIOUS
    <3> HIDE DEF U0, V, C, B
    <3>1. par[e1[1]] = par[e2[1]] /\ B[par[e1[1]]][e1] = B[par[e1[1]]][e2]
      OBVIOUS
    <3> QED
      BY <3>1, <2>1, <2>2 DEF Bijection, Injection, IsInjective
  <2>6. \A v \in V : \E e \in U0 : g[e] = v
    <3> SUFFICES ASSUME NEW v \in V PROVE \E e \in U0 : g[e] = v
      OBVIOUS
    <3>1. v[1] \in S /\ v = <<v[1], v[2]>>
      OBVIOUS
    <3>2. \A e \in C(v[1]) : e \in U0 /\ par[e[1]] = v[1]
      OBVIOUS
    <3> HIDE DEF U0, V, C, B
    <3>3. v[2] \in 1..Cardinality(C(v[1]))
      BY <3>1, <2>3
    <3>4. PICK e \in C(v[1]) : B[v[1]][e] = v[2]
      BY <3>1, <3>3, <2>1 DEF Bijection, Surjection
    <3> QED
      BY <3>1, <3>2, <3>4
  <2> HIDE DEF U0, V, B
  <2>7. g \in Bijection(U0, V)
    BY <2>4, <2>5, <2>6 DEF Bijection, Injection, IsInjective, Surjection
  <2>8. IsFiniteSet(U0)
    BY <1>1, <1>2, FS_Subset
  <2> HIDE DEF g
  <2> QED
    BY <2>7, <2>8, FS_Bijection DEF ExistsBijection
<1> HIDE DEF U, U0, R, V, W
<1>8. IsFiniteSet(U0) /\ IsFiniteSet(V) /\ IsFiniteSet(W)
  BY <1>1, <1>2, FS_Subset
<1>9. /\ Cardinality(U) = Cardinality(U0) + Cardinality(R) - Cardinality({})
      /\ Cardinality(U) = Cardinality(V) + Cardinality(W) - Cardinality({})
  BY <1>3, <1>5, <1>8, FS_Union
<1> QED
  BY <1>4, <1>5, <1>6, <1>7, <1>8, <1>9, FS_EmptySet, FS_CardinalityType
-----------------------------------------------------------------------------
(* Packets of one type in a channel *)

Free(s, t) == \A i \in 1..Len(s) : s[i].type # t

\* pkt is the only packet of its type in s.
One(s, pkt) ==
    \E i \in 1..Len(s) :
        s[i] = pkt /\ \A j \in 1..Len(s) : s[j].type = pkt.type => j = i

\* t is to the packets of a type what s was.
Same(s, t, type) ==
    /\ Free(s, type) => Free(t, type)
    /\ \A pkt : pkt.type = type /\ One(s, pkt) => One(t, pkt)

LEMMA FreeHead ==
    ASSUME NEW S, NEW s \in Seq(S), s # <<>>, NEW type, Free(s, type)
    PROVE  Head(s).type # type /\ Free(Tail(s), type)
<1>1. Len(s) \in Nat /\ Len(s) >= 1 /\ Head(s) = s[1]
  OBVIOUS
<1>2. Len(Tail(s)) = Len(s) - 1 /\ \A i \in 1..Len(Tail(s)) : Tail(s)[i] = s[i + 1]
  OBVIOUS
<1> QED
  BY <1>1, <1>2 DEF Free

LEMMA OtherHead ==
    ASSUME NEW S, NEW s \in Seq(S), s # <<>>, NEW type, Head(s).type # type
    PROVE  Same(s, Tail(s), type)
<1>1. Len(s) \in Nat /\ Len(s) >= 1 /\ Head(s) = s[1]
  OBVIOUS
<1>2. Len(Tail(s)) = Len(s) - 1 /\ \A i \in 1..Len(Tail(s)) : Tail(s)[i] = s[i + 1]
  OBVIOUS
<1>3. Free(s, type) => Free(Tail(s), type)
  BY <1>1, <1>2 DEF Free
<1>4. ASSUME NEW pkt, pkt.type = type, One(s, pkt)
      PROVE  One(Tail(s), pkt)
  <2>1. PICK i \in 1..Len(s) :
            s[i] = pkt /\ \A j \in 1..Len(s) : s[j].type = pkt.type => j = i
    BY <1>4 DEF One
  <2>2. i # 1 /\ i - 1 \in 1..Len(Tail(s)) /\ Tail(s)[i - 1] = pkt
    BY <1>1, <1>2, <1>4, <2>1
  <2>3. ASSUME NEW j \in 1..Len(Tail(s)), Tail(s)[j].type = pkt.type
        PROVE  j = i - 1
    <3>1. s[j + 1].type = pkt.type /\ j + 1 \in 1..Len(s)
      BY <1>1, <1>2, <2>3
    <3> QED
      BY <3>1, <2>1
  <2> QED
    BY <2>2, <2>3 DEF One
<1> QED
  BY <1>3, <1>4 DEF Same

LEMMA OneHead ==
    ASSUME NEW S, NEW s \in Seq(S), s # <<>>, NEW pkt, One(s, pkt),
           Head(s).type = pkt.type
    PROVE  Head(s) = pkt /\ Free(Tail(s), pkt.type)
<1>1. Len(s) \in Nat /\ Len(s) >= 1 /\ Head(s) = s[1]
  OBVIOUS
<1>2. Len(Tail(s)) = Len(s) - 1 /\ \A i \in 1..Len(Tail(s)) : Tail(s)[i] = s[i + 1]
  OBVIOUS
<1>3. s[1] = pkt /\ \A j \in 1..Len(s) : s[j].type = pkt.type => j = 1
  BY <1>1 DEF One
<1>4. ASSUME NEW j \in 1..Len(Tail(s)) PROVE Tail(s)[j].type # pkt.type
  BY <1>1, <1>2, <1>3
<1> QED
  BY <1>1, <1>3, <1>4 DEF Free

LEMMA OtherLast ==
    ASSUME NEW S, NEW s \in Seq(S), NEW last, NEW type, last.type # type
    PROVE  Same(s, Append(s, last), type)
<1>1. /\ Len(s) \in Nat /\ Len(Append(s, last)) = Len(s) + 1
      /\ Append(s, last)[Len(s) + 1] = last
      /\ \A i \in 1..Len(s) : Append(s, last)[i] = s[i]
  <2> DEFINE T == S \cup {last}
  <2>1. s \in Seq(T) /\ last \in T
    OBVIOUS
  <2> HIDE DEF T
  <2> QED
    BY <2>1
<1>2. Free(s, type) => Free(Append(s, last), type)
  BY <1>1 DEF Free
<1>3. ASSUME NEW pkt, pkt.type = type, One(s, pkt)
      PROVE  One(Append(s, last), pkt)
  <2>1. PICK i \in 1..Len(s) :
            s[i] = pkt /\ \A j \in 1..Len(s) : s[j].type = pkt.type => j = i
    BY <1>3 DEF One
  <2>2. i \in 1..Len(Append(s, last)) /\ Append(s, last)[i] = pkt
    BY <1>1, <2>1
  <2>3. ASSUME NEW j \in 1..Len(Append(s, last)),
               Append(s, last)[j].type = pkt.type
        PROVE  j = i
    BY <1>1, <1>3, <2>1, <2>3
  <2> QED
    BY <2>2, <2>3 DEF One
<1> QED
  BY <1>2, <1>3 DEF Same

LEMMA OneLast ==
    ASSUME NEW S, NEW s \in Seq(S), NEW pkt, Free(s, pkt.type)
    PROVE  One(Append(s, pkt), pkt)
<1>1. /\ Len(s) \in Nat /\ Len(Append(s, pkt)) = Len(s) + 1
      /\ Append(s, pkt)[Len(s) + 1] = pkt
      /\ \A i \in 1..Len(s) : Append(s, pkt)[i] = s[i]
  <2> DEFINE T == S \cup {pkt}
  <2>1. s \in Seq(T) /\ pkt \in T
    OBVIOUS
  <2> HIDE DEF T
  <2> QED
    BY <2>1
<1> QED
  BY <1>1 DEF Free, One

-----------------------------------------------------------------------------
(* The results of an aggregate *)

WellFormed(s) ==
    /\ s.hops \in Nat
    /\ \A q \in Branches(s) : s.children[q].total \in Nat /\ s.children[q].hops \in Nat

LEMMA ReportType ==
    ASSUME NEW s, WellFormed(s)
    PROVE  /\ Total(s) \in Nat /\ MaxHops(s) \in Nat
           /\ Report(s) # None
           /\ Report(s) \in [total : Nat, hops : Nat]
<1>1. IsFiniteSet(Branches(s))
  <2>1. Branches(s) \in SUBSET Peer
    BY DEF Branches
  <2> QED
    BY <2>1, FS_Subset, GossipEchoAssumption
<1>2. Total(s) \in Nat
  <2> DEFINE B == Branches(s)
             f == [q \in B |-> {q} \X (1..s.children[q].total)]
             F == {f[q] : q \in B}
  <2>1. IsFiniteSet(F)
    <3> HIDE DEF f, B
    <3> QED
      BY <1>1, FiniteImage DEF B
  <2>2. \A X \in F : IsFiniteSet(X)
    <3> SUFFICES ASSUME NEW q \in B
                 PROVE  IsFiniteSet({q} \X (1..s.children[q].total))
      OBVIOUS
    <3>1. s.children[q].total \in Nat
      BY DEF WellFormed
    <3>2. IsFiniteSet(1..s.children[q].total)
      BY <3>1, FS_Interval
    <3>3. IsFiniteSet({q})
      BY FS_Singleton
    <3> QED
      BY <3>2, <3>3, FS_Product
  <2>3. Counted(s) = UNION F
    BY DEF Counted
  <2> HIDE DEF F
  <2>4. IsFiniteSet(UNION F)
    BY <2>1, <2>2, FS_UNION
  <2> QED
    BY <2>3, <2>4, FS_CardinalityType DEF Total
<1>3. MaxHops(s) \in Nat
  <2> DEFINE B == Branches(s)
             f == [q \in B |-> s.children[q].hops]
             F == {f[q] : q \in B}
             H == {s.hops} \cup F
  <2>1. IsFiniteSet(F)
    <3> HIDE DEF f, B
    <3> QED
      BY <1>1, FiniteImage DEF B
  <2>2. F \subseteq Nat
    BY DEF WellFormed
  <2>3. H = {s.hops} \cup {s.children[q].hops : q \in Branches(s)}
    OBVIOUS
  <2>4. IsFiniteSet({s.hops}) /\ s.hops \in Nat
    BY FS_Singleton DEF WellFormed
  <2> HIDE DEF F
  <2>5. IsFiniteSet(H) /\ H \subseteq Nat /\ H # {}
    BY <2>1, <2>2, <2>4, FS_Union
  <2> HIDE DEF H
  <2>6. Max(H) \in Nat
    BY <2>5, MaxIsElement
  <2> QED
    BY <2>3, <2>6 DEF MaxHops
<1>4. Report(s) \in [total : Nat, hops : Nat]
  BY <1>2, <1>3 DEF Report
<1> QED
  BY <1>2, <1>3, <1>4, GossipEchoAssumption

\* What a report says depends on the branches and the hops alone.
LEMMA SameResults ==
    ASSUME NEW s, NEW t, s.children = t.children
    PROVE  Settled(s) = Settled(t) /\ Total(s) = Total(t) /\ Branches(s) = Branches(t)
           /\ (s.hops = t.hops => Report(s) = Report(t) /\ MaxHops(s) = MaxHops(t))
BY DEF Settled, Total, Counted, Branches, MaxHops, Report
-----------------------------------------------------------------------------
(* As long as nothing disturbs the spread, what p knows of its branch to q *)
(* agrees with q and with what is under way between them.                  *)

Quiet == Undisturbed /\ ~served

\* q has nothing more to add to `total', the count of its branch for p.
Result(p, q, total) ==
    /\ q \in seen
    /\ agg[q].parent = p => Settled(agg[q]) /\ total = Total(agg[q])
    /\ agg[q].parent # p => total = 0

Silent(p, q) == Free(chan[p][q], "gossip") /\ Free(chan[q][p], "echo")

Fresh(p, q) ==
    /\ One(chan[p][q], Gossip(agg[p].hops + 1)) /\ Free(chan[q][p], "echo")
    /\ ~Parent(p, q)
Growing(p, q) == Silent(p, q) /\ Parent(p, q) /\ ~Settled(agg[q])
Answered(p, q) ==
    /\ Free(chan[p][q], "gossip")
    /\ \E total, hops \in Nat :
          /\ One(chan[q][p], Echo([total |-> total, hops |-> hops]))
          /\ Result(p, q, total)

Absent(p, q) == Silent(p, q) /\ ~Parent(p, q)
Open(p, q, b) ==
    ~b.settled /\ b.total = 0 /\ (Fresh(p, q) \/ Growing(p, q) \/ Answered(p, q))
Closed(p, q, b) == b.settled /\ Silent(p, q) /\ Result(p, q, b.total)

Edge(p, q) ==
    LET b == BranchOf(p, q)
    IN  IF b = None THEN Absent(p, q)
        ELSE /\ q \in conn[p]
             /\ b.total \in Nat /\ b.hops \in Nat
             /\ Open(p, q, b) \/ Closed(p, q, b)

Holder(p) ==
    LET s == agg[p]
    IN  /\ s.hops \in Nat
        /\ p = Root => s.parent = None
        /\ p # Root => s.parent \in seen /\ s.hops = agg[s.parent].hops + 1
        /\ s.sent = IF p # Root /\ Settled(s) THEN Report(s) ELSE None

Status(s) == [total |-> Total(s), hops |-> MaxHops(s), settled |-> Settled(s)]

Tree ==
    /\ conn = [p \in Peer |-> {q \in Peer \ {p} : {p, q} \in Links}]
    /\ \A p, q \in Peer : chan[p][q] # <<>> => q \in conn[p]
    /\ \A p \in seen : Holder(p)
    /\ \A p, q \in Peer : Edge(p, q)
    /\ Root \in seen => told = Status(agg[Root])
    /\ Root \notin seen => told = None /\ seen = {}

TreeInv ==
    /\ Inv
    /\ phase \in [Peer -> Nat] /\ faults \in Nat
    /\ Quiet => Tree

LEMMA Neighbours ==
    ASSUME Tree
    PROVE  \A x, y \in Peer : /\ x \in conn[y] <=> y \in conn[x]
                              /\ x \notin conn[x] /\ conn[x] \subseteq Peer
<1> SUFFICES ASSUME NEW x \in Peer, NEW y \in Peer
             PROVE  /\ x \in conn[y] <=> y \in conn[x]
                    /\ x \notin conn[x] /\ conn[x] \subseteq Peer
  OBVIOUS
<1>1. /\ conn[x] = {q \in Peer \ {x} : {x, q} \in Links}
      /\ conn[y] = {q \in Peer \ {y} : {y, q} \in Links}
  BY DEF Tree
<1>2. {x, y} = {y, x}
  OBVIOUS
<1> QED
  BY <1>1, <1>2

LEMMA Sequences ==
    ASSUME Inv
    PROVE  \E S : \A x, y \in Peer : chan[x][y] \in Seq(S)
<1>1. PICK S : Channels(S, chan, seen, agg)
  BY DEF Inv
<1>2. \A x, y \in Peer : Truthful(S, seen, agg, x, y) \subseteq S
  BY DEF Truthful
<1>3. ASSUME NEW x \in Peer, NEW y \in Peer
      PROVE  chan[x][y] \in Seq(S)
  <2>1. chan[x][y] \in Seq(Truthful(S, seen, agg, x, y))
    BY <1>1 DEF Channels
  <2> QED
    BY <2>1, <1>2, SeqMonotone
<1> QED
  BY <1>3

LEMMA TakenQueues ==
    ASSUME Inv, NEW S, \A x, y \in Peer : chan[x][y] \in Seq(S),
           NEW p \in Peer, NEW q \in Peer, chan[q][p] # <<>>
    PROVE  /\ \A x, y \in Peer : Taken(p, q)[x][y] =
                  IF x = q /\ y = p THEN Tail(chan[q][p]) ELSE chan[x][y]
           /\ \A x, y \in Peer : Taken(p, q)[x][y] \in Seq(S)
           /\ \A x, y \in Peer : Taken(p, q)[x][y] # <<>> => chan[x][y] # <<>>
<1>1. \A x, y \in Peer : Taken(p, q)[x][y] =
          IF x = q /\ y = p THEN Tail(chan[q][p]) ELSE chan[x][y]
  BY DEF Taken, Inv, Shape, Matrix, Table
<1>2. Tail(chan[q][p]) \in Seq(S)
  OBVIOUS
<1> QED
  BY <1>1, <1>2

\* Only members of an aggregate have branches, and these are well formed.
LEMMA HolderForm ==
    ASSUME Tree, NEW p \in Peer, p \in seen
    PROVE  WellFormed(agg[p])
<1>1. agg[p].hops \in Nat
  BY DEF Tree, Holder
<1>2. ASSUME NEW q \in Branches(agg[p])
      PROVE  agg[p].children[q].total \in Nat /\ agg[p].children[q].hops \in Nat
  <2>1. q \in Peer /\ Edge(p, q) /\ BranchOf(p, q) = agg[p].children[q]
        /\ BranchOf(p, q) # None
    BY DEF Tree, Branches, BranchOf
  <2> QED
    BY <2>1 DEF Edge
<1> QED
  BY <1>1, <1>2 DEF WellFormed

LEMMA ParentFacts ==
    ASSUME Tree, Inv, NEW p \in Peer, p \in seen, p # Root
    PROVE  /\ agg[p].parent \in seen /\ agg[p].parent \in Peer
           /\ agg[p].parent \in conn[p] /\ agg[p].parent # None
           /\ BranchOf(agg[p].parent, p) # None
<1> DEFINE r == agg[p].parent
<1>1. r \in seen /\ r \in Peer
  BY DEF Tree, Holder, Inv, Shape
<1>2. Parent(r, p) /\ Edge(r, p)
  BY <1>1 DEF Parent, ParentIn, Tree
<1>3. BranchOf(r, p) # None /\ p \in conn[r]
  BY <1>2 DEF Edge, Absent
<1> QED
  BY <1>1, <1>3, Neighbours, GossipEchoAssumption

-----------------------------------------------------------------------------
(* Steps of a quiet spread *)

\* What a step does not touch stays as it is.
LEMMA EdgeKept ==
    ASSUME NEW x \in Peer, NEW y \in Peer, Edge(x, y), conn' = conn,
           x \in seen' => x \in seen, x \in seen => x \in seen',
           y \in seen' => y \in seen, y \in seen => y \in seen',
           x \in seen => /\ agg'[x].children[y] = agg[x].children[y]
                         /\ agg'[x].hops = agg[x].hops,
           y \in seen => /\ agg'[y].parent = agg[y].parent
                         /\ agg[y].parent = x => agg'[y].children = agg[y].children,
           Same(chan[x][y], chan'[x][y], "gossip"),
           Same(chan[y][x], chan'[y][x], "echo")
    PROVE  Edge(x, y)'
<1> DEFINE b == BranchOf(x, y)
<1>1. BranchOf(x, y)' = b
  BY DEF BranchOf
<1>2. Parent(x, y)' => Parent(x, y)
  BY DEF Parent, ParentIn
<1>3. Parent(x, y) => Parent(x, y)'
  BY DEF Parent, ParentIn
<1>4. y \in seen /\ agg[y].parent = x
        => Settled(agg'[y]) = Settled(agg[y]) /\ Total(agg'[y]) = Total(agg[y])
  BY SameResults
<1>5. ASSUME NEW total, Result(x, y, total)
      PROVE  Result(x, y, total)'
  BY <1>4, <1>5 DEF Result
<1>6. Silent(x, y) => Silent(x, y)'
  BY DEF Silent, Same
<1>7. CASE b = None
  BY <1>1, <1>2, <1>6, <1>7 DEF Edge, Absent
<1>8. CASE b # None
  <2>1. x \in seen
    BY <1>8 DEF BranchOf
  <2>2. y \in conn[x] /\ b.total \in Nat /\ b.hops \in Nat
    BY <1>8 DEF Edge
  <2>3. Fresh(x, y) => Fresh(x, y)'
    <3>1. Gossip(agg[x].hops + 1)' = Gossip(agg[x].hops + 1)
      BY <2>1 DEF Gossip
    <3>2. Gossip(agg[x].hops + 1).type = "gossip"
      BY DEF Gossip
    <3> QED
      BY <1>2, <3>1, <3>2 DEF Fresh, Same
  <2>4. Growing(x, y) => Growing(x, y)'
    BY <1>3, <1>4, <1>6 DEF Growing, Parent, ParentIn
  <2>5. ASSUME Answered(x, y) PROVE Answered(x, y)'
    <3>1. PICK total \in Nat, hops \in Nat :
              /\ One(chan[y][x], Echo([total |-> total, hops |-> hops]))
              /\ Result(x, y, total)
      BY <2>5 DEF Answered
    <3>2. Echo([total |-> total, hops |-> hops]).type = "echo"
      BY DEF Echo
    <3>3. One(chan'[y][x], Echo([total |-> total, hops |-> hops]))
      BY <3>1, <3>2 DEF Same
    <3>4. Free(chan'[x][y], "gossip")
      BY <2>5 DEF Answered, Same
    <3> QED
      BY <3>1, <3>3, <3>4, <1>5 DEF Answered
  <2>6. Open(x, y, b) => Open(x, y, b)'
    BY <1>1, <2>3, <2>4, <2>5 DEF Open
  <2>7. Closed(x, y, b) => Closed(x, y, b)'
    BY <1>1, <1>5, <1>6 DEF Closed
  <2>8. Open(x, y, b) \/ Closed(x, y, b)
    BY <1>8 DEF Edge
  <2>9. (Open(x, y, b) \/ Closed(x, y, b))'
    BY <2>6, <2>7, <2>8
  <2>10. (y \in conn[x] /\ b.total \in Nat /\ b.hops \in Nat /\ b # None)'
    BY <1>1, <1>8, <2>2
  <2> QED
    BY <2>9, <2>10 DEF Edge
<1> QED
  BY <1>7, <1>8

LEMMA NoneBroken ==
    ASSUME NEW p \in Peer, NEW broken, NEW queues, NEW out,
           Drop(p, broken, queues, out), conn \in [Peer -> SUBSET Peer],
           faults \in Nat, faults' = 0
    PROVE  broken = {} /\ conn' = conn
<1>1. broken \in SUBSET Peer
  BY DEF Drop
<1>2. IsFiniteSet(broken) /\ Cardinality(broken) \in Nat
  BY <1>1, FS_Subset, FS_CardinalityType, GossipEchoAssumption
<1>3. Cardinality(broken) = 0
  BY <1>2 DEF Drop
<1>4. broken = {}
  BY <1>2, <1>3, FS_EmptySet
<1>5. conn' = [conn EXCEPT ![p] = conn[p] \ broken]
  BY DEF Drop
<1> QED
  BY <1>4, <1>5

LEMMA QuietDrop ==
    ASSUME Tree, NEW p \in Peer, NEW broken, NEW queues, NEW out,
           Drop(p, broken, queues, out), conn \in [Peer -> SUBSET Peer],
           faults \in Nat, faults' = 0,
           NEW S, \A y \in Peer : queues[p][y] \in Seq(S),
           \A y \in Peer : out[y] # <<>> => y \in conn[p]
    PROVE  \A x, y \in Peer :
              chan'[x][y] = IF x = p THEN queues[p][y] \o out[y] ELSE queues[x][y]
<1> SUFFICES ASSUME NEW x \in Peer, NEW y \in Peer
             PROVE  chan'[x][y] =
                        IF x = p THEN queues[p][y] \o out[y] ELSE queues[x][y]
  OBVIOUS
<1>1. broken = {}
  BY NoneBroken
<1>2. chan'[x][y] = IF x = p /\ p \in conn[y] THEN queues[p][y] \o out[y]
                    ELSE queues[x][y]
  BY <1>1 DEF Drop
<1>3. p \notin conn[y] => out[y] = <<>>
  BY Neighbours
<1>4. queues[p][y] \o <<>> = queues[p][y]
  OBVIOUS
<1> QED
  BY <1>2, <1>3, <1>4

LEMMA AppendConcat ==
    ASSUME NEW S, NEW s \in Seq(S), NEW e
    PROVE  s \o <<e>> = Append(s, e) /\ Append(<<>>, e) = <<e>> /\ s \o <<>> = s
<1> DEFINE T == S \cup {e}
<1>1. s \in Seq(T) /\ e \in T
  OBVIOUS
<1> HIDE DEF T
<1> QED
  BY <1>1

\* p has published s without losing a channel.
Published(p, s, force, queues, out) ==
    /\ conn' = conn
    /\ \A x \in Peer \ {p} : agg'[x] = agg[x]
    /\ agg'[p].parent = s.parent /\ agg'[p].hops = s.hops
    /\ agg'[p].children = s.children
    /\ agg'[p].sent = IF Reports(s, force) THEN Report(s) ELSE s.sent
    /\ told' = IF s.parent = None THEN Status(s) ELSE told
    /\ \A x, y \in Peer :
          chan'[x][y] =
              IF x # p THEN queues[x][y]
              ELSE IF Reports(s, force) /\ y = s.parent
                   THEN Append(queues[p][y], Echo(Report(s)))
                   ELSE queues[p][y] \o out[y]

LEMMA QuietPublish ==
    ASSUME Tree, Inv, NEW p \in Peer, NEW s, NEW force, NEW broken, NEW queues,
           NEW out, NEW S,
           Publish(p, s, force, broken, queues, out), faults \in Nat, faults' = 0,
           \A y \in Peer : queues[p][y] \in Seq(S),
           \A y \in Peer : out[y] # <<>> => y \in conn[p],
           s.parent # None => s.parent \in conn[p] /\ out[s.parent] = <<>>
    PROVE  broken = {} /\ Published(p, s, force, queues, out)
<1> DEFINE sends == Reports(s, force) /\ s.parent \in conn[p] \ broken
           echo == Echo(Report(s))
           sent == [q \in Peer |-> IF sends /\ q = s.parent
                                   THEN Append(out[q], echo) ELSE out[q]]
<1>1. conn \in [Peer -> SUBSET Peer]
  BY DEF Inv, Shape
<1>2. Drop(p, broken, queues, sent)
  BY DEF Publish
<1>3. broken = {} /\ conn' = conn
  <2> HIDE DEF sent
  <2> QED
    BY <1>1, <1>2, NoneBroken
<1>4. \A y \in Peer : sent[y] # <<>> => y \in conn[p]
  BY <1>3
<1>5. \A x, y \in Peer :
          chan'[x][y] = IF x = p THEN queues[p][y] \o sent[y] ELSE queues[x][y]
  <2> HIDE DEF sent
  <2> QED
    BY <1>1, <1>2, <1>4, QuietDrop
<1>6. Reports(s, force) => sends
  BY <1>3 DEF Reports
<1>7. /\ \A x \in Peer \ {p} : agg'[x] = agg[x]
      /\ agg'[p] = IF sends THEN Aggregate(s.parent, s.hops, s.children, Report(s))
                   ELSE s
  BY DEF Publish, Inv, Shape, Table
<1>8. /\ agg'[p].parent = s.parent /\ agg'[p].hops = s.hops
      /\ agg'[p].children = s.children
      /\ agg'[p].sent = IF Reports(s, force) THEN Report(s) ELSE s.sent
  <2> HIDE DEF sends
  <2>1. sends => Reports(s, force)
    BY DEF sends
  <2> QED
    BY <1>6, <1>7, <2>1 DEF Aggregate
<1>9. told' = IF s.parent = None THEN Status(s) ELSE told
  BY DEF Publish, Status
<1>10. ASSUME NEW y \in Peer
       PROVE  queues[p][y] \o sent[y] =
                  IF Reports(s, force) /\ y = s.parent
                  THEN Append(queues[p][y], echo)
                  ELSE queues[p][y] \o out[y]
  <2>1. sends => Reports(s, force)
    OBVIOUS
  <2> HIDE DEF sends, echo
  <2>2. CASE Reports(s, force) /\ y = s.parent
    <3>1. s.parent # None
      BY <2>2 DEF Reports
    <3>2. sent[y] = Append(<<>>, echo)
      BY <1>6, <2>2, <3>1
    <3>3. sent[y] = <<echo>>
      BY <3>2, AppendConcat
    <3>4. queues[p][y] \o <<echo>> = Append(queues[p][y], echo)
      BY AppendConcat
    <3> QED
      BY <2>2, <3>3, <3>4
  <2>3. CASE ~(Reports(s, force) /\ y = s.parent)
    <3>1. sent[y] = out[y]
      BY <2>1, <2>3
    <3> QED
      BY <2>3, <3>1
  <2> QED
    BY <2>2, <2>3
<1>11. \A x, y \in Peer :
           chan'[x][y] =
               IF x # p THEN queues[x][y]
               ELSE IF Reports(s, force) /\ y = s.parent
                    THEN Append(queues[p][y], echo)
                    ELSE queues[p][y] \o out[y]
  <2> HIDE DEF sent, echo
  <2> QED
    BY <1>5, <1>10
<1> QED
  <2> HIDE DEF sends, sent
  <2> QED
    BY <1>3, <1>7, <1>8, <1>9, <1>11 DEF Published

\* p has registered the aggregate and sent copies to `selected'.
Joined(p, parent, hops, selected, queues) ==
    /\ conn' = conn
    /\ \A x \in Peer \ {p} : agg'[x] = agg[x]
    /\ agg'[p].parent = parent /\ agg'[p].hops = hops
    /\ \A y \in Peer : agg'[p].children[y] =
           IF y \in selected
           THEN [total |-> 0, hops |-> hops, settled |-> FALSE] ELSE None
    /\ agg'[p].sent = IF parent # None /\ Settled(agg'[p])
                      THEN Report(agg'[p]) ELSE None
    /\ told' = IF parent = None THEN Status(agg'[p]) ELSE told
    /\ \A x, y \in Peer :
          chan'[x][y] =
              IF x # p THEN queues[x][y]
              ELSE IF y \in selected THEN Append(queues[p][y], Gossip(hops + 1))
              ELSE IF y = parent /\ Settled(agg'[p])
              THEN Append(queues[p][y], Echo(Report(agg'[p])))
              ELSE queues[p][y]

\* The first copy at p, or the broadcast itself.
LEMMA QuietJoin ==
    ASSUME Tree, Inv, NEW p \in Peer, NEW parent, NEW hops, NEW excluded,
           NEW queues, NEW S,
           Join(p, parent, hops, excluded, queues), faults \in Nat, faults' = 0,
           \A y \in Peer : queues[p][y] \in Seq(S),
           hops \in Nat,
           parent = None \/ parent \in excluded \cap conn[p]
    PROVE  \E selected \in SUBSET conn[p] :
              /\ selected \cap excluded = {}
              /\ Joined(p, parent, hops, selected, queues)
<1>1. PICK cursor \in 0..Cardinality(Peer), broken \in SUBSET conn[p] :
          LET selected == SelectFanoutPeers(conn[p], excluded, cursor,
                                            Cardinality(Peer)).peers
          IN  Publish(p,
                Aggregate(parent, hops, OpenBranches(selected, hops, broken), None),
                FALSE, broken, queues,
                [q \in Peer |-> IF q \in selected \ broken
                                THEN <<Gossip(hops + 1)>> ELSE <<>>])
  BY DEF Join
<1> DEFINE selected == SelectFanoutPeers(conn[p], excluded, cursor,
                                         Cardinality(Peer)).peers
           s == Aggregate(parent, hops, OpenBranches(selected, hops, broken), None)
           copy == Gossip(hops + 1)
           out == [q \in Peer |-> IF q \in selected \ broken
                                  THEN <<copy>> ELSE <<>>]
<1>2. selected \in SUBSET conn[p] /\ selected \cap excluded = {}
  BY DEF SelectFanoutPeers
<1> HIDE DEF selected
<1>3. Publish(p, s, FALSE, broken, queues, out)
  BY <1>1 DEF selected
<1>4. /\ s.parent = parent /\ s.hops = hops /\ s.sent = None
      /\ s.children = OpenBranches(selected, hops, broken)
  BY DEF Aggregate
<1>5. \A y \in Peer : out[y] # <<>> => y \in conn[p]
  BY <1>2
<1>6. parent # None => parent \in conn[p] /\ parent \in Peer /\ out[parent] = <<>>
  BY <1>2 DEF Inv, Shape
<1>70. broken = {} /\ Published(p, s, FALSE, queues, out)
  <2>1. s.parent # None => s.parent \in conn[p] /\ out[s.parent] = <<>>
    <3> HIDE DEF s, out
    <3> QED
      BY <1>4, <1>6
  <2> HIDE DEF s, out
  <2> QED
    BY <1>3, <1>5, <2>1, QuietPublish
<1>7. /\ broken = {} /\ conn' = conn
      /\ \A x \in Peer \ {p} : agg'[x] = agg[x]
      /\ agg'[p].parent = s.parent /\ agg'[p].hops = s.hops
      /\ agg'[p].children = s.children
      /\ agg'[p].sent = IF Reports(s, FALSE) THEN Report(s) ELSE s.sent
      /\ told' = IF s.parent = None THEN Status(s) ELSE told
      /\ \A x, y \in Peer :
            chan'[x][y] =
                IF x # p THEN queues[x][y]
                ELSE IF Reports(s, FALSE) /\ y = s.parent
                     THEN Append(queues[p][y], Echo(Report(s)))
                     ELSE queues[p][y] \o out[y]
  <2> HIDE DEF s, out
  <2> QED
    BY <1>70 DEF Published
<1>8. \A y \in Peer : agg'[p].children[y] =
          IF y \in selected
          THEN [total |-> 0, hops |-> hops, settled |-> FALSE] ELSE None
  <2> SUFFICES ASSUME NEW y \in Peer
               PROVE  agg'[p].children[y] =
                  IF y \in selected
                  THEN [total |-> 0, hops |-> hops, settled |-> FALSE] ELSE None
    OBVIOUS
  <2>1. (y \in broken) = FALSE
    BY <1>7
  <2>2. agg'[p].children[y] =
            IF y \in selected
            THEN [total |-> 0, hops |-> hops, settled |-> y \in broken] ELSE None
    <3>1. agg'[p].children = OpenBranches(selected, hops, broken)
      BY <1>4, <1>7
    <3> QED
      BY <3>1 DEF OpenBranches
  <2> QED
    BY <2>1, <2>2
<1> HIDE DEF s
<1>9. WellFormed(s)
  <2>1. \A q \in Branches(s) : s.children[q] =
            [total |-> 0, hops |-> hops, settled |-> FALSE]
    BY <1>7, <1>8 DEF Branches
  <2> QED
    BY <1>4, <2>1 DEF WellFormed
<1>10. Reports(s, FALSE) = (parent # None /\ Settled(s))
  BY <1>4, <1>9, ReportType DEF Reports
<1>11. /\ Settled(agg'[p]) = Settled(s) /\ Report(agg'[p]) = Report(s)
       /\ Status(agg'[p]) = Status(s)
  BY <1>7, SameResults DEF Status
<1>12. ASSUME NEW y \in Peer
       PROVE  queues[p][y] \o out[y] =
                  IF y \in selected THEN Append(queues[p][y], copy)
                  ELSE queues[p][y]
  <2>1. out[y] = IF y \in selected THEN <<copy>> ELSE <<>>
    BY <1>7
  <2> HIDE DEF copy, out
  <2>2. /\ queues[p][y] \o <<copy>> = Append(queues[p][y], copy)
        /\ queues[p][y] \o <<>> = queues[p][y]
    BY AppendConcat
  <2> QED
    BY <2>1, <2>2
<1>13. parent \notin selected
  BY <1>2, <1>6, GossipEchoAssumption DEF Inv, Shape
<1>14. ASSUME NEW x \in Peer, NEW y \in Peer
       PROVE  chan'[x][y] =
                     IF x # p THEN queues[x][y]
                     ELSE IF y \in selected THEN Append(queues[p][y], copy)
                     ELSE IF y = parent /\ Settled(agg'[p])
                     THEN Append(queues[p][y], Echo(Report(agg'[p])))
                     ELSE queues[p][y]
  <2>1. y = parent => y # None
    BY GossipEchoAssumption
  <2> HIDE DEF copy, out
  <2> QED
    BY <1>4, <1>7, <1>10, <1>11, <1>12, <1>13, <2>1
<1>15. Joined(p, parent, hops, selected, queues)
  BY <1>4, <1>7, <1>8, <1>10, <1>11, <1>14 DEF Joined
<1> QED
  BY <1>2, <1>15

\* An edge that has just been opened.
LEMMA FreshEdge ==
    ASSUME NEW x \in Peer, NEW y \in Peer, NEW h \in Nat,
           BranchOf(x, y)' = [total |-> 0, hops |-> h, settled |-> FALSE],
           y \in conn'[x], Fresh(x, y)'
    PROVE  Edge(x, y)'
<1> DEFINE b == BranchOf(x, y)'
<1>1. b # None /\ b.total = 0 /\ b.hops = h /\ ~b.settled
  <2>1. [total |-> 0, hops |-> h, settled |-> FALSE]
            \in [total : Nat, hops : Nat, settled : BOOLEAN]
    OBVIOUS
  <2>2. b = [total |-> 0, hops |-> h, settled |-> FALSE]
    OBVIOUS
  <2> HIDE DEF b
  <2>3. b # None
    BY <2>1, <2>2, GossipEchoAssumption
  <2>4. b.total = 0 /\ b.hops = h /\ b.settled = FALSE
    BY <2>2
  <2> QED
    BY <2>3, <2>4
<1>2. (Open(x, y, BranchOf(x, y)))'
  BY <1>1 DEF Open
<1> QED
  BY <1>1, <1>2 DEF Edge

LEMMA AbsentEdge ==
    ASSUME NEW x \in Peer, NEW y \in Peer, BranchOf(x, y)' = None, Absent(x, y)'
    PROVE  Edge(x, y)'
BY DEF Edge

LEMMA BroadcastTree ==
    ASSUME Inv, Tree, faults \in Nat, faults' = 0, Broadcast
    PROVE  Tree'
<1>1. Root \in Peer /\ seen = {} /\ seen' = {Root}
  BY GossipEchoAssumption DEF Broadcast, Tree
<1>2. PICK S : \A x, y \in Peer : chan[x][y] \in Seq(S)
  BY Sequences
<1>3. PICK selected \in SUBSET conn[Root] :
          selected \cap {Root} = {} /\ Joined(Root, None, 0, selected, chan)
  <2>1. Join(Root, None, 0, {Root}, chan)
    BY DEF Broadcast
  <2> QED
    BY <1>1, <1>2, <2>1, QuietJoin
<1>4. conn' = conn /\ agg'[Root].parent = None /\ agg'[Root].hops = 0
      /\ agg'[Root].sent = None /\ told' = Status(agg'[Root])
  BY <1>3 DEF Joined
<1>5. \A y \in Peer : agg'[Root].children[y] =
          IF y \in selected THEN [total |-> 0, hops |-> 0, settled |-> FALSE] ELSE None
  BY <1>3 DEF Joined
<1>6. \A x, y \in Peer :
          chan'[x][y] = IF x = Root /\ y \in selected
                        THEN Append(chan[x][y], Gossip(1)) ELSE chan[x][y]
  <2>1. \A y \in Peer : y # None
    BY GossipEchoAssumption
  <2> QED
    BY <1>3, <2>1 DEF Joined
<1>7. ASSUME NEW x \in Peer, NEW y \in Peer
      PROVE  Edge(x, y)'
  <2>1. Silent(x, y)
    BY <1>1 DEF Tree, Edge, BranchOf, Absent
  <2>2. Gossip(1).type = "gossip"
    BY DEF Gossip
  <2>3. Free(chan'[y][x], "echo")
    <3>1. Same(chan[y][x], Append(chan[y][x], Gossip(1)), "echo")
      BY <1>2, <2>2, OtherLast
    <3> QED
      BY <2>1, <3>1, <1>6 DEF Silent, Same
  <2>4. ~Parent(x, y)'
    BY <1>1, <1>4, GossipEchoAssumption DEF Parent, ParentIn
  <2>5. CASE x = Root /\ y \in selected
    <3>1. BranchOf(x, y)' = [total |-> 0, hops |-> 0, settled |-> FALSE]
      BY <1>1, <1>5, <2>5 DEF BranchOf
    <3>2. One(chan'[x][y], Gossip(1))
      BY <1>2, <1>6, <2>1, <2>2, <2>5, OneLast DEF Silent
    <3>3. agg'[x].hops + 1 = 1
      BY <1>4, <2>5
    <3>4. Fresh(x, y)'
      BY <2>3, <2>4, <3>2, <3>3 DEF Fresh
    <3>5. y \in conn'[x]
      BY <1>4, <2>5
    <3> QED
      BY <3>1, <3>4, <3>5, FreshEdge
  <2>6. CASE ~(x = Root /\ y \in selected)
    <3>1. BranchOf(x, y)' = None
      BY <1>1, <1>5, <2>6 DEF BranchOf
    <3>2. Absent(x, y)'
      BY <1>6, <2>1, <2>3, <2>4, <2>6 DEF Absent, Silent
    <3> QED
      BY <3>1, <3>2, AbsentEdge
  <2> QED
    BY <2>5, <2>6
<1>8. ASSUME NEW x \in Peer, NEW y \in Peer, chan'[x][y] # <<>>
      PROVE  y \in conn'[x]
  BY <1>3, <1>4, <1>6, <1>8 DEF Tree
<1>9. \A x \in seen' : Holder(x)'
  BY <1>1, <1>4 DEF Holder
<1> QED
  BY <1>1, <1>4, <1>7, <1>8, <1>9 DEF Tree

LEMMA ReceiveNewTree ==
    ASSUME Inv, Tree, faults \in Nat, faults' = 0,
           NEW p \in Peer, NEW q \in Peer, ReceiveNew(p, q)
    PROVE  Tree'
<1> DEFINE pkt == Head(chan[q][p])
           queues == Taken(p, q)
           echo == Echo(Report(agg'[p]))
           copy == Gossip(pkt.hops + 1)
<1>1. /\ chan[q][p] # <<>> /\ pkt.type = "gossip"
      /\ p \notin seen /\ seen' = seen \cup {p}
      /\ Join(p, q, pkt.hops, {Root, q}, queues)
  BY DEF ReceiveNew, Arrived
<1>2. PICK S : \A x, y \in Peer : chan[x][y] \in Seq(S)
  BY Sequences
<1>3. /\ \A x, y \in Peer : queues[x][y] =
             IF x = q /\ y = p THEN Tail(chan[q][p]) ELSE chan[x][y]
      /\ \A x, y \in Peer : queues[x][y] \in Seq(S)
      /\ \A x, y \in Peer : queues[x][y] # <<>> => chan[x][y] # <<>>
  BY <1>1, <1>2, TakenQueues
<1> HIDE DEF queues
<1>4. p \in conn[q] /\ q \in conn[p] /\ p # q
  BY <1>1, Neighbours DEF Tree
<1>5. /\ ~Free(chan[q][p], "gossip") /\ Edge(q, p)
  BY <1>1, <1>2, FreeHead DEF Tree
<1>6. q \in seen /\ BranchOf(q, p) # None /\ Fresh(q, p)
      /\ Open(q, p, BranchOf(q, p))
  BY <1>5 DEF Edge, Absent, Open, Closed, Silent, Growing, Answered, BranchOf
<1>7. /\ pkt = Gossip(agg[q].hops + 1) /\ Free(Tail(chan[q][p]), "gossip")
  <2>1. Gossip(agg[q].hops + 1).type = "gossip"
    BY DEF Gossip
  <2> QED
    BY <1>1, <1>2, <1>6, <2>1, OneHead DEF Fresh
<1>8. agg[q].hops \in Nat /\ pkt.hops = agg[q].hops + 1 /\ pkt.hops \in Nat
  <2>1. agg[q].hops \in Nat
    BY <1>6 DEF Tree, Holder
  <2> QED
    BY <1>7, <2>1 DEF Gossip
<1>9. Root \in seen /\ p # Root
  BY <1>1, <1>6 DEF Tree
<1>10. PICK selected \in SUBSET conn[p] :
           /\ selected \cap {Root, q} = {}
           /\ Joined(p, q, pkt.hops, selected, queues)
  <2> DEFINE excluded == {Root, q}
             hops == pkt.hops
  <2>1. q \in excluded \cap conn[p] /\ hops \in Nat
    BY <1>4, <1>8
  <2>2. Join(p, q, hops, excluded, queues)
    BY <1>1
  <2>3. \A y \in Peer : queues[p][y] \in Seq(S)
    BY <1>3
  <2> HIDE DEF excluded, hops
  <2>4. \E selected \in SUBSET conn[p] :
            /\ selected \cap excluded = {}
            /\ Joined(p, q, hops, selected, queues)
    BY <2>1, <2>2, <2>3, QuietJoin
  <2> QED
    BY <2>4 DEF excluded, hops
<1>11. /\ conn' = conn
       /\ \A x \in Peer \ {p} : agg'[x] = agg[x]
       /\ agg'[p].parent = q /\ agg'[p].hops = pkt.hops
       /\ \A y \in Peer : agg'[p].children[y] =
              IF y \in selected
              THEN [total |-> 0, hops |-> pkt.hops, settled |-> FALSE] ELSE None
       /\ agg'[p].sent = IF Settled(agg'[p]) THEN Report(agg'[p]) ELSE None
       /\ told' = told
       /\ \A x, y \in Peer :
             chan'[x][y] =
                 IF x # p THEN queues[x][y]
                 ELSE IF y \in selected THEN Append(queues[p][y], copy)
                 ELSE IF y = q /\ Settled(agg'[p]) THEN Append(queues[p][y], echo)
                 ELSE queues[p][y]
  <2>1. q # None
    BY GossipEchoAssumption
  <2> QED
    BY <1>10, <2>1 DEF Joined
<1>12. copy.type = "gossip" /\ echo.type = "echo"
  BY DEF Gossip, Echo
<1>13. ASSUME NEW y \in Peer
       PROVE  /\ BranchOf(p, y) = None /\ Silent(p, y) /\ ~Parent(p, y)
              /\ chan[p][y] \in Seq(S) /\ queues[p][y] = chan[p][y]
  <2>1. BranchOf(p, y) = None
    BY <1>1 DEF BranchOf
  <2> QED
    BY <1>2, <1>3, <1>4, <2>1 DEF Tree, Edge, Absent
<1>14. WellFormed(agg'[p])
  <2>1. \A y \in Branches(agg'[p]) : agg'[p].children[y] =
            [total |-> 0, hops |-> pkt.hops, settled |-> FALSE]
    BY <1>11 DEF Branches
  <2> QED
    BY <1>8, <1>11, <2>1 DEF WellFormed
<1> HIDE DEF pkt, copy, echo
\* The branch of the sender to p.
<1>15. Edge(q, p)'
  <2>1. Free(chan'[q][p], "gossip")
    BY <1>3, <1>4, <1>7, <1>11
  <2>2. Parent(q, p)'
    BY <1>1, <1>11 DEF Parent, ParentIn
  <2>3. BranchOf(q, p)' = BranchOf(q, p)
    BY <1>1, <1>4, <1>6, <1>11 DEF BranchOf
  <2>4. Free(chan[p][q], "echo") /\ chan[p][q] \in Seq(S)
    BY <1>6, <1>13 DEF Fresh
  <2>5. q \notin selected
    BY <1>10
  <2>6. CASE Settled(agg'[p])
    <3>1. chan'[p][q] = Append(chan[p][q], echo)
      BY <1>11, <1>13, <2>5, <2>6
    <3>2. One(chan'[p][q], echo)
      BY <1>12, <2>4, <3>1, OneLast
    <3>3. PICK total \in Nat, hops \in Nat :
              Report(agg'[p]) = [total |-> total, hops |-> hops]
      BY <1>14, ReportType
    <3>4. total = Total(agg'[p])
      BY <3>3 DEF Report
    <3>5. Result(q, p, total)'
      BY <1>1, <1>11, <2>6, <3>4 DEF Result
    <3>6. echo = Echo([total |-> total, hops |-> hops])
      BY <3>3 DEF echo
    <3>7. Answered(q, p)'
      BY <2>1, <3>2, <3>5, <3>6 DEF Answered
    <3>8. (Open(q, p, BranchOf(q, p)))'
      BY <1>6, <2>3, <3>7 DEF Open
    <3> QED
      BY <1>5, <1>6, <1>11, <2>3, <3>8 DEF Edge
  <2>7. CASE ~Settled(agg'[p])
    <3>1. chan'[p][q] = chan[p][q]
      BY <1>11, <1>13, <2>5, <2>7
    <3>2. Growing(q, p)'
      BY <2>1, <2>2, <2>4, <2>7, <3>1 DEF Growing, Silent
    <3>3. (Open(q, p, BranchOf(q, p)))'
      BY <1>6, <2>3, <3>2 DEF Open
    <3> QED
      BY <1>5, <1>6, <1>11, <2>3, <3>3 DEF Edge
  <2> QED
    BY <2>6, <2>7
\* The branches that p opens.
<1>16. ASSUME NEW y \in Peer
       PROVE  Edge(p, y)'
  <2>1. Free(chan'[y][p], "echo")
    <3>1. CASE y = q
      <4>1. Free(chan[q][p], "echo")
        BY <1>13, <3>1 DEF Silent
      <4>2. Free(Tail(chan[q][p]), "echo")
        BY <1>1, <1>2, <4>1, FreeHead
      <4> QED
        BY <1>3, <1>4, <1>11, <3>1, <4>2
    <3>2. CASE y = p
      BY <1>3, <1>4, <1>11, <1>13, <3>2, Neighbours DEF Silent
    <3>3. CASE y # p /\ y # q
      BY <1>3, <1>11, <1>13, <3>3 DEF Silent
    <3> QED
      BY <3>1, <3>2, <3>3
  <2>2. ~Parent(p, y)'
    <3>1. y = p => agg'[y].parent # p
      BY <1>4, <1>11
    <3>2. y # p => (y \in seen' => y \in seen) /\ agg'[y] = agg[y]
      BY <1>1, <1>11
    <3> QED
      BY <1>13, <3>1, <3>2 DEF Parent, ParentIn
  <2>3. CASE y \in selected
    <3>1. BranchOf(p, y)' = [total |-> 0, hops |-> pkt.hops, settled |-> FALSE]
      BY <1>1, <1>11, <2>3 DEF BranchOf
    <3>2. One(chan'[p][y], copy)
      BY <1>11, <1>12, <1>13, <2>3, OneLast DEF Silent
    <3>3. copy = Gossip(agg'[p].hops + 1)
      BY <1>11 DEF copy
    <3>4. Fresh(p, y)'
      BY <2>1, <2>2, <3>2, <3>3 DEF Fresh
    <3>5. y \in conn'[p]
      BY <1>11, <2>3
    <3> QED
      BY <1>8, <3>1, <3>4, <3>5, FreshEdge
  <2>4. CASE y \notin selected
    <3>1. BranchOf(p, y)' = None
      BY <1>1, <1>11, <2>4 DEF BranchOf
    <3>2. Same(chan[p][y], Append(chan[p][y], echo), "gossip")
      BY <1>12, <1>13, OtherLast
    <3>3. chan'[p][y] = chan[p][y] \/ chan'[p][y] = Append(chan[p][y], echo)
      BY <1>11, <1>13, <2>4
    <3>4. Free(chan'[p][y], "gossip")
      BY <1>13, <3>2, <3>3 DEF Same, Silent
    <3>5. Absent(p, y)'
      BY <2>1, <2>2, <3>4 DEF Absent, Silent
    <3> QED
      BY <3>1, <3>5, AbsentEdge
  <2> QED
    BY <2>3, <2>4
\* The branches of others to p: p joined another one.
<1>17. ASSUME NEW x \in Peer, x # p, x # q
       PROVE  Edge(x, p)'
  <2>1. chan'[x][p] = chan[x][p]
    BY <1>3, <1>11, <1>17
  <2>2. chan'[p][x] = chan[p][x] \/ chan'[p][x] = Append(chan[p][x], copy)
    BY <1>11, <1>13, <1>17
  <2>3. Same(chan[p][x], Append(chan[p][x], copy), "echo")
    BY <1>12, <1>13, OtherLast
  <2>4. Free(chan[p][x], "echo") => Free(chan'[p][x], "echo")
    BY <2>2, <2>3 DEF Same
  <2>5. ~Parent(x, p)'
    BY <1>11, <1>17 DEF Parent, ParentIn
  <2>6. BranchOf(x, p)' = BranchOf(x, p)
    BY <1>1, <1>11, <1>17 DEF BranchOf
  <2>7. Edge(x, p)
    BY DEF Tree
  <2>8. CASE BranchOf(x, p) = None
    <3>1. Absent(x, p)'
      BY <2>1, <2>4, <2>5, <2>7, <2>8 DEF Edge, Absent, Silent
    <3> QED
      BY <2>6, <2>8, <3>1, AbsentEdge
  <2>9. CASE BranchOf(x, p) # None
    <3>1. Open(x, p, BranchOf(x, p)) /\ Fresh(x, p)
      BY <1>1, <2>7, <2>9 DEF Edge, Open, Closed, Growing, Answered, Result, Parent, ParentIn
    <3>2. agg'[x] = agg[x]
      BY <1>11, <1>17
    <3>3. Fresh(x, p)'
      BY <2>1, <2>4, <2>5, <3>1, <3>2 DEF Fresh
    <3>4. (Open(x, p, BranchOf(x, p)))'
      BY <2>6, <3>1, <3>3 DEF Open
    <3> QED
      BY <2>6, <2>7, <2>9, <1>11, <3>4 DEF Edge
  <2> QED
    BY <2>8, <2>9
<1>18. ASSUME NEW x \in Peer, NEW y \in Peer, x # p, y # p
       PROVE  Edge(x, y)'
  <2>1. chan'[x][y] = chan[x][y] /\ chan'[y][x] = chan[y][x]
    BY <1>3, <1>11, <1>18
  <2>2. agg'[x] = agg[x] /\ agg'[y] = agg[y]
    BY <1>11, <1>18
  <2>3. Same(chan[x][y], chan'[x][y], "gossip") /\ Same(chan[y][x], chan'[y][x], "echo")
    BY <2>1 DEF Same
  <2>4. Edge(x, y)
    BY DEF Tree
  <2> QED
    BY <1>1, <1>11, <1>18, <2>2, <2>3, <2>4, EdgeKept
<1>19. ASSUME NEW x \in Peer, NEW y \in Peer
       PROVE  Edge(x, y)'
  BY <1>15, <1>16, <1>17, <1>18
<1>20. ASSUME NEW x \in Peer, NEW y \in Peer, chan'[x][y] # <<>>
       PROVE  y \in conn'[x]
  <2>1. chan[x][y] # <<>> => y \in conn[x]
    BY DEF Tree
  <2>2. CASE x # p
    BY <1>3, <1>11, <1>20, <2>1, <2>2
  <2>3. CASE x = p
    BY <1>3, <1>4, <1>11, <1>20, <2>1, <2>3
  <2> QED
    BY <2>2, <2>3
<1>21. ASSUME NEW x \in seen'
       PROVE  Holder(x)'
  <2>1. CASE x = p
    <3>1. agg'[q] = agg[q]
      BY <1>4, <1>11
    <3> QED
      BY <1>1, <1>6, <1>8, <1>9, <1>11, <2>1, <3>1 DEF Holder
  <2>2. CASE x # p
    <3>1. x \in seen /\ x \in Peer
      BY <1>1, <2>2 DEF Inv, Shape
    <3>2. agg'[x] = agg[x] /\ Holder(x)
      BY <1>11, <2>2, <3>1 DEF Tree
    <3>3. x # Root => agg'[agg[x].parent] = agg[agg[x].parent]
      <4>1. x # Root => agg[x].parent \in seen /\ agg[x].parent \in Peer
        BY <3>1, <3>2 DEF Holder, Inv, Shape
      <4> QED
        BY <1>1, <1>11, <4>1
    <3> QED
      BY <1>1, <3>2, <3>3 DEF Holder
  <2> QED
    BY <2>1, <2>2
<1>22. Root \in seen' /\ told' = Status(agg'[Root])
  BY <1>1, <1>9, <1>11, GossipEchoAssumption DEF Tree
<1> QED
  BY <1>11, <1>19, <1>20, <1>21, <1>22 DEF Tree

\* Steps that change no aggregate and no copy or answer under way.
LEMMA NeutralTree ==
    ASSUME Inv, Tree, conn' = conn, seen' = seen, told' = told,
           \A x \in Peer : agg'[x] = agg[x],
           \A x, y \in Peer : /\ Same(chan[x][y], chan'[x][y], "gossip")
                              /\ Same(chan[x][y], chan'[x][y], "echo")
                              /\ chan'[x][y] # <<>> => y \in conn[x]
    PROVE  Tree'
<1>1. ASSUME NEW x \in Peer, NEW y \in Peer
      PROVE  Edge(x, y)'
  <2>1. Edge(x, y)
    BY DEF Tree
  <2> QED
    BY <2>1, EdgeKept
<1>2. ASSUME NEW x \in seen'
      PROVE  Holder(x)'
  <2>1. x \in seen /\ x \in Peer /\ Holder(x) /\ agg'[x] = agg[x]
    BY DEF Inv, Shape, Tree
  <2>2. x # Root => agg'[agg[x].parent] = agg[agg[x].parent]
    BY <2>1 DEF Holder, Inv, Shape
  <2> QED
    BY <2>1, <2>2 DEF Holder
<1>3. agg'[Root] = agg[Root]
  BY GossipEchoAssumption
<1>4. \A x, y \in Peer : chan'[x][y] # <<>> => y \in conn'[x]
  OBVIOUS
<1> QED
  BY <1>1, <1>2, <1>3, <1>4 DEF Tree

LEMMA SameSelf == \A s, type : Same(s, s, type)
BY DEF Same

LEMMA TakenRequestTree ==
    ASSUME Inv, Tree, NEW p \in Peer, NEW q \in Peer, Arrived(p, q, "request"),
           chan' = Taken(p, q), conn' = conn, seen' = seen, agg' = agg, told' = told
    PROVE  Tree'
<1>1. PICK S : \A x, y \in Peer : chan[x][y] \in Seq(S)
  BY Sequences
<1>2. chan[q][p] # <<>> /\ Head(chan[q][p]).type = "request"
  BY DEF Arrived
<1>3. /\ \A x, y \in Peer : chan'[x][y] =
             IF x = q /\ y = p THEN Tail(chan[q][p]) ELSE chan[x][y]
      /\ \A x, y \in Peer : chan'[x][y] # <<>> => chan[x][y] # <<>>
  BY <1>1, <1>2, TakenQueues
<1>4. /\ Same(chan[q][p], Tail(chan[q][p]), "gossip")
      /\ Same(chan[q][p], Tail(chan[q][p]), "echo")
  BY <1>1, <1>2, OtherHead
<1>5. \A x, y \in Peer : /\ Same(chan[x][y], chan'[x][y], "gossip")
                         /\ Same(chan[x][y], chan'[x][y], "echo")
                         /\ chan'[x][y] # <<>> => y \in conn[x]
  BY <1>3, <1>4, SameSelf DEF Tree
<1> QED
  BY <1>5, NeutralTree

LEMMA AskTree ==
    ASSUME Inv, Tree, NEW p \in Peer, NEW q \in Peer, Ask(p, q)
    PROVE  Tree'
<1> DEFINE request == [type |-> "request"]
<1>1. PICK S : \A x, y \in Peer : chan[x][y] \in Seq(S)
  BY Sequences
<1>2. /\ \A x, y \in Peer : chan'[x][y] =
             IF x = p /\ y = q THEN Append(chan[p][q], request) ELSE chan[x][y]
      /\ q \in conn[p] /\ UNCHANGED <<conn, seen, agg, told>>
  BY DEF Ask, Inv, Shape, Matrix, Table
<1>3. request.type # "gossip" /\ request.type # "echo"
  OBVIOUS
<1> HIDE DEF request
<1>4. /\ Same(chan[p][q], Append(chan[p][q], request), "gossip")
      /\ Same(chan[p][q], Append(chan[p][q], request), "echo")
  BY <1>1, <1>3, OtherLast
<1>5. \A x, y \in Peer : /\ Same(chan[x][y], chan'[x][y], "gossip")
                         /\ Same(chan[x][y], chan'[x][y], "echo")
                         /\ chan'[x][y] # <<>> => y \in conn[x]
  BY <1>2, <1>4, SameSelf DEF Tree
<1> QED
  BY <1>2, <1>5, NeutralTree

\* A request that was sent on a channel is served, and that is not quiet,
\* or dropped.
LEMMA ReceiveRequestTree ==
    ASSUME Inv, Tree, faults \in Nat, faults' = 0, ~served',
           NEW p \in Peer, NEW q \in Peer, ReceiveRequest(p, q)
    PROVE  Tree'
<1>1. Arrived(p, q, "request") /\ seen' = seen
  BY DEF ReceiveRequest
<1>2. q \in conn[p]
  BY <1>1, Neighbours DEF Arrived, Tree
<1>3. CASE chan' = Taken(p, q) /\ UNCHANGED <<conn, agg, told, served, faults>>
  BY <1>1, <1>3, TakenRequestTree
<1>4. ASSUME NEW broken \in SUBSET conn[p], q \notin conn[p] \ broken,
             NEW s, NEW queues, Publish(p, s, FALSE, broken, queues, Silence)
      PROVE  FALSE
  <2>1. conn \in [Peer -> SUBSET Peer]
    BY DEF Inv, Shape
  <2>2. broken = {}
    BY <1>4, <2>1, NoneBroken DEF Publish
  <2> QED
    BY <1>2, <1>4, <2>2
<1> QED
  BY <1>3, <1>4 DEF ReceiveRequest

\* The timers have nothing to do before the deadline.
LEMMA TimerTree ==
    ASSUME Inv, Tree, faults \in Nat, faults' = 0,
           NEW p \in Peer, phase[p] = 0, Timer(p)
    PROVE  Tree'
<1>1. PICK S : \A x, y \in Peer : chan[x][y] \in Seq(S)
  BY Sequences
<1>2. p \in seen /\ seen' = seen
  BY DEF Timer
<1>3. PICK broken \in SUBSET conn[p] :
          Publish(p, agg[p], FALSE, broken, chan, Silence)
  <2>1. (IF phase[p] > 0 /\ ~Settled(agg[p]) THEN CloseBranches(agg[p])
         ELSE agg[p]) = agg[p]
    OBVIOUS
  <2> QED
    BY <2>1 DEF Timer
<1>4. Holder(p) /\ WellFormed(agg[p])
  BY <1>2, HolderForm DEF Tree
<1>5. p # Root => agg[p].parent \in conn[p] /\ agg[p].parent \in Peer
                  /\ agg[p].parent # None
  BY <1>2, ParentFacts
<1>6. p = Root => agg[p].parent = None
  BY <1>4 DEF Holder
<1>7. Published(p, agg[p], FALSE, chan, Silence)
  <2>1. agg[p].parent # None => /\ agg[p].parent \in conn[p]
                                /\ Silence[agg[p].parent] = <<>>
    BY <1>5, <1>6 DEF Silence
  <2>2. \A y \in Peer : Silence[y] = <<>>
    BY DEF Silence
  <2>3. \A y \in Peer : Silence[y] # <<>> => y \in conn[p]
    BY <2>2
  <2>4. \A y \in Peer : chan[p][y] \in Seq(S)
    BY <1>1
  <2> DEFINE s == agg[p]
  <2>5. /\ Publish(p, s, FALSE, broken, chan, Silence)
        /\ s.parent # None => s.parent \in conn[p] /\ Silence[s.parent] = <<>>
    BY <1>3, <2>1
  <2> HIDE DEF s
  <2>6. Published(p, s, FALSE, chan, Silence)
    BY <2>3, <2>4, <2>5, QuietPublish
  <2> QED
    BY <2>6 DEF s
<1>8. ~Reports(agg[p], FALSE)
  BY <1>4, <1>6 DEF Reports, Holder
<1>9. agg'[p] = agg[p] /\ told' = told
  <2>1. agg'[p] = agg[p]
    <3>1. ~(Reports(agg[p], FALSE) /\ agg[p].parent \in conn[p] \ broken)
      BY <1>8
    <3> QED
      BY <1>3, <3>1 DEF Publish, Inv, Shape, Table
  <2>2. CASE agg[p].parent = None
    <3>1. p = Root
      BY <1>5, <2>2
    <3> QED
      BY <1>2, <1>7, <2>1, <2>2, <3>1 DEF Published, Tree
  <2>3. CASE agg[p].parent # None
    BY <1>7, <2>1, <2>3 DEF Published
  <2> QED
    BY <2>2, <2>3
<1>10. \A x, y \in Peer : chan'[x][y] = chan[x][y]
  <2> SUFFICES ASSUME NEW x \in Peer, NEW y \in Peer
               PROVE  chan'[x][y] = chan[x][y]
    OBVIOUS
  <2>1. chan[p][y] \o <<>> = chan[p][y]
    BY <1>1, AppendConcat
  <2> QED
    BY <1>7, <1>8, <2>1 DEF Published, Silence
<1>11. conn' = conn /\ \A x \in Peer : agg'[x] = agg[x]
  BY <1>7, <1>9 DEF Published
<1>12. \A x, y \in Peer : /\ Same(chan[x][y], chan'[x][y], "gossip")
                          /\ Same(chan[x][y], chan'[x][y], "echo")
                          /\ chan'[x][y] # <<>> => y \in conn[x]
  BY <1>10, SameSelf DEF Tree
<1> QED
  BY <1>2, <1>9, <1>11, <1>12, NeutralTree

LEMMA ReceiveDuplicateTree ==
    ASSUME Inv, Tree, faults \in Nat, faults' = 0,
           NEW p \in Peer, NEW q \in Peer, ReceiveDuplicate(p, q)
    PROVE  Tree'
<1> DEFINE pkt == Head(chan[q][p])
           answer == Echo([total |-> 0, hops |-> pkt.hops])
           out == [Silence EXCEPT ![q] = <<answer>>]
           queues == Taken(p, q)
<1>1. /\ chan[q][p] # <<>> /\ pkt.type = "gossip"
      /\ p \in seen /\ seen' = seen
  BY DEF ReceiveDuplicate, Arrived
<1>2. PICK S : \A x, y \in Peer : chan[x][y] \in Seq(S)
  BY Sequences
<1>3. /\ \A x, y \in Peer : queues[x][y] =
             IF x = q /\ y = p THEN Tail(chan[q][p]) ELSE chan[x][y]
      /\ \A x, y \in Peer : queues[x][y] \in Seq(S)
      /\ \A x, y \in Peer : queues[x][y] # <<>> => chan[x][y] # <<>>
  BY <1>1, <1>2, TakenQueues
<1> HIDE DEF queues
<1>4. p \in conn[q] /\ q \in conn[p] /\ p # q
  BY <1>1, Neighbours DEF Tree
<1>5. /\ ~Free(chan[q][p], "gossip") /\ Edge(q, p)
  BY <1>1, <1>2, FreeHead DEF Tree
<1>6. q \in seen /\ BranchOf(q, p) # None /\ Fresh(q, p)
      /\ Open(q, p, BranchOf(q, p))
  BY <1>5 DEF Edge, Absent, Open, Closed, Silent, Growing, Answered, BranchOf
<1>7. /\ pkt = Gossip(agg[q].hops + 1) /\ Free(Tail(chan[q][p]), "gossip")
  <2>1. Gossip(agg[q].hops + 1).type = "gossip"
    BY DEF Gossip
  <2> QED
    BY <1>1, <1>2, <1>6, <2>1, OneHead DEF Fresh
<1>8. pkt.hops \in Nat
  <2>1. agg[q].hops \in Nat
    BY <1>6 DEF Tree, Holder
  <2> QED
    BY <1>7, <2>1 DEF Gossip
<1>9. agg[p].parent # q
  BY <1>1, <1>6 DEF Fresh, Parent, ParentIn
<1>10. PICK broken :
           /\ Drop(p, broken, queues,
                   [Silence EXCEPT ![q] = IF q \in conn[p] \ broken
                                          THEN <<answer>> ELSE <<>>])
           /\ UNCHANGED <<agg, told>>
  BY <1>9 DEF ReceiveDuplicate, queues
<1>11. broken = {} /\ conn' = conn
  <2>1. conn \in [Peer -> SUBSET Peer]
    BY DEF Inv, Shape
  <2> HIDE DEF answer
  <2> QED
    BY <1>10, <2>1, NoneBroken
<1>12. \A x, y \in Peer :
           chan'[x][y] = IF x = p /\ y = q THEN Append(chan[p][q], answer)
                         ELSE queues[x][y]
  <2>1. conn \in [Peer -> SUBSET Peer]
    BY DEF Inv, Shape
  <2>2. Drop(p, broken, queues, out)
    BY <1>4, <1>10, <1>11
  <2>3. \A y \in Peer : out[y] = IF y = q THEN <<answer>> ELSE <<>>
    BY DEF Silence
  <2> HIDE DEF answer, out
  <2>4. \A y \in Peer : out[y] # <<>> => y \in conn[p]
    BY <1>4, <2>3
  <2>5. \A x, y \in Peer :
            chan'[x][y] = IF x = p THEN queues[p][y] \o out[y] ELSE queues[x][y]
    BY <1>3, <2>1, <2>2, <2>4, QuietDrop
  <2>6. ASSUME NEW y \in Peer
        PROVE  queues[p][y] \o out[y] =
                   IF y = q THEN Append(chan[p][q], answer) ELSE queues[p][y]
    <3>1. /\ queues[p][y] \o <<answer>> = Append(queues[p][y], answer)
          /\ queues[p][y] \o <<>> = queues[p][y]
      BY <1>3, AppendConcat
    <3>2. queues[p][q] = chan[p][q]
      BY <1>3, <1>4
    <3> QED
      BY <2>3, <3>1, <3>2
  <2> QED
    BY <2>5, <2>6
<1>13. answer.type = "echo" /\ pkt.type = "gossip"
  BY <1>1 DEF Echo
<1> HIDE DEF answer, pkt
<1>14. ASSUME NEW x \in Peer, NEW y \in Peer, ~(x = q /\ y = p)
       PROVE  Edge(x, y)'
  <2>1. Same(chan[x][y], chan'[x][y], "gossip")
    <3>1. Same(chan[p][q], Append(chan[p][q], answer), "gossip")
      BY <1>2, <1>13, OtherLast
    <3> QED
      BY <1>3, <1>12, <1>14, <3>1, SameSelf
  <2>2. Same(chan[y][x], chan'[y][x], "echo")
    <3>1. Same(chan[q][p], Tail(chan[q][p]), "echo")
      BY <1>1, <1>2, <1>13, OtherHead DEF pkt
    <3> QED
      BY <1>3, <1>4, <1>12, <1>14, <3>1, SameSelf
  <2>3. Edge(x, y)
    BY DEF Tree
  <2> QED
    BY <1>1, <1>10, <1>11, <2>1, <2>2, <2>3, EdgeKept
<1>15. Edge(q, p)'
  <2>1. chan'[q][p] = Tail(chan[q][p]) /\ chan'[p][q] = Append(chan[p][q], answer)
    BY <1>3, <1>4, <1>12
  <2>2. Free(chan'[q][p], "gossip")
    BY <1>7, <2>1
  <2>3. One(chan'[p][q], answer)
    BY <1>2, <1>6, <1>13, <2>1, OneLast DEF Fresh
  <2>4. Result(q, p, 0)'
    BY <1>1, <1>9, <1>10 DEF Result
  <2>5. Answered(q, p)'
    BY <1>8, <2>2, <2>3, <2>4 DEF Answered, answer
  <2>6. BranchOf(q, p)' = BranchOf(q, p)
    BY <1>1, <1>10 DEF BranchOf
  <2>7. (Open(q, p, BranchOf(q, p)))'
    BY <1>6, <2>5, <2>6 DEF Open
  <2> QED
    BY <1>5, <1>6, <1>11, <2>6, <2>7 DEF Edge
<1>16. ASSUME NEW x \in Peer, NEW y \in Peer, chan'[x][y] # <<>>
       PROVE  y \in conn'[x]
  BY <1>3, <1>4, <1>11, <1>12, <1>16 DEF Tree
<1>17. ASSUME NEW x \in seen'
       PROVE  Holder(x)'
  <2>1. Holder(x)
    BY <1>1 DEF Tree
  <2> QED
    BY <1>1, <1>10, <2>1 DEF Holder
<1>18. \A x, y \in Peer : Edge(x, y)'
  BY <1>14, <1>15
<1> QED
  BY <1>1, <1>10, <1>11, <1>16, <1>17, <1>18 DEF Tree

LEMMA ReceiveEchoTree ==
    ASSUME Inv, Tree, faults \in Nat, faults' = 0,
           NEW p \in Peer, NEW q \in Peer, ReceiveEcho(p, q)
    PROVE  Tree'
<1> DEFINE old == BranchOf(p, q)
           pkt == Head(chan[q][p])
           new == [total |-> MaxOf(old.total, pkt.total),
                   hops |-> MaxOf(old.hops, pkt.hops), settled |-> TRUE]
           queues == Taken(p, q)
           s == WithChild(agg[p], q, new)
           echo == Echo(Report(s))
<1>1. /\ chan[q][p] # <<>> /\ pkt.type = "echo" /\ seen' = seen
  BY DEF ReceiveEcho, Arrived
<1>2. PICK S : \A x, y \in Peer : chan[x][y] \in Seq(S)
  BY Sequences
<1>3. /\ \A x, y \in Peer : queues[x][y] =
             IF x = q /\ y = p THEN Tail(chan[q][p]) ELSE chan[x][y]
      /\ \A x, y \in Peer : queues[x][y] \in Seq(S)
      /\ \A x, y \in Peer : queues[x][y] # <<>> => chan[x][y] # <<>>
  BY <1>1, <1>2, TakenQueues
<1> HIDE DEF queues
<1>4. p \in conn[q] /\ q \in conn[p] /\ p # q
  BY <1>1, Neighbours DEF Tree
<1>5. ~Free(chan[q][p], "echo") /\ Edge(p, q)
  BY <1>1, <1>2, FreeHead DEF Tree
<1>6. /\ old # None /\ p \in seen
      /\ old.total \in Nat /\ old.hops \in Nat
      /\ ~old.settled /\ old.total = 0 /\ Answered(p, q)
  BY <1>5 DEF Edge, Absent, Open, Closed, Silent, Fresh, Growing, BranchOf
<1>7. PICK total \in Nat, hops \in Nat :
          /\ pkt = Echo([total |-> total, hops |-> hops])
          /\ Free(Tail(chan[q][p]), "echo")
          /\ Result(p, q, total)
  <2>1. PICK total \in Nat, hops \in Nat :
            /\ One(chan[q][p], Echo([total |-> total, hops |-> hops]))
            /\ Result(p, q, total)
    BY <1>6 DEF Answered
  <2>2. Echo([total |-> total, hops |-> hops]).type = "echo"
    BY DEF Echo
  <2> HIDE DEF pkt
  <2>3. /\ pkt = Echo([total |-> total, hops |-> hops])
        /\ Free(Tail(chan[q][p]), "echo")
    BY <1>1, <1>2, <2>1, <2>2, OneHead DEF pkt
  <2> QED
    BY <2>1, <2>3
<1>8. /\ new.total = total /\ new.hops \in Nat /\ new.settled /\ new # None
      /\ new.total \in Nat
  <2>1. pkt.total = total /\ pkt.hops = hops
    BY <1>7 DEF Echo
  <2> HIDE DEF pkt, old
  <2>2. MaxOf(old.total, pkt.total) = total /\ MaxOf(old.hops, pkt.hops) \in Nat
    BY <1>6, <2>1 DEF MaxOf
  <2>3. new \in [total : Nat, hops : Nat, settled : BOOLEAN]
    BY <2>2
  <2>4. new # None
    BY <2>3, GossipEchoAssumption
  <2> QED
    BY <2>2, <2>4
<1>9. old # new
  <2>1. new.settled
    BY <1>8
  <2> QED
    BY <1>6, <2>1
<1>10. PICK broken : Publish(p, s, FALSE, broken, queues, Silence)
  BY <1>6, <1>9 DEF ReceiveEcho, queues
<1> HIDE DEF new
<1>11. /\ s.parent = agg[p].parent
       /\ s.children[q] = new
       /\ \A r \in Peer \ {q} : s.children[r] = agg[p].children[r]
  BY <1>6, OwnAggregate, WithChildFacts
<1>12. s.hops = agg[p].hops /\ s.sent = agg[p].sent
  BY DEF WithChild, Aggregate
<1> HIDE DEF s
<1>13. Holder(p) /\ WellFormed(agg[p])
  BY <1>6, HolderForm DEF Tree
<1>14. WellFormed(s)
  <2>1. \A r \in Branches(s) : r = q \/ (r \in Branches(agg[p]) /\ r \in Peer \ {q})
    BY <1>11 DEF Branches
  <2> QED
    BY <1>8, <1>11, <1>12, <1>13, <2>1 DEF WellFormed
<1>15. ~Settled(agg[p])
  BY <1>6 DEF Settled, Branches, BranchOf
<1>16. agg[p].sent = None
  BY <1>13, <1>15 DEF Holder
<1>17. /\ p = Root => agg[p].parent = None
       /\ p # Root => /\ agg[p].parent \in conn[p] /\ agg[p].parent \in Peer
                      /\ agg[p].parent # None /\ agg[p].parent \in seen
                      /\ BranchOf(agg[p].parent, p) # None
  BY <1>6, <1>13, ParentFacts DEF Holder
<1>100. PICK r : r = agg[p].parent
  OBVIOUS
<1> DEFINE reports == p # Root /\ Settled(s)
<1>18. Reports(s, FALSE) = reports
  BY <1>11, <1>12, <1>14, <1>16, <1>17, ReportType DEF Reports
<1>19. Published(p, s, FALSE, queues, Silence)
  <2>1. \A y \in Peer : Silence[y] = <<>>
    BY DEF Silence
  <2>2. \A y \in Peer : queues[p][y] \in Seq(S)
    BY <1>3
  <2>3. s.parent # None => s.parent \in conn[p] /\ Silence[s.parent] = <<>>
    BY <1>11, <1>17, <2>1
  <2>4. \A y \in Peer : Silence[y] # <<>> => y \in conn[p]
    BY <2>1
  <2> QED
    BY <1>10, <2>2, <2>3, <2>4, QuietPublish
<1>20. /\ conn' = conn
       /\ \A x \in Peer \ {p} : agg'[x] = agg[x]
       /\ agg'[p].parent = r /\ agg'[p].hops = agg[p].hops
       /\ agg'[p].children = s.children
       /\ agg'[p].sent = IF reports THEN Report(s) ELSE None
       /\ told' = IF p = Root THEN Status(s) ELSE told
  <2>1. s.parent = None <=> p = Root
    BY <1>11, <1>100, <1>17
  <2> QED
    BY <1>11, <1>12, <1>16, <1>18, <1>19, <1>100, <2>1 DEF Published
<1>21. \A x, y \in Peer :
           chan'[x][y] = IF x = p /\ y = r /\ reports THEN Append(chan[p][y], echo)
                         ELSE queues[x][y]
  <2> SUFFICES ASSUME NEW x \in Peer, NEW y \in Peer
               PROVE  chan'[x][y] =
                          IF x = p /\ y = r /\ reports THEN Append(chan[p][y], echo)
                          ELSE queues[x][y]
    OBVIOUS
  <2>1. queues[p][y] \o Silence[y] = queues[p][y]
    BY <1>3, AppendConcat DEF Silence
  <2>2. queues[p][y] = chan[p][y]
    BY <1>3, <1>4
  <2>3. chan'[x][y] =
            IF x # p THEN queues[x][y]
            ELSE IF Reports(s, FALSE) /\ y = s.parent
                 THEN Append(queues[p][y], echo)
                 ELSE queues[p][y] \o Silence[y]
    BY <1>19 DEF Published
  <2> HIDE DEF echo
  <2> QED
    BY <1>11, <1>18, <1>100, <2>1, <2>2, <2>3
<1>22. /\ Settled(agg'[p]) = Settled(s) /\ Total(agg'[p]) = Total(s)
       /\ Report(agg'[p]) = Report(s) /\ Status(agg'[p]) = Status(s)
  BY <1>12, <1>20, SameResults DEF Status
<1>23. echo.type = "echo"
  BY DEF Echo
<1> HIDE DEF echo, pkt, reports
<1>24. ASSUME NEW x \in Peer, NEW y \in Peer
       PROVE  Same(chan[x][y], chan'[x][y], "gossip")
  <2>1. Same(chan[x][y], Append(chan[x][y], echo), "gossip")
    BY <1>2, <1>23, OtherLast
  <2>2. Same(chan[q][p], Tail(chan[q][p]), "gossip")
    BY <1>1, <1>2, OtherHead DEF pkt
  <2> QED
    BY <1>3, <1>21, <2>1, <2>2, SameSelf
\* The branch that is answered.
<1>25. Edge(p, q)'
  <2>1. BranchOf(p, q)' = new
    BY <1>1, <1>6, <1>11, <1>20 DEF BranchOf
  <2>2. Free(chan'[p][q], "gossip")
    BY <1>6, <1>24 DEF Answered, Same
  <2>3. Free(chan'[q][p], "echo")
    BY <1>3, <1>4, <1>7, <1>21
  <2>4. agg'[q] = agg[q]
    BY <1>4, <1>20
  <2>5. Result(p, q, total)'
    BY <1>1, <1>7, <2>4 DEF Result
  <2>6. Closed(p, q, BranchOf(p, q))'
    BY <1>8, <2>1, <2>2, <2>3, <2>5 DEF Closed, Silent
  <2> QED
    BY <1>4, <1>8, <1>20, <2>1, <2>6 DEF Edge
\* The other branches of p.
<1>26. ASSUME NEW y \in Peer, y # q
       PROVE  Edge(p, y)'
  <2>1. Edge(p, y) /\ y # p => agg'[y] = agg[y]
    BY <1>20
  <2>2. Edge(p, y)
    BY DEF Tree
  <2>3. Same(chan[y][p], chan'[y][p], "echo")
    <3>1. y = p => r # p
      BY <1>100, <1>17, Neighbours, GossipEchoAssumption
    <3> QED
      BY <1>3, <1>21, <1>26, <3>1, SameSelf
  <2>4. agg'[p].children[y] = agg[p].children[y] /\ agg'[p].hops = agg[p].hops
    BY <1>11, <1>20, <1>26
  <2>5. agg'[y].parent = agg[y].parent
    BY <1>20, <1>100
  <2>6. agg[y].parent = p => agg'[y] = agg[y]
    <3>1. y = p => r # p
      BY <1>100, <1>17, Neighbours, GossipEchoAssumption
    <3> QED
      BY <1>20, <1>100, <3>1
  <2> QED
    BY <1>1, <1>20, <1>24, <2>2, <2>3, <2>4, <2>5, <2>6, EdgeKept
\* The branch of the parent of p to p.
<1>27. ASSUME p # Root
       PROVE  Edge(r, p)'
  <2>1. Edge(r, p) /\ r \in Peer /\ r # p
    BY <1>100, <1>17, <1>27, Neighbours DEF Tree
  <2>2. Parent(r, p) /\ Parent(r, p)'
    BY <1>1, <1>6, <1>20, <1>100 DEF Parent, ParentIn
  <2>3. Growing(r, p) /\ Open(r, p, BranchOf(r, p))
    BY <1>6, <1>15, <1>100, <1>17, <1>27, <2>1, <2>2
       DEF Edge, Open, Closed, Fresh, Answered, Result, Parent, ParentIn
  <2>4. BranchOf(r, p)' = BranchOf(r, p)
    BY <1>1, <1>20, <2>1 DEF BranchOf
  <2>5. Free(chan'[r][p], "gossip")
    BY <1>24, <2>1, <2>3 DEF Growing, Silent, Same
  <2>6. chan[p][r] \in Seq(S) /\ Free(chan[p][r], "echo")
    BY <1>2, <2>1, <2>3 DEF Growing, Silent
  <2>7. CASE reports
    <3>1. chan'[p][r] = Append(chan[p][r], echo)
      BY <1>21, <2>1, <2>7
    <3>2. One(chan'[p][r], echo)
      BY <1>23, <2>6, <3>1, OneLast
    <3>3. PICK n \in Nat, h \in Nat : Report(s) = [total |-> n, hops |-> h]
      BY <1>14, ReportType
    <3>4. n = Total(s)
      BY <3>3 DEF Report
    <3>5. Result(r, p, n)'
      BY <1>1, <1>6, <1>20, <1>22, <2>7, <3>4 DEF Result, reports
    <3>6. echo = Echo([total |-> n, hops |-> h])
      BY <3>3 DEF echo
    <3>7. Answered(r, p)'
      BY <2>5, <3>2, <3>5, <3>6 DEF Answered
    <3>8. (Open(r, p, BranchOf(r, p)))'
      BY <2>3, <2>4, <3>7 DEF Open
    <3> QED
      BY <1>100, <1>17, <1>27, <2>1, <2>4, <1>20, <3>8 DEF Edge
  <2>8. CASE ~reports
    <3>1. chan'[p][r] = chan[p][r]
      BY <1>3, <1>4, <1>21, <2>1, <2>8
    <3>2. Growing(r, p)'
      BY <1>22, <1>27, <2>2, <2>5, <2>6, <2>8, <3>1 DEF Growing, Silent, reports
    <3>3. (Open(r, p, BranchOf(r, p)))'
      BY <2>3, <2>4, <3>2 DEF Open
    <3> QED
      BY <1>100, <1>17, <1>27, <2>1, <2>4, <1>20, <3>3 DEF Edge
  <2> QED
    BY <2>7, <2>8
\* The branches of others to p.
<1>28. ASSUME NEW x \in Peer, x # p, x # r
       PROVE  Edge(x, p)'
  <2>1. Edge(x, p)
    BY DEF Tree
  <2>2. Same(chan[p][x], chan'[p][x], "echo")
    BY <1>3, <1>4, <1>21, <1>28, SameSelf
  <2>3. agg'[x] = agg[x]
    BY <1>20, <1>28
  <2> QED
    BY <1>1, <1>20, <1>24, <1>28, <1>100, <2>1, <2>2, <2>3, EdgeKept
<1>29. ASSUME NEW x \in Peer, NEW y \in Peer, x # p, y # p
       PROVE  Edge(x, y)'
  <2>1. Edge(x, y)
    BY DEF Tree
  <2>2. Same(chan[y][x], chan'[y][x], "echo")
    BY <1>3, <1>21, <1>29, SameSelf
  <2>3. agg'[x] = agg[x] /\ agg'[y] = agg[y]
    BY <1>20, <1>29
  <2> QED
    BY <1>1, <1>20, <1>24, <1>29, <2>1, <2>2, <2>3, EdgeKept
<1>30. \A x, y \in Peer : Edge(x, y)'
  <2> SUFFICES ASSUME NEW x \in Peer, NEW y \in Peer
               PROVE  Edge(x, y)'
    OBVIOUS
  <2>1. CASE x = p
    BY <1>25, <1>26, <2>1
  <2>2. CASE x # p /\ y = p
    <3>1. p = Root => x # r
      BY <1>100, <1>17, GossipEchoAssumption
    <3>2. x = r => p # Root
      BY <3>1
    <3>3. CASE x = r
      BY <1>27, <2>2, <3>2, <3>3
    <3>4. CASE x # r
      BY <1>28, <2>2, <3>4
    <3> QED
      BY <3>3, <3>4
  <2>3. CASE x # p /\ y # p
    BY <1>29, <2>3
  <2> QED
    BY <2>1, <2>2, <2>3
<1>31. ASSUME NEW x \in Peer, NEW y \in Peer, chan'[x][y] # <<>>
       PROVE  y \in conn'[x]
  <2>1. CASE x = p /\ y = r /\ reports
    BY <1>100, <1>17, <1>20, <2>1 DEF reports
  <2>2. CASE ~(x = p /\ y = r /\ reports)
    <3>1. chan[x][y] # <<>>
      BY <1>3, <1>21, <1>31, <2>2
    <3> QED
      BY <1>20, <3>1 DEF Tree
  <2> QED
    BY <2>1, <2>2
<1>32. ASSUME NEW x \in seen'
       PROVE  Holder(x)'
  <2>1. x \in seen /\ x \in Peer /\ Holder(x)
    BY <1>1 DEF Inv, Shape, Tree
  <2>2. x # Root => /\ agg[x].parent \in seen
                    /\ agg'[agg[x].parent].hops = agg[agg[x].parent].hops
    <3>1. x # Root => agg[x].parent \in seen /\ agg[x].parent \in Peer
      BY <2>1 DEF Holder, Inv, Shape
    <3> QED
      BY <1>20, <3>1
  <2>3. CASE x = p
    BY <1>1, <1>13, <1>20, <1>22, <1>100, <2>2, <2>3 DEF Holder, reports
  <2>4. CASE x # p
    BY <1>1, <1>20, <2>1, <2>2, <2>4 DEF Holder
  <2> QED
    BY <2>3, <2>4
<1>33. Root \in seen' /\ told' = Status(agg'[Root])
  <2>1. Root \in seen /\ told = Status(agg[Root])
    BY <1>6 DEF Tree
  <2> QED
    BY <1>1, <1>20, <1>22, <2>1, GossipEchoAssumption
<1> QED
  BY <1>20, <1>30, <1>31, <1>32, <1>33 DEF Tree

-----------------------------------------------------------------------------
(* A settled quiet spread *)

\* Every holder is settled when the root is: a branch that is closed ends in
\* a settled holder.
LEMMA AllSettled ==
    ASSUME Inv, Tree, Root \in seen, Settled(agg[Root])
    PROVE  \A p \in seen : Settled(agg[p])
<1> DEFINE Bad == {p \in seen : ~Settled(agg[p])}
           Depths == {agg[p].hops : p \in Bad}
<1>1. \A p \in seen : p \in Peer /\ Holder(p) /\ agg[p].hops \in Nat
  BY DEF Inv, Shape, Tree, Holder
<1>2. SUFFICES ASSUME Bad # {} PROVE FALSE
  OBVIOUS
<1>3. PICK n \in Depths : \A k \in Depths : n <= k
  <2>1. Depths \subseteq Nat /\ Depths # {}
    BY <1>1, <1>2
  <2> HIDE DEF Depths
  <2> QED
    BY <2>1, LeastNumber
<1>4. PICK p \in Bad : agg[p].hops = n
  BY <1>3
<1>5. p \in seen /\ p # Root /\ ~Settled(agg[p]) /\ p \in Peer
  BY <1>1, <1>4
<1> DEFINE r == agg[p].parent
<1>6. /\ r \in seen /\ r \in Peer /\ BranchOf(r, p) # None
      /\ agg[p].hops = agg[r].hops + 1
  BY <1>1, <1>5, ParentFacts DEF Holder
<1>7. Settled(agg[r])
  <2>1. agg[r].hops \in Nat /\ ~(agg[p].hops <= agg[r].hops)
    BY <1>1, <1>6
  <2>2. r \notin Bad
    BY <1>3, <1>4, <2>1
  <2> QED
    BY <1>6, <2>2
<1>8. BranchOf(r, p).settled
  BY <1>5, <1>6, <1>7 DEF Settled, Branches, BranchOf
<1>9. Result(r, p, BranchOf(r, p).total)
  <2>1. Edge(r, p)
    BY <1>5, <1>6 DEF Tree
  <2> QED
    BY <1>6, <1>8, <2>1 DEF Edge, Open, Closed
<1> QED
  BY <1>5, <1>9 DEF Result

\* Then each branch is closed, and no copy is under way.
LEMMA AllClosed ==
    ASSUME Inv, Tree, \A p \in seen : Settled(agg[p]),
           NEW p \in Peer, NEW q \in Peer
    PROVE  /\ BranchOf(p, q) = None => Absent(p, q)
           /\ BranchOf(p, q) # None => Closed(p, q, BranchOf(p, q))
<1>1. Edge(p, q)
  BY DEF Tree
<1>2. BranchOf(p, q) # None => BranchOf(p, q).settled
  BY DEF BranchOf, Settled, Branches
<1> QED
  BY <1>1, <1>2 DEF Edge, Open

LEMMA SettledCount ==
    ASSUME Inv, Tree, Root \in seen, \A p \in seen : Settled(agg[p])
    PROVE  Total(agg[Root]) = Cardinality(seen)
<1> DEFINE T == [p \in seen |-> Total(agg[p])]
           par == [p \in seen |-> agg[p].parent]
           C(p) == {e \in (seen \ {Root}) \X Nat :
                        par[e[1]] = p /\ e[2] \in 1..T[e[1]]}
           D == [p \in seen |-> Counted(agg[p])]
<1>1. seen \subseteq Peer /\ IsFiniteSet(seen)
  <2>1. seen \in SUBSET Peer
    BY DEF Inv, Shape
  <2> QED
    BY <2>1, FS_Subset, GossipEchoAssumption
<1>2. \A p \in seen : T[p] \in Nat
  BY <1>1, HolderForm, ReportType
<1>3. \A p \in seen \ {Root} : par[p] \in seen
  BY DEF Tree, Holder
<1>4. agg[Root].parent = None
  BY DEF Tree, Holder
<1>5. ASSUME NEW p \in seen
      PROVE  Counted(agg[p]) = C(p)
  <2>1. p \in Peer /\ p # None
    BY <1>1, GossipEchoAssumption
  <2>2. ASSUME NEW q \in Branches(agg[p])
        PROVE  /\ q \in Peer /\ Closed(p, q, agg[p].children[q])
               /\ agg[p].children[q].total \in Nat
    <3>1. q \in Peer /\ BranchOf(p, q) = agg[p].children[q] /\ BranchOf(p, q) # None
      BY DEF Branches, BranchOf
    <3>2. BranchOf(p, q).total \in Nat
      BY <2>1, <3>1 DEF Tree, Edge
    <3> QED
      BY <2>1, <3>1, <3>2, AllClosed
  <2>3. ASSUME NEW e \in Counted(agg[p])
        PROVE  e \in C(p)
    <3>1. PICK q \in Branches(agg[p]) : e \in {q} \X (1..agg[p].children[q].total)
      BY <2>3 DEF Counted
    <3>2. e = <<q, e[2]>> /\ e[2] \in 1..agg[p].children[q].total
      BY <3>1
    <3>3. agg[p].children[q].total # 0 /\ e[2] \in Nat
      BY <2>2, <3>2
    <3>4. /\ q \in seen /\ agg[q].parent = p
          /\ agg[p].children[q].total = Total(agg[q])
      BY <2>2, <3>3 DEF Closed, Result
    <3>5. q # Root
      BY <1>4, <2>1, <3>4
    <3> QED
      BY <3>2, <3>3, <3>4, <3>5
  <2>4. ASSUME NEW e \in C(p)
        PROVE  e \in Counted(agg[p])
    <3>1. PICK q \in seen \ {Root} :
              /\ e = <<q, e[2]>> /\ agg[q].parent = p
              /\ e[2] \in 1..Total(agg[q])
      <4>1. e[1] \in seen \ {Root} /\ e = <<e[1], e[2]>>
        BY <2>4
      <4> QED
        BY <2>4, <4>1
    <3>2. q \in Peer /\ Parent(p, q)
      BY <1>1, <3>1 DEF Parent, ParentIn
    <3>3. BranchOf(p, q) # None /\ Closed(p, q, BranchOf(p, q))
      BY <2>1, <3>2, AllClosed DEF Absent
    <3>4. q \in Branches(agg[p]) /\ agg[p].children[q].total = Total(agg[q])
      BY <3>1, <3>2, <3>3 DEF BranchOf, Branches, Closed, Result
    <3>5. e \in {q} \X (1..agg[p].children[q].total)
      BY <3>1, <3>4
    <3> QED
      BY <3>4, <3>5 DEF Counted
  <2> QED
    BY <2>3, <2>4
<1>6. CountsTree(seen, Root, par, T, D)
  <2> SUFFICES ASSUME NEW p \in seen
               PROVE  /\ T[p] \in Nat
                      /\ p # Root => par[p] \in seen
                      /\ D[p] \subseteq (seen \ {Root}) \X Nat
                      /\ \A e \in (seen \ {Root}) \X Nat :
                            e \in D[p] <=> par[e[1]] = p /\ e[2] \in 1..T[e[1]]
                      /\ T[p] = 1 + Cardinality(D[p])
    BY DEF CountsTree
  <2>1. D[p] = C(p)
    BY <1>5
  <2>2. T[p] = 1 + Cardinality(D[p])
    BY DEF Total
  <2> HIDE DEF T, par, D
  <2> QED
    BY <1>2, <1>3, <2>1, <2>2
<1> HIDE DEF T, par, D
<1>7. T[Root] = Cardinality(seen)
  BY <1>1, <1>6, Counting
<1> QED
  BY <1>7 DEF T

LEMMA TreeExact == TreeInv => SettledIsExact
<1> SUFFICES ASSUME TreeInv, Undisturbed, ~served, told # None, told.settled
             PROVE  /\ told.total = Cardinality(seen)
                    /\ \A p, q \in Peer : \A i \in DOMAIN chan[p][q] :
                          chan[p][q][i].type = "gossip" => q \in seen
  BY DEF SettledIsExact
<1>1. Inv /\ Tree
  BY DEF TreeInv, Quiet
<1>2. Root \in seen /\ told = Status(agg[Root])
  BY <1>1 DEF Tree
<1>3. Settled(agg[Root]) /\ told.total = Total(agg[Root])
  BY <1>2 DEF Status
<1>4. \A p \in seen : Settled(agg[p])
  BY <1>1, <1>2, <1>3, AllSettled
<1>5. told.total = Cardinality(seen)
  BY <1>1, <1>2, <1>3, <1>4, SettledCount
<1>6. ASSUME NEW p \in Peer, NEW q \in Peer, NEW i \in DOMAIN chan[p][q]
      PROVE  chan[p][q][i].type # "gossip"
  <2>1. Free(chan[p][q], "gossip")
    BY <1>1, <1>4, AllClosed DEF Absent, Closed, Silent
  <2>2. PICK S : \A x, y \in Peer : chan[x][y] \in Seq(S)
    BY <1>1, Sequences
  <2>3. DOMAIN chan[p][q] = 1..Len(chan[p][q])
    BY <2>2
  <2> QED
    BY <2>1, <2>3 DEF Free
<1> QED
  BY <1>5, <1>6

-----------------------------------------------------------------------------
(* The theorem on settled spreads *)

LEMMA DropCounters ==
    ASSUME NEW p \in Peer, NEW broken, NEW queues, NEW out,
           Drop(p, broken, queues, out), conn \in [Peer -> SUBSET Peer],
           faults \in Nat
    PROVE  faults' \in Nat /\ (faults' = 0 => faults = 0)
           /\ (broken # {} => faults' # 0)
<1>1. broken \in SUBSET Peer
  BY DEF Drop
<1>2. IsFiniteSet(broken) /\ Cardinality(broken) \in Nat
  BY <1>1, FS_Subset, FS_CardinalityType, GossipEchoAssumption
<1>3. Cardinality(broken) = 0 => broken = {}
  BY <1>2, FS_EmptySet
<1> QED
  BY <1>2, <1>3 DEF Drop

\* Losses, clocks and answered requests do not go back.
CountersStep ==
    /\ phase' \in [Peer -> Nat] /\ faults' \in Nat
    /\ Quiet' => Quiet

LEMMA CountersKept ==
    ASSUME phase \in [Peer -> Nat], faults' \in Nat, faults' = 0 => faults = 0,
           phase' = phase, served' = served \/ served' = TRUE
    PROVE  CountersStep
BY DEF CountersStep, Quiet, Undisturbed

LEMMA JoinCounters ==
    ASSUME NEW p \in Peer, NEW parent, NEW hops, NEW excluded, NEW queues,
           Join(p, parent, hops, excluded, queues),
           conn \in [Peer -> SUBSET Peer], faults \in Nat
    PROVE  faults' \in Nat /\ (faults' = 0 => faults = 0)
<1>1. PICK s, broken, out : Publish(p, s, FALSE, broken, queues, out)
  BY DEF Join
<1>2. PICK out2 : Drop(p, broken, queues, out2)
  BY <1>1 DEF Publish
<1> QED
  BY <1>2, DropCounters

LEMMA Counters ==
    ASSUME TreeInv, [Next]_vars
    PROVE  CountersStep
<1>1. conn \in [Peer -> SUBSET Peer] /\ phase \in [Peer -> Nat] /\ faults \in Nat
  BY DEF TreeInv, Inv, Shape
<1>2. ASSUME NEW p \in Peer, NEW s, NEW force, NEW broken, NEW queues, NEW out,
             Publish(p, s, force, broken, queues, out)
      PROVE  faults' \in Nat /\ (faults' = 0 => faults = 0)
  <2>1. PICK out2 : Drop(p, broken, queues, out2)
    BY <1>2 DEF Publish
  <2> QED
    BY <1>1, <2>1, DropCounters
<1>3. CASE UNCHANGED vars
  BY <1>1, <1>3, CountersKept DEF vars
<1>4. CASE Broadcast
  BY <1>1, <1>4, JoinCounters, CountersKept, GossipEchoAssumption DEF Broadcast
<1>5. ASSUME NEW p \in Peer, Timer(p) PROVE CountersStep
  <2>1. UNCHANGED <<phase, served>>
    BY <1>5 DEF Timer
  <2>2. PICK s, broken : Publish(p, s, FALSE, broken, chan, Silence)
    BY <1>5 DEF Timer
  <2> QED
    BY <1>1, <1>2, <2>1, <2>2, CountersKept
<1>6. ASSUME NEW p \in Peer, PassTime(p) PROVE CountersStep
  <2>1. phase' \in [Peer -> Nat] /\ phase'[p] # 0
    BY <1>1, <1>6 DEF PassTime
  <2> QED
    BY <1>1, <1>6, <2>1 DEF PassTime, CountersStep, Quiet, Undisturbed
<1>7. ASSUME NEW p \in Peer, NEW q \in Peer, Receive(p, q) PROVE CountersStep
  <2>1. CASE DropLate(p, q)
    BY <1>1, <2>1, CountersKept DEF DropLate
  <2>2. CASE ReceiveNew(p, q)
    <3>1. UNCHANGED <<phase, served>>
      BY <2>2 DEF ReceiveNew
    <3>2. PICK hops, excluded, queues : Join(p, q, hops, excluded, queues)
      BY <2>2 DEF ReceiveNew
    <3> QED
      BY <1>1, <3>1, <3>2, JoinCounters, CountersKept
  <2>3. CASE ReceiveDuplicate(p, q)
    <3>1. UNCHANGED <<phase, served>>
      BY <2>3 DEF ReceiveDuplicate
    <3>2. faults' \in Nat /\ (faults' = 0 => faults = 0)
      BY <1>1, <1>2, <2>3, DropCounters DEF ReceiveDuplicate
    <3> QED
      BY <1>1, <3>1, <3>2, CountersKept
  <2>4. CASE ReceiveEcho(p, q)
    <3>1. UNCHANGED <<phase, served>>
      BY <2>4 DEF ReceiveEcho
    <3>2. faults' \in Nat /\ (faults' = 0 => faults = 0)
      BY <1>1, <1>2, <2>4 DEF ReceiveEcho
    <3> QED
      BY <1>1, <3>1, <3>2, CountersKept
  <2>5. CASE ReceiveRequest(p, q)
    <3>1. phase' = phase /\ (served' = served \/ served' = TRUE)
      BY <2>5 DEF ReceiveRequest
    <3>2. faults' \in Nat /\ (faults' = 0 => faults = 0)
      BY <1>1, <1>2, <2>5, DropCounters DEF ReceiveRequest
    <3> QED
      BY <1>1, <3>1, <3>2, CountersKept
  <2> QED
    BY <1>7, <2>1, <2>2, <2>3, <2>4, <2>5 DEF Receive
<1>8. ASSUME NEW p \in Peer, NEW q \in Peer, Ask(p, q) PROVE CountersStep
  BY <1>1, <1>8, CountersKept DEF Ask
<1>9. ASSUME NEW p \in Peer, NEW q \in Peer, PeerConnected(p, q) PROVE CountersStep
  BY <1>1, <1>9, CountersKept DEF PeerConnected
<1>10. ASSUME NEW p \in Peer, NEW q \in Peer, PeerDisconnected(p, q) PROVE CountersStep
  <2>1. faults' \in Nat /\ (faults' = 0 => faults = 0)
    BY <1>1, <1>10, DropCounters DEF PeerDisconnected
  <2> QED
    BY <1>1, <1>10, <2>1, CountersKept DEF PeerDisconnected
<1> QED
  BY <1>3, <1>4, <1>5, <1>6, <1>7, <1>8, <1>9, <1>10 DEF Next

LEMMA InitTree == Init => TreeInv
<1> SUFFICES ASSUME Init PROVE TreeInv
  OBVIOUS
<1>1. Inv
  BY InitInv
<1>2. phase \in [Peer -> Nat] /\ faults \in Nat
  BY DEF Init
<1>3. ASSUME NEW p \in Peer, NEW q \in Peer
      PROVE  Edge(p, q)
  <2>1. chan[p][q] = <<>> /\ chan[q][p] = <<>> /\ seen = {}
    BY DEF Init
  <2>2. BranchOf(p, q) = None /\ ~Parent(p, q)
    BY <2>1 DEF BranchOf, Parent, ParentIn
  <2>3. Silent(p, q)
    BY <2>1 DEF Silent, Free
  <2> QED
    BY <2>2, <2>3 DEF Edge, Absent
<1>4. Tree
  BY <1>3 DEF Init, Tree
<1> QED
  BY <1>1, <1>2, <1>4 DEF TreeInv

LEMMA NextTree == TreeInv /\ [Next]_vars => TreeInv'
<1> SUFFICES ASSUME TreeInv, [Next]_vars PROVE TreeInv'
  OBVIOUS
<1>1. Inv /\ Inv'
  BY NextInv DEF TreeInv
<1>2. CountersStep
  BY Counters
<1>3. ASSUME Quiet' PROVE Tree'
  <2>1. /\ Tree /\ faults \in Nat /\ faults' = 0 /\ ~served'
        /\ conn \in [Peer -> SUBSET Peer]
        /\ \A p \in Peer : phase[p] = 0 /\ phase'[p] = 0
    BY <1>1, <1>2, <1>3 DEF TreeInv, CountersStep, Quiet, Undisturbed, Inv, Shape
  <2>2. CASE UNCHANGED vars \/ \E p \in Peer : PassTime(p)
    <3>1. UNCHANGED <<conn, chan, seen, agg, told>>
      BY <2>2 DEF vars, PassTime
    <3>2. \A x, y \in Peer : /\ Same(chan[x][y], chan'[x][y], "gossip")
                             /\ Same(chan[x][y], chan'[x][y], "echo")
                             /\ chan'[x][y] # <<>> => y \in conn[x]
      BY <2>1, <3>1, SameSelf DEF Tree
    <3> QED
      BY <1>1, <2>1, <3>1, <3>2, NeutralTree
  <2>3. CASE Broadcast
    BY <1>1, <2>1, <2>3, BroadcastTree
  <2>4. ASSUME NEW p \in Peer, Timer(p) PROVE Tree'
    BY <1>1, <2>1, <2>4, TimerTree
  <2>5. ASSUME NEW p \in Peer, NEW q \in Peer, Receive(p, q) PROVE Tree'
    <3>1. ~DropLate(p, q)
      BY <2>1 DEF DropLate
    <3> QED
      BY <1>1, <2>1, <2>5, <3>1, ReceiveNewTree, ReceiveDuplicateTree,
         ReceiveEchoTree, ReceiveRequestTree DEF Receive
  <2>6. ASSUME NEW p \in Peer, NEW q \in Peer, Ask(p, q) PROVE Tree'
    BY <1>1, <2>1, <2>6, AskTree
  <2>7. ASSUME NEW p \in Peer, NEW q \in Peer, PeerConnected(p, q) PROVE FALSE
    <3>1. conn[p] = {x \in Peer \ {p} : {p, x} \in Links}
      BY <2>1 DEF Tree
    <3> QED
      BY <2>7, <3>1 DEF PeerConnected
  <2>8. ASSUME NEW p \in Peer, NEW q \in Peer, PeerDisconnected(p, q) PROVE FALSE
    BY <2>1, <2>8, DropCounters DEF PeerDisconnected
  <2> QED
    BY <2>2, <2>3, <2>4, <2>5, <2>6, <2>7, <2>8 DEF Next
<1> QED
  BY <1>1, <1>2, <1>3 DEF TreeInv, CountersStep

\* As long as no channel broke, no deadline passed and no repair was served,
\* a settled status counts every holder and no copy is under way that could
\* make another one (gossip.ts, refreshAggregateDelivery).
THEOREM SettledSpreadIsExact == Spec => []SettledIsExact
BY InitTree, NextTree, TreeExact, PTL DEF Spec
=============================================================================
