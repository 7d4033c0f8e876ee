--------------------------- MODULE Storage_proofs ---------------------------
(***************************************************************************)
(* What replicas of a record may do to each other, for any number of       *)
(* instances, disks, tabs and calls.                                       *)
(***************************************************************************)
EXTENDS Storage, TLAPS

(* The records there can be.                                                 *)
Stored == [val: Nat, owner: Owner, version: Nat, at: Nat]

MessageOK(m) ==
  /\ m.from \in Instances /\ m.id \in Nat /\ m.at \in Nat /\ m.rec \in Stored \cup {None}
  /\ m.kind \in {"upsert", "delete", "request", "response"}
  /\ m.kind \in {"upsert", "response"} => m.rec # None

(* What a put is about to write follows from what it has read.               *)
FollowsRead(o) ==
  /\ o.msg.kind = "upsert" /\ o.msg.from = o.n
  /\ o.msg.rec.version = NextVersion(o.read)
  /\ o.msg.rec.at = o.msg.at
  /\ (space = "user" /\ o.read # None) =>
       o.msg.rec.owner = o.read.owner \/ o.read.owner \in PeerIdUsers

OperationOK(o) ==
  o.kind # "show" =>
    /\ o.n \in Instances /\ o.read \in Stored \cup {None} /\ MessageOK(o.msg)
    /\ o.kind = "write" => FollowsRead(o)
    /\ o.kind = "apply" => o.msg.kind \in {"upsert", "delete", "response"}

Typed ==
  /\ setup \in Setups
  /\ db \in [Slots -> Stored \cup {None}]
  /\ calls \in Nat /\ now \in Nat
  /\ \A o \in ops : OperationOK(o)
  /\ \A p \in net : p.to \in Instances /\ MessageOK(p.msg)

-----------------------------------------------------------------------------
(* Records                                                                   *)

LEMMA StoredIsSome ==
  ASSUME setup \in Setups, NEW r \in Stored
  PROVE  r # None
BY Assumption DEF Stored, Owner, User

LEMMA SlotLemma == \A n \in Instances : Slot(n) \in Slots
BY DEF Slots

LEMMA OwnerLemma ==
  ASSUME Typed, NEW n \in Instances, NEW owner \in setup.owners \cup {None}
  PROVE  LET read == db[Slot(n)]
         IN  /\ ResolvedOwner(read, User[n], owner) \in Owner
             /\ (space = "user" /\ read # None) =>
                  ResolvedOwner(read, User[n], owner) = read.owner \/ read.owner \in PeerIdUsers
<1> DEFINE read == db[Slot(n)]
<1>1. read \in Stored \cup {None}
  BY SlotLemma DEF Typed
<1>2. User[n] \in Owner /\ owner \in Owner /\ None \in Owner
  BY DEF Owner
<1>3. read # None => read.owner \in Owner
  BY <1>1 DEF Stored
<1> HIDE DEF read
<1>4. CASE space = "user" /\ read = None
  <2>1. ResolvedOwner(read, User[n], owner) = IF owner # None THEN owner ELSE User[n]
    BY <1>4 DEF ResolvedOwner
  <2> QED
    BY <1>2, <1>4, <2>1 DEF read
<1>5. CASE space = "user" /\ read # None
  <2>1. ResolvedOwner(read, User[n], owner) =
          IF Migrates(read, User[n]) THEN User[n] ELSE read.owner
    BY <1>5 DEF ResolvedOwner
  <2> QED
    BY <1>2, <1>3, <1>5, <2>1 DEF read, Migrates
<1>6. CASE space # "user"
  <2>1. ResolvedOwner(read, User[n], owner) = None
    BY <1>6 DEF ResolvedOwner
  <2> QED
    BY <1>2, <1>6, <2>1 DEF read
<1> QED
  BY <1>4, <1>5, <1>6

(* What a remote mutation stores.                                            *)
LEMMA IncomingLemma ==
  ASSUME setup \in Setups, NEW msg, MessageOK(msg), msg.rec # None,
         NEW read \in Stored \cup {None}
  PROVE  /\ Incoming(read, msg) \in Stored
         /\ Incoming(read, msg).version = msg.rec.version /\ Incoming(read, msg).at = msg.at
         /\ space = "user" /\ read # None => Incoming(read, msg).owner = read.owner
<1> DEFINE who == IF space # "user" THEN msg.rec.owner
                  ELSE IF read # None THEN read.owner
                  ELSE IF msg.rec.owner # None THEN msg.rec.owner
                  ELSE User[msg.from]
<1>1. who \in Owner /\ (space = "user" /\ read # None => who = read.owner)
  BY DEF MessageOK, Stored, Owner
<1>2. Incoming(read, msg) = [val |-> msg.rec.val, owner |-> who,
                             version |-> msg.rec.version, at |-> msg.at]
  BY DEF Incoming
<1> HIDE DEF who
<1> QED
  BY <1>1, <1>2 DEF MessageOK, Stored

-----------------------------------------------------------------------------
(* The steps, as far as they concern what is stored and under way            *)

(* No step but the three stores changes a disk.                              *)
Writes(o) == PutStore(o) \/ DeleteStore(o) \/ ApplyStore(o)

LEMMA NoWrite ==
  ASSUME [Next]_vars, \A o \in ops : ~Writes(o)
  PROVE  db' = db
<1>1. ASSUME NEW n \in Instances, NEW owner \in setup.owners \cup {None}, NEW system \in BOOLEAN,
             Put(n, owner, system)
      PROVE  db' = db
  BY <1>1 DEF Put
<1>2. ASSUME NEW n \in Instances, NEW system \in BOOLEAN, Delete(n, system) PROVE db' = db
  BY <1>2 DEF Delete
<1>3. ASSUME NEW n \in Instances, NEW on \in BOOLEAN,
             RetrieveCall(n) \/ RetrieveTimeout(n) \/ Subscribe(n, on) \/ Close(n)
      PROVE  db' = db
  BY <1>3 DEF RetrieveCall, RetrieveTimeout, Subscribe, Close
<1>4. ASSUME NEW o \in ops, Resolve(o) PROVE db' = db
  BY <1>4 DEF Resolve
<1>5. ASSUME NEW p \in net, NEW filter \in Filters, Ignore(p, filter) PROVE db' = db
  BY <1>5 DEF Ignore
<1>6. ASSUME NEW p \in net, Receive(p) \/ Serve(p) PROVE db' = db
  BY <1>6 DEF Receive, Serve
<1>7. ASSUME NEW c \in notices, ConsumeNotice(c) PROVE db' = db
  BY <1>7 DEF ConsumeNotice
<1>8. Tick => db' = db
  BY DEF Tick
<1>9. ASSUME NEW o \in ops, Show(o) PROVE db' = db
  BY <1>9 DEF Show
<1> QED
  BY <1>1, <1>2, <1>3, <1>4, <1>5, <1>6, <1>7, <1>8, <1>9 DEF Next, Continue, Writes, vars

-----------------------------------------------------------------------------
(* Types                                                                     *)

LEMMA TypedInit == Init => Typed
BY Assumption DEF Init, Typed

(* A step that leaves the disks alone.                                       *)
LEMMA TypedFrame ==
  ASSUME Typed, UNCHANGED <<setup, db>>, calls' \in Nat, now' \in Nat,
         \A o \in ops' : o \in ops \/ OperationOK(o),
         \A p \in net' : p \in net \/ (p.to \in Instances /\ MessageOK(p.msg))
  PROVE  Typed'
<1>1. \A m : MessageOK(m) => MessageOK(m)'
  BY DEF MessageOK, Stored, Owner, User
<1>2. \A o : OperationOK(o) => OperationOK(o)'
  BY DEF OperationOK, MessageOK, FollowsRead, NextVersion, Stored, Owner, User, space
<1>3. db' \in [Slots' -> Stored' \cup {None}]
  BY DEF Typed, Slots, Slot, Stored, Owner, User, space
<1> QED
  BY <1>1, <1>2, <1>3 DEF Typed

(* A store: the packets that follow it bring what was written.               *)
LEMMA TypedStore ==
  ASSUME Typed, UNCHANGED <<setup, calls, now>>, NEW n \in Instances,
         NEW r \in Stored \cup {None}, db' = [db EXCEPT ![Slot(n)] = r],
         \A o \in ops' : o \in ops \/ OperationOK(o),
         \A p \in net' : p \in net \/ (p.to \in Instances /\ MessageOK(p.msg))
  PROVE  Typed'
<1>1. \A m : MessageOK(m) => MessageOK(m)'
  BY DEF MessageOK, Stored, Owner, User
<1>2. \A o : OperationOK(o) => OperationOK(o)'
  BY DEF OperationOK, MessageOK, FollowsRead, NextVersion, Stored, Owner, User, space
<1>3. db' \in [Slots -> Stored \cup {None}]
  BY DEF Typed
<1>4. Slots' = Slots
  BY DEF Slots, Slot, User, space
<1>5. Stored' = Stored
  BY DEF Stored, Owner, User
<1>6. setup' \in Setups /\ calls' \in Nat /\ now' \in Nat
  BY DEF Typed
<1> QED
  BY <1>1, <1>2, <1>3, <1>4, <1>5, <1>6 DEF Typed

(* Puts, deletes and retrieves begin.                                        *)
LEMMA PutLemma ==
  ASSUME Typed, NEW n \in Instances, NEW owner \in setup.owners \cup {None},
         NEW system \in BOOLEAN, Put(n, owner, system)
  PROVE  \E o : /\ ops' = ops \cup {o}
               /\ OperationOK(o) /\ o.n = n /\ o.kind = "write" /\ o.read = db[Slot(n)]
<1> DEFINE read == db[Slot(n)]
           rec == [val |-> calls + 1, owner |-> ResolvedOwner(read, User[n], owner),
                   version |-> NextVersion(read), at |-> now]
           msg == Packet("upsert", n, calls + 1, now, rec)
           o == Op(n, "write", read, msg)
<1>1. ops' = ops \cup {o}
  BY DEF Put
<1>2. read \in Stored \cup {None} /\ calls \in Nat /\ now \in Nat
  BY SlotLemma DEF Typed
<1>3. NextVersion(read) \in Nat
  BY <1>2 DEF NextVersion, Stored
<1>4. /\ ResolvedOwner(read, User[n], owner) \in Owner
      /\ (space = "user" /\ read # None) =>
           ResolvedOwner(read, User[n], owner) = read.owner \/ read.owner \in PeerIdUsers
  BY OwnerLemma
<1> HIDE DEF read
<1>5. rec \in Stored
  BY <1>2, <1>3, <1>4 DEF Stored
<1>6. rec # None
  BY <1>5, StoredIsSome DEF Typed
<1>7. rec.version = NextVersion(read) /\ rec.at = now
      /\ rec.owner = ResolvedOwner(read, User[n], owner)
  OBVIOUS
<1> HIDE DEF rec
<1>8. /\ msg.kind = "upsert" /\ msg.from = n /\ msg.rec = rec /\ msg.at = now
      /\ msg.id = calls + 1
  BY DEF Packet
<1>9. MessageOK(msg)
  BY <1>2, <1>5, <1>6, <1>8 DEF MessageOK
<1> HIDE DEF msg
<1>10. o.n = n /\ o.kind = "write" /\ o.read = read /\ o.msg = msg
  BY DEF Op
<1>11. OperationOK(o)
  BY <1>2, <1>4, <1>7, <1>8, <1>9, <1>10 DEF OperationOK, FollowsRead
<1> HIDE DEF o
<1> QED
  BY <1>1, <1>10, <1>11 DEF read

LEMMA DeleteLemma ==
  ASSUME Typed, NEW n \in Instances, NEW system \in BOOLEAN, Delete(n, system)
  PROVE  \E o : ops' = ops \cup {o} /\ OperationOK(o) /\ o.kind = "delete"
<1> DEFINE msg == Packet("delete", n, calls + 1, 0, None)
           o == Op(n, "delete", db[Slot(n)], msg)
<1>1. ops' = ops \cup {o} /\ o.kind = "delete"
  BY DEF Delete, Op
<1>2. OperationOK(o)
  BY SlotLemma DEF Op, Packet, OperationOK, MessageOK, Typed
<1> QED
  BY <1>1, <1>2

LEMMA ServeLemma ==
  ASSUME Typed, NEW p \in net, Serve(p)
  PROVE  \A q \in net' : q \in net \/ (/\ q.to \in Instances /\ MessageOK(q.msg)
                                       /\ q.msg.kind = "response")
<1> DEFINE msg == Packet("response", p.to, p.msg.id, now, db[Slot(p.to)])
<1> SUFFICES ASSUME NEW q \in net', q \notin net
             PROVE  q.to \in Instances /\ MessageOK(q.msg) /\ q.msg.kind = "response"
  OBVIOUS
<1>1. q \in Broadcasting(msg) /\ db[Slot(p.to)] # None
  BY DEF Serve
<1>2. q.to \in Instances /\ q.msg = msg
  BY <1>1 DEF Broadcasting
<1>3. MessageOK(msg) /\ msg.kind = "response"
  BY <1>1, SlotLemma DEF Packet, MessageOK, Typed
<1> QED
  BY <1>2, <1>3

(* An update that is received waits for the disk.                            *)
LEMMA ReceiveLemma ==
  ASSUME Typed, NEW p \in net, Receive(p)
  PROVE  \E o : /\ ops' = ops \cup {o} /\ net' = net \ {p}
               /\ OperationOK(o) /\ o.n = p.to /\ o.kind = "apply" /\ o.msg = p.msg
               /\ o.read = db[Slot(p.to)]
<1> DEFINE n == p.to
           o == [Op(n, "apply", db[Slot(n)], p.msg) EXCEPT !.pending = Answering(n, p.msg)]
<1>1. /\ ops' = ops \cup {o} /\ net' = net \ {p} /\ p.msg.kind # "request"
  BY DEF Receive
<1>2. n \in Instances /\ MessageOK(p.msg) /\ db[Slot(n)] \in Stored \cup {None}
  BY SlotLemma DEF Typed
<1>3. /\ o.n = n /\ o.kind = "apply" /\ o.read = db[Slot(n)] /\ o.msg = p.msg
  BY DEF Op
<1> HIDE DEF o
<1>4. OperationOK(o)
  BY <1>1, <1>2, <1>3 DEF OperationOK, MessageOK
<1> QED
  BY <1>1, <1>3, <1>4

(* An operation that only settles a retrieve.                                *)
LEMMA ResolveOK ==
  ASSUME NEW n \in Instances, NEW msg, MessageOK(msg)
  PROVE  OperationOK(Op(n, "resolve", None, msg)) /\ Op(n, "resolve", None, msg).kind = "resolve"
BY DEF Op, OperationOK

LEMMA IgnoreLemma ==
  ASSUME Typed, NEW p \in net, NEW filter, Ignore(p, filter)
  PROVE  /\ net' = net \ {p} /\ UNCHANGED <<setup, db>>
         /\ spoiled' = (spoiled \/ p.msg.kind \in {"upsert", "delete"})
         /\ \A o \in ops' : o \in ops \/ (OperationOK(o) /\ o.kind = "resolve")
         /\ ops \subseteq ops'
<1>1. /\ net' = net \ {p} /\ UNCHANGED <<setup, db>>
      /\ spoiled' = (spoiled \/ p.msg.kind \in {"upsert", "delete"})
      /\ ops' \in {ops, ops \cup Refused(p.to, p.msg)}
  BY DEF Ignore, Spoil
<1>2. p.to \in Instances /\ MessageOK(p.msg)
  BY DEF Typed
<1>3. \A o \in Refused(p.to, p.msg) : OperationOK(o) /\ o.kind = "resolve"
  BY <1>2, ResolveOK DEF Refused
<1> QED
  BY <1>1, <1>3

(* What a put writes is sent to all other instances.                         *)
LEMMA PutStoreLemma ==
  ASSUME Typed, NEW o \in ops, PutStore(o)
  PROVE  /\ o.kind = "write" /\ o.msg.rec \in Stored /\ o.msg.kind = "upsert"
         /\ FollowsRead(o) /\ o.n \in Instances
         /\ db' = [db EXCEPT ![Slot(o.n)] = o.msg.rec]
         /\ ops' = ops \ {o} /\ UNCHANGED <<setup, calls, now>>
         /\ net' = net \cup Broadcasting(o.msg)
         /\ \A p \in Broadcasting(o.msg) : p.to \in Instances /\ p.msg = o.msg
         /\ MessageOK(o.msg)
         /\ spoiled' = (spoiled \/ Overtaken(o))
<1>1. OperationOK(o) /\ o.kind = "write"
  BY DEF Typed, PutStore
<1>2. o.msg.rec \in Stored
  BY <1>1 DEF OperationOK, FollowsRead, MessageOK
<1> QED
  BY <1>1, <1>2 DEF PutStore, OperationOK, FollowsRead, Broadcasting, Spoil

LEMMA DeleteStoreLemma ==
  ASSUME Typed, NEW o \in ops, DeleteStore(o)
  PROVE  /\ o.n \in Instances /\ db' = [db EXCEPT ![Slot(o.n)] = None]
         /\ ops' = ops \ {o} /\ UNCHANGED <<setup, calls, now>>
         /\ \A p \in net' : p \in net \/ (p.to \in Instances /\ MessageOK(p.msg))
         /\ spoiled'
<1> DEFINE msg == Packet("delete", o.n, o.msg.id, now, None)
<1>1. /\ db' = [db EXCEPT ![Slot(o.n)] = None] /\ ops' = ops \ {o}
      /\ UNCHANGED <<setup, calls, now>> /\ net' = net \cup Broadcasting(msg) /\ spoiled'
  BY DEF DeleteStore, Spoil
<1>2. OperationOK(o) /\ now \in Nat /\ o.kind = "delete"
  BY DEF Typed, DeleteStore
<1>3. MessageOK(msg)
  BY <1>2 DEF Packet, MessageOK, OperationOK
<1>4. \A p \in Broadcasting(msg) : p.to \in Instances /\ p.msg = msg
  BY DEF Broadcasting
<1> HIDE DEF msg
<1> QED
  BY <1>1, <1>2, <1>3, <1>4 DEF OperationOK

(* What becomes of a remote mutation.                                        *)
LEMMA ApplyLemma ==
  ASSUME Typed, NEW o \in ops, ApplyStore(o)
  PROVE  /\ o.n \in Instances /\ o.kind = "apply" /\ OperationOK(o)
         /\ UNCHANGED <<setup, net, calls, now>>
         /\ ops \ {o} \subseteq ops' /\ o \notin ops'
         /\ \A q \in ops' : q \in ops \/ (OperationOK(q) /\ q.kind = "resolve")
         /\ \/ /\ o.msg.kind = "delete"
               /\ db' = [db EXCEPT ![Slot(o.n)] = None] /\ spoiled'
            \/ /\ o.msg.kind # "delete" /\ o.msg.rec # None
               /\ AcceptsUpsert(o.read, o.msg)
               /\ db' = [db EXCEPT ![Slot(o.n)] = Incoming(o.read, o.msg)]
               /\ Incoming(o.read, o.msg) \in Stored
               /\ spoiled' = (spoiled \/ Overtaken(o) \/ o.msg.kind = "response")
            \/ /\ db' = db /\ spoiled' = spoiled
               /\ o.msg.kind # "delete" => ~AcceptsUpsert(o.read, o.msg)
<1>1. OperationOK(o) /\ o.kind = "apply" /\ setup \in Setups
  BY DEF Typed, ApplyStore
<1>2. /\ UNCHANGED <<setup, net, calls, now>>
      /\ ops' = (ops \ {o}) \cup Finishing(o)
  BY DEF ApplyStore
<1>3. \A q \in Finishing(o) : OperationOK(q) /\ q.kind = "resolve"
  BY <1>1, ResolveOK DEF Finishing, OperationOK
<1>4. o.msg.kind # "delete" => o.msg.rec # None
  BY <1>1 DEF OperationOK, MessageOK
<1>5. o.msg.kind # "delete" => Incoming(o.read, o.msg) \in Stored
  BY <1>1, <1>4, IncomingLemma DEF OperationOK
<1>6. \/ /\ o.msg.kind = "delete"
         /\ db' = [db EXCEPT ![Slot(o.n)] = None] /\ spoiled'
      \/ /\ o.msg.kind # "delete" /\ AcceptsUpsert(o.read, o.msg)
         /\ db' = [db EXCEPT ![Slot(o.n)] = Incoming(o.read, o.msg)]
         /\ spoiled' = (spoiled \/ Overtaken(o) \/ o.msg.kind = "response")
      \/ /\ db' = db /\ spoiled' = spoiled
         /\ o.msg.kind # "delete" => ~AcceptsUpsert(o.read, o.msg)
  BY DEF ApplyStore, Spoil
<1> QED
  BY <1>1, <1>2, <1>3, <1>4, <1>5, <1>6 DEF OperationOK

(* A notice of another tab, and the event it leads to.                       *)
LEMMA NoticeLemma ==
  ASSUME NEW c \in notices, ConsumeNotice(c)
  PROVE  /\ UNCHANGED <<setup, db, net, calls, now, closed, spoiled>>
         /\ notices' = notices \ {c}
         /\ ops \subseteq ops' /\ \A o \in ops' : o \in ops \/ o.kind = "show"
         /\ \/ misled' = misled \cup {c.to} /\ UNCHANGED view
            \/ /\ view' = [view EXCEPT ![c.to] = None]
               /\ misled' = misled \ {c.to}
            \/ db[Slot(c.to)] = None /\ UNCHANGED <<view, misled>>
            \/ /\ view' = [view EXCEPT ![c.to] = db[Slot(c.to)]]
               /\ misled' = misled \ {c.to}
            \/ /\ \E o \in ops' : o.n = c.to /\ o.kind = "show"
               /\ UNCHANGED <<view, misled>>
<1> DEFINE rec == db[Slot(c.to)]
           msg == Packet("upsert", c.to, c.id[3], 0, rec)
           o == Op(c.to, "show", rec, msg)
<1>1. o.kind = "show" /\ o.n = c.to
  BY DEF Op
<1>2. /\ UNCHANGED <<setup, db, net, calls, now, closed, spoiled>> /\ notices' = notices \ {c}
      /\ \/ misled' = misled \cup {c.to} /\ UNCHANGED <<view, ops>>
         \/ Shows(c.to, None, FALSE) /\ UNCHANGED ops
         \/ rec = None /\ UNCHANGED <<view, misled, ops>>
         \/ Shows(c.to, rec, FALSE) /\ UNCHANGED ops
         \/ ops' = ops \cup {o} /\ UNCHANGED <<view, misled>>
  BY DEF ConsumeNotice
<1> HIDE DEF o
<1> QED
  BY <1>1, <1>2 DEF Shows

LEMMA TypedNext == Typed /\ [Next]_vars => Typed'
<1> SUFFICES ASSUME Typed, [Next]_vars PROVE Typed'
  OBVIOUS
<1>0. calls \in Nat /\ now \in Nat
  BY DEF Typed
<1>1. ASSUME NEW n \in Instances, NEW owner \in setup.owners \cup {None}, NEW system \in BOOLEAN,
             Put(n, owner, system)
      PROVE  Typed'
  <2>1. UNCHANGED <<setup, db, net, now>> /\ calls' = calls + 1
    BY <1>1 DEF Put, Calls
  <2>2. \A o \in ops' : o \in ops \/ OperationOK(o)
    BY <1>1, PutLemma
  <2> QED
    BY <1>0, <2>1, <2>2, TypedFrame
<1>2. ASSUME NEW n \in Instances, NEW system \in BOOLEAN, Delete(n, system) PROVE Typed'
  <2>1. UNCHANGED <<setup, db, net, now>> /\ calls' = calls + 1
    BY <1>2 DEF Delete, Calls
  <2>2. \A o \in ops' : o \in ops \/ OperationOK(o)
    BY <1>2, DeleteLemma
  <2> QED
    BY <1>0, <2>1, <2>2, TypedFrame
<1>3. ASSUME NEW n \in Instances, RetrieveCall(n) PROVE Typed'
  <2> DEFINE msg == Packet("request", n, calls + 1, now, None)
  <2>1. UNCHANGED <<setup, db, ops, now>> /\ calls' = calls + 1
        /\ net' = net \cup Broadcasting(msg)
    BY <1>3 DEF RetrieveCall, Calls
  <2>2. MessageOK(msg)
    BY <1>0 DEF Packet, MessageOK
  <2>3. \A p \in Broadcasting(msg) : p.to \in Instances /\ p.msg = msg
    BY DEF Broadcasting
  <2> HIDE DEF msg
  <2> QED
    BY <1>0, <2>1, <2>2, <2>3, TypedFrame
<1>4. ASSUME NEW n \in Instances, NEW on \in BOOLEAN,
             RetrieveTimeout(n) \/ Subscribe(n, on) \/ Close(n)
      PROVE  Typed'
  <2>1. UNCHANGED <<setup, db, net, calls, now>> /\ ops' \subseteq ops
    BY <1>4 DEF RetrieveTimeout, Subscribe, Close
  <2> QED
    BY <1>0, <2>1, TypedFrame
<1>5. ASSUME NEW o \in ops, PutStore(o) PROVE Typed'
  BY <1>5, PutStoreLemma, TypedStore
<1>6. ASSUME NEW o \in ops, DeleteStore(o) PROVE Typed'
  BY <1>6, DeleteStoreLemma, TypedStore
<1>7. ASSUME NEW o \in ops, ApplyStore(o) PROVE Typed'
  <2>1. db' = db => Typed'
    BY <1>0, <1>7, ApplyLemma, TypedFrame
  <2>2. ASSUME NEW r \in Stored \cup {None}, db' = [db EXCEPT ![Slot(o.n)] = r] PROVE Typed'
    BY <1>7, <2>2, ApplyLemma, TypedStore
  <2> QED
    BY <1>7, <2>1, <2>2, ApplyLemma
<1>8. ASSUME NEW o \in ops, Resolve(o) PROVE Typed'
  <2>1. UNCHANGED <<setup, db, net, calls, now>> /\ ops' \subseteq ops
    BY <1>8 DEF Resolve
  <2> QED
    BY <1>0, <2>1, TypedFrame
<1>9. ASSUME NEW p \in net, NEW filter \in Filters, Ignore(p, filter) PROVE Typed'
  <2>1. UNCHANGED <<calls, now>>
    BY <1>9 DEF Ignore
  <2> QED
    BY <1>0, <1>9, <2>1, IgnoreLemma, TypedFrame
<1>10. ASSUME NEW p \in net, Receive(p) PROVE Typed'
  <2>1. UNCHANGED <<setup, db, calls, now>>
    BY <1>10 DEF Receive
  <2> QED
    BY <1>0, <1>10, <2>1, ReceiveLemma, TypedFrame
<1>11. ASSUME NEW p \in net, Serve(p) PROVE Typed'
  <2>1. UNCHANGED <<setup, db, ops, calls, now>>
    BY <1>11 DEF Serve
  <2> QED
    BY <1>0, <1>11, <2>1, ServeLemma, TypedFrame
<1>12. ASSUME NEW c \in notices, ConsumeNotice(c) PROVE Typed'
  BY <1>0, <1>12, NoticeLemma, TypedFrame DEF OperationOK
<1>13. CASE Tick
  <2>1. UNCHANGED <<setup, db, ops, net, calls>> /\ now' = now + 1
    BY <1>13 DEF Tick
  <2> QED
    BY <1>0, <2>1, TypedFrame
<1>14. CASE UNCHANGED vars
  <2>1. UNCHANGED <<setup, db, ops, net, calls, now>>
    BY <1>14 DEF vars
  <2> QED
    BY <1>0, <2>1, TypedFrame
<1>15. ASSUME NEW o \in ops, Show(o) PROVE Typed'
  <2>1. UNCHANGED <<setup, db, net, calls, now>> /\ ops' \subseteq ops
    BY <1>15 DEF Show
  <2> QED
    BY <1>0, <2>1, TypedFrame
<1> QED
  BY <1>1, <1>2, <1>3, <1>4, <1>5, <1>6, <1>7, <1>8, <1>9, <1>10, <1>11, <1>12, <1>13, <1>14, <1>15
     DEF Next, Continue

-----------------------------------------------------------------------------
(* What writes                                                               *)

THEOREM TypedAlways == Spec => []Typed
BY TypedInit, TypedNext, PTL DEF Spec

(* A record that replaces the one its operation has read is newer, and has   *)
(* the same owner.                                                           *)
LEMMA NewRecord ==
  ASSUME Typed, NEW o \in ops, Writes(o), NEW s \in Slots, db'[s] # None, db'[s] # db[s]
  PROVE  /\ s = Slot(o.n) /\ o \notin ops'
         /\ (db[s] = o.read /\ db[s] # None) =>
              /\ Newer(db'[s], db'[s].at, db[s])
              /\ (space = "user" /\ db[s].owner \notin PeerIdUsers) =>
                   db'[s].owner = db[s].owner
<1>1. db \in [Slots -> Stored \cup {None}] /\ OperationOK(o) /\ setup \in Setups
  BY DEF Typed
<1>2. CASE PutStore(o)
  <2>1. /\ db' = [db EXCEPT ![Slot(o.n)] = o.msg.rec] /\ ops' = ops \ {o} /\ FollowsRead(o)
    BY <1>2, PutStoreLemma
  <2>2. s = Slot(o.n) /\ db'[s] = o.msg.rec
    BY <1>1, <2>1
  <2>3. ASSUME db[s] = o.read, db[s] # None
        PROVE  /\ Newer(db'[s], db'[s].at, db[s])
               /\ (space = "user" /\ db[s].owner \notin PeerIdUsers) =>
                    db'[s].owner = db[s].owner
    <3>1. o.read \in Stored /\ o.msg.rec.version = o.read.version + 1
      BY <1>1, <2>1, <2>3 DEF FollowsRead, NextVersion
    <3>2. o.read.version \in Nat
      BY <3>1 DEF Stored
    <3> QED
      BY <2>1, <2>2, <2>3, <3>1, <3>2 DEF Newer, FollowsRead
  <2> QED
    BY <2>1, <2>2, <2>3
<1>3. CASE DeleteStore(o)
  <2>1. o.n \in Instances /\ db' = [db EXCEPT ![Slot(o.n)] = None] /\ ops' = ops \ {o}
    BY <1>3, DeleteStoreLemma
  <2> QED
    BY <1>1, <2>1
<1>4. CASE ApplyStore(o)
  <2>1. /\ db' = [db EXCEPT ![Slot(o.n)] = Incoming(o.read, o.msg)]
        /\ o.msg.rec # None /\ AcceptsUpsert(o.read, o.msg) /\ o \notin ops'
    <3>1. db' # db /\ db' # [db EXCEPT ![Slot(o.n)] = None]
      BY <1>1
    <3> QED
      BY <1>4, <3>1, ApplyLemma
  <2>2. s = Slot(o.n) /\ db'[s] = Incoming(o.read, o.msg)
    BY <1>1, <2>1
  <2>3. /\ Incoming(o.read, o.msg).version = o.msg.rec.version
        /\ Incoming(o.read, o.msg).at = o.msg.at
        /\ space = "user" /\ o.read # None => Incoming(o.read, o.msg).owner = o.read.owner
    BY <1>1, <1>4, <2>1, IncomingLemma DEF OperationOK, ApplyStore
  <2>4. o.read # None => Newer(o.msg.rec, o.msg.at, o.read)
    BY <2>1 DEF AcceptsUpsert
  <2>5. o.read # None => Newer(db'[s], db'[s].at, o.read)
    BY <2>2, <2>3, <2>4 DEF Newer
  <2> QED
    BY <2>1, <2>2, <2>3, <2>5
<1> QED
  BY <1>2, <1>3, <1>4 DEF Writes

(* A record gives way to an older one only to an operation that had read the *)
(* disk before it was there.                                                 *)
THEOREM RegressionNeedsOverlap == Spec => OnlyOverlapRegresses
<1> DEFINE Step == \A s \in Slots :
             /\ db[s] # None /\ db'[s] # None /\ db'[s] # db[s]
             /\ ~Newer(db'[s], db'[s].at, db[s])
             => \E o \in ops \ ops' : Slot(o.n) = s /\ o.read # db[s]
<1>1. Typed /\ [Next]_vars => Step
  BY NoWrite, NewRecord
<1> HIDE DEF Step
<1>2. Spec => [][Typed /\ Next]_vars
  BY TypedAlways, PTL DEF Spec
<1>3. [Typed /\ Next]_vars => [Step]_vars
  BY <1>1
<1>4. Spec => [][Step]_vars
  BY <1>2, <1>3, PTL
<1> QED
  BY <1>4 DEF OnlyOverlapRegresses, Step

(* The owner of a record stays unless an operation overtook another one.     *)
THEOREM OwnersAreKept == Spec => OwnerStays
<1> DEFINE Step == \A s \in Slots :
             /\ space = "user" /\ db[s] # None /\ db'[s] # None
             /\ db[s].owner \notin PeerIdUsers
             => \/ db'[s].owner = db[s].owner
                \/ \E o \in ops \ ops' : Slot(o.n) = s /\ o.read # db[s]
<1>1. Typed /\ [Next]_vars => Step
  BY NoWrite, NewRecord
<1> HIDE DEF Step
<1>2. Spec => [][Typed /\ Next]_vars
  BY TypedAlways, PTL DEF Spec
<1>3. [Typed /\ Next]_vars => [Step]_vars
  BY <1>1
<1>4. Spec => [][Step]_vars
  BY <1>2, <1>3, PTL
<1> QED
  BY <1>4 DEF OwnerStays, Step

-----------------------------------------------------------------------------
(* Agreement                                                                 *)

(* Updates are compared by their stamps: the version and the clock.          *)
Stamps == Nat \X Nat
Of(r) == <<r.version, r.at>>
Stamp(m) == <<m.rec.version, m.at>>

NotBefore(w, u) == w[1] > u[1] \/ (w[1] = u[1] /\ w[2] >= u[2])

(* What instance n has stored, will read from the network, or has read and   *)
(* not yet compared with what it has stored.                                 *)
Kept(n) == {Of(r) : r \in {db[Slot(n)]} \ {None}}
Coming(n) == {Stamp(p.msg) : p \in {q \in net : q.to = n /\ q.msg.kind = "upsert"}}
Waits(o) == o.kind = "apply" /\ o.msg.kind = "upsert"
Waiting(n) == {Stamp(o.msg) : o \in {q \in ops : q.n = n /\ Waits(q)}}
Heard == [n \in Instances |-> Kept(n) \cup Coming(n) \cup Waiting(n)]

(* What one instance hears of, all the others hear of, or of something newer. *)
Spread(H) == \A n, k \in Instances : \A u \in H[n] : \E w \in H[k] : NotBefore(w, u)

(* What an operation has read is no newer than what is stored.               *)
Fresh ==
  \A o \in ops : o.kind = "apply" /\ o.read # None =>
    db[Slot(o.n)] # None /\ NotBefore(Of(db[Slot(o.n)]), Of(o.read))

Open == space \in {"public", "epublic"}

Agreeing == Open /\ ~spoiled => Fresh /\ Spread(Heard)

LEMMA NotBeforeTransitive ==
  ASSUME NEW u \in Stamps, NEW v \in Stamps, NEW w \in Stamps,
         NotBefore(w, v), NotBefore(v, u)
  PROVE  NotBefore(w, u)
BY DEF Stamps, NotBefore

LEMMA NotBeforeReflexive == \A u \in Stamps : NotBefore(u, u)
BY DEF Stamps, NotBefore

LEMMA NewerIsNotBefore ==
  ASSUME NEW r \in Stored, NEW q \in Stored
  PROVE  /\ Newer(r, r.at, q) => NotBefore(Of(r), Of(q))
         /\ ~Newer(r, r.at, q) => NotBefore(Of(q), Of(r))
BY DEF Stored, Newer, NotBefore, Of

(* Old stamps are followed by newer ones at the same instance, and new ones  *)
(* reach everybody.                                                          *)
LEMMA SpreadKept ==
  ASSUME NEW H \in [Instances -> SUBSET Stamps], NEW G \in [Instances -> SUBSET Stamps],
         Spread(H),
         \A k \in Instances : \A u \in H[k] : \E w \in G[k] : NotBefore(w, u),
         \A n \in Instances : \A u \in G[n] :
           \/ \E m \in Instances : u \in H[m]
           \/ \A k \in Instances : \E w \in G[k] : NotBefore(w, u)
  PROVE  Spread(G)
<1> SUFFICES ASSUME NEW n \in Instances, NEW k \in Instances, NEW u \in G[n]
             PROVE  \E w \in G[k] : NotBefore(w, u)
  BY DEF Spread
<1>1. ASSUME NEW m \in Instances, u \in H[m]
      PROVE  \E w \in G[k] : NotBefore(w, u)
  <2>1. PICK v \in H[k] : NotBefore(v, u)
    BY <1>1 DEF Spread
  <2>2. PICK w \in G[k] : NotBefore(w, v)
    BY <2>1
  <2>3. u \in Stamps /\ v \in Stamps /\ w \in Stamps
    OBVIOUS
  <2> QED
    BY <2>1, <2>2, <2>3, NotBeforeTransitive
<1> QED
  BY <1>1

HeardTyped == Heard \in [Instances -> SUBSET Stamps]

LEMMA HeardType == Typed => HeardTyped
<1> SUFFICES ASSUME Typed, NEW n \in Instances
             PROVE  Kept(n) \cup Coming(n) \cup Waiting(n) \subseteq Stamps
  BY DEF HeardTyped, Heard
<1>1. Kept(n) \subseteq Stamps
  <2>1. db[Slot(n)] \in Stored \cup {None}
    BY SlotLemma DEF Typed
  <2> QED
    BY <2>1 DEF Kept, Of, Stored, Stamps
<1>2. \A m : MessageOK(m) /\ m.kind = "upsert" => Stamp(m) \in Stamps
  BY DEF MessageOK, Stamp, Stored, Stamps
<1>3. Coming(n) \subseteq Stamps
  BY <1>2 DEF Typed, Coming
<1>4. Waiting(n) \subseteq Stamps
  BY <1>2 DEF Typed, Waiting, Waits, OperationOK
<1> QED
  BY <1>1, <1>3, <1>4

LEMMA HeardTypeNext == Typed' => HeardTyped'
BY HeardType, PTL

(* Steps that neither bring nor take an update.                              *)
LEMMA SameHeard ==
  ASSUME UNCHANGED <<setup, db>>,
         \A p : p.msg.kind = "upsert" => (p \in net <=> p \in net'),
         \A o : Waits(o) => (o \in ops <=> o \in ops')
  PROVE  Heard' = Heard
<1>1. \A n : Slot(n)' = Slot(n)
  BY DEF Slot, User, space
<1>2. \A n : Kept(n)' = Kept(n)
  BY <1>1 DEF Kept, Of
<1>3. ASSUME NEW n PROVE Coming(n)' = Coming(n)
  <2>1. {q \in net' : q.to = n /\ q.msg.kind = "upsert"}
          = {q \in net : q.to = n /\ q.msg.kind = "upsert"}
    OBVIOUS
  <2> QED
    BY <2>1 DEF Coming, Stamp
<1>4. ASSUME NEW n PROVE Waiting(n)' = Waiting(n)
  <2>1. {q \in ops' : q.n = n /\ Waits(q)} = {q \in ops : q.n = n /\ Waits(q)}
    OBVIOUS
  <2> QED
    BY <2>1 DEF Waiting, Stamp, Waits
<1> QED
  BY <1>2, <1>3, <1>4 DEF Heard

LEMMA AgreeFrame ==
  ASSUME Typed, Agreeing, ~spoiled' => ~spoiled, UNCHANGED <<setup, db>>,
         \A p : p.msg.kind = "upsert" => (p \in net <=> p \in net'),
         \A o : Waits(o) => (o \in ops <=> o \in ops'),
         \A o \in ops' : o \in ops \/ o.kind # "apply"
  PROVE  Agreeing'
<1>1. Heard' = Heard
  BY SameHeard
<1>2. Spread(Heard) => Spread(Heard)'
  BY <1>1 DEF Spread, NotBefore
<1>3. \A n : Slot(n)' = Slot(n)
  BY DEF Slot, User, space
<1>4. Fresh => Fresh'
  BY <1>3 DEF Fresh, Of, NotBefore
<1> QED
  BY <1>2, <1>4 DEF Agreeing, Open, space

(* An update that is received is heard of as before.                         *)
LEMMA AgreeReceive ==
  ASSUME Typed, Agreeing, NEW p \in net, Receive(p)
  PROVE  Agreeing'
<1>0. UNCHANGED <<setup, db, spoiled>>
  BY DEF Receive
<1>1. PICK o : /\ ops' = ops \cup {o} /\ net' = net \ {p}
               /\ OperationOK(o) /\ o.n = p.to /\ o.kind = "apply" /\ o.msg = p.msg
               /\ o.read = db[Slot(p.to)]
  BY ReceiveLemma
<1>2. \A n : Slot(n)' = Slot(n)
  BY <1>0 DEF Slot, User, space
<1>3. \A n : Kept(n)' = Kept(n)
  BY <1>0, <1>2 DEF Kept, Of
<1>4. ASSUME NEW n \in Instances
      PROVE  (Coming(n) \cup Waiting(n))' = Coming(n) \cup Waiting(n)
  <2>1. \A u : u \in Coming(n) <=>
               \E q \in net : q.to = n /\ q.msg.kind = "upsert" /\ u = Stamp(q.msg)
    BY DEF Coming
  <2>2. \A u : u \in Waiting(n) <=> \E q \in ops : q.n = n /\ Waits(q) /\ u = Stamp(q.msg)
    BY DEF Waiting
  <2>3. \A u : u \in Coming(n)' <=>
               \E q \in net' : q.to = n /\ q.msg.kind = "upsert" /\ u = Stamp(q.msg)
    BY DEF Coming, Stamp
  <2>4. \A u : u \in Waiting(n)' <=> \E q \in ops' : q.n = n /\ Waits(q) /\ u = Stamp(q.msg)
    BY DEF Waiting, Waits, Stamp
  <2>5. ASSUME NEW u, u \in Coming(n) \cup Waiting(n) PROVE u \in (Coming(n) \cup Waiting(n))'
    BY <1>1, <2>1, <2>2, <2>3, <2>4, <2>5 DEF Waits
  <2>6. ASSUME NEW u, u \in (Coming(n) \cup Waiting(n))' PROVE u \in Coming(n) \cup Waiting(n)
    BY <1>1, <2>1, <2>2, <2>3, <2>4, <2>6 DEF Waits
  <2> QED
    BY <2>5, <2>6
<1>5. Heard' = Heard
  BY <1>3, <1>4 DEF Heard
<1>6. Spread(Heard) => Spread(Heard)'
  BY <1>5 DEF Spread, NotBefore
<1>7. db[Slot(p.to)] # None =>
        NotBefore(Of(db[Slot(p.to)]), Of(db[Slot(p.to)]))
  BY SlotLemma DEF Typed, Stored, NotBefore, Of
<1>8. Fresh => Fresh'
  <2> SUFFICES ASSUME Fresh, NEW q \in ops', q.kind = "apply", q.read # None
               PROVE  db[Slot(q.n)] # None /\ NotBefore(Of(db[Slot(q.n)]), Of(q.read))
    BY <1>0, <1>2 DEF Fresh, Of, NotBefore
  <2> QED
    BY <1>1, <1>7 DEF Fresh
<1> QED
  BY <1>0, <1>6, <1>8 DEF Agreeing, Open, space

(* A record that is stored over an older one.                                *)
LEMMA AgreeStore ==
  ASSUME Typed, Typed', Agreeing, Open, ~spoiled, UNCHANGED setup,
         NEW o \in ops, NEW r \in Stored, OperationOK(o), o.kind # "show",
         db' = [db EXCEPT ![Slot(o.n)] = r],
         db[Slot(o.n)] # None => Newer(r, r.at, db[Slot(o.n)]),
         ops \ {o} \subseteq ops',
         \A q \in ops' : q \in ops \/ q.kind # "apply",
         Waits(o) => Stamp(o.msg) = Of(r),
         net \subseteq net',
         \A p \in net' : p \in net \/ Stamp(p.msg) = Of(r),
         \/ \A k \in Instances : Of(r) \in Heard[k]'
         \/ Of(r) \in Heard[o.n]
  PROVE  Agreeing'
<1> DEFINE s == Slot(o.n)
           new == Of(r)
<1>0. db \in [Slots -> Stored \cup {None}] /\ s \in Slots /\ o.n \in Instances
  BY SlotLemma DEF Typed, OperationOK
<1>1. r # None /\ new \in Stamps
  BY StoredIsSome DEF Typed, Of, Stored, Stamps
<1>2. \A n : Slot(n)' = Slot(n)
  BY DEF Slot, User, space
<1>3. /\ Heard \in [Instances -> SUBSET Stamps] /\ Heard' \in [Instances -> SUBSET Stamps]
  BY HeardType, HeardTypeNext DEF HeardTyped
<1>4. Fresh /\ Spread(Heard)
  BY DEF Agreeing
<1>5. \A n \in Instances : db'[Slot(n)] = IF Slot(n) = s THEN r ELSE db[Slot(n)]
  BY <1>0, SlotLemma
<1>6. ASSUME db[s] # None PROVE NotBefore(new, Of(db[s]))
  BY <1>0, <1>6, NewerIsNotBefore
<1>7. \A n : Kept(n)' = {Of(q) : q \in {db'[Slot(n)]} \ {None}}
  BY <1>2 DEF Kept, Of
<1>8. \A n \in Instances : Slot(n) = s => new \in Kept(n)'
  BY <1>1, <1>5, <1>7
<1>9. \A u, n : u \in Waiting(n) <=> \E q \in ops : q.n = n /\ Waits(q) /\ u = Stamp(q.msg)
  BY DEF Waiting
<1>10. \A u, n : u \in Waiting(n)' <=> \E q \in ops' : q.n = n /\ Waits(q) /\ u = Stamp(q.msg)
  BY DEF Waiting, Waits, Stamp
<1>11. \A u, n : u \in Coming(n) <=>
               \E q \in net : q.to = n /\ q.msg.kind = "upsert" /\ u = Stamp(q.msg)
  BY DEF Coming
<1>12. \A u, n : u \in Coming(n)' <=>
               \E q \in net' : q.to = n /\ q.msg.kind = "upsert" /\ u = Stamp(q.msg)
  BY DEF Coming, Stamp
<1>13. \A n \in Instances : Heard[n] = Kept(n) \cup Coming(n) \cup Waiting(n)
  BY DEF Heard
<1>14. \A n \in Instances : Heard[n]' = Kept(n)' \cup Coming(n)' \cup Waiting(n)'
  BY DEF Heard
<1> HIDE DEF s, new
<1>15. ASSUME NEW k \in Instances, NEW u \in Heard[k]
       PROVE  \E w \in Heard[k]' : NotBefore(w, u)
  <2>0. u \in Stamps /\ NotBefore(u, u)
    BY <1>3, NotBeforeReflexive
  <2>1. CASE u \in Kept(k)
    <3>1. CASE Slot(k) = s
      <4>1. db[s] # None /\ u = Of(db[s])
        BY <2>1, <3>1 DEF Kept
      <4> QED
        BY <1>6, <1>8, <1>14, <3>1, <4>1
    <3>2. CASE Slot(k) # s
      <4>1. u \in Kept(k)'
        BY <1>5, <1>7, <2>1, <3>2 DEF Kept
      <4> QED
        BY <1>14, <2>0, <4>1
    <3> QED
      BY <3>1, <3>2
  <2>2. CASE u \in Coming(k)
    <3>1. u \in Coming(k)'
      BY <1>11, <1>12, <2>2
    <3> QED
      BY <1>14, <2>0, <3>1
  <2>3. CASE u \in Waiting(k)
    <3>1. PICK q \in ops : q.n = k /\ Waits(q) /\ u = Stamp(q.msg)
      BY <1>9, <2>3
    <3>2. CASE q = o
      <4>1. u = new /\ Slot(k) = s
        BY <3>1, <3>2 DEF new, s
      <4> QED
        BY <1>8, <1>14, <2>0, <4>1
    <3>3. CASE q # o
      <4>1. u \in Waiting(k)'
        BY <1>10, <3>1, <3>3
      <4> QED
        BY <1>14, <2>0, <4>1
    <3> QED
      BY <3>2, <3>3
  <2> QED
    BY <1>13, <2>1, <2>2, <2>3
<1>16. ASSUME NEW n \in Instances, NEW u \in Heard[n]'
       PROVE  u \in Heard[n] \/ u = new
  <2>1. CASE u \in Kept(n)'
    BY <1>5, <1>7, <1>13, <2>1 DEF Kept, new
  <2>2. CASE u \in Coming(n)'
    BY <1>11, <1>12, <1>13, <2>2 DEF new
  <2>3. CASE u \in Waiting(n)'
    BY <1>9, <1>10, <1>13, <2>3 DEF Waits
  <2> QED
    BY <1>14, <2>1, <2>2, <2>3
<1>17. \/ \A k \in Instances : \E w \in Heard[k]' : NotBefore(w, new)
       \/ \E m \in Instances : new \in Heard[m]
  BY <1>0, <1>1, NotBeforeReflexive DEF new
<1>18. Spread(Heard')
  <2> DEFINE H == Heard
             G == Heard'
  <2>1. H \in [Instances -> SUBSET Stamps] /\ G \in [Instances -> SUBSET Stamps] /\ Spread(H)
    BY <1>3, <1>4
  <2>2. \A k \in Instances : \A u \in H[k] : \E w \in G[k] : NotBefore(w, u)
    BY <1>15
  <2>3. \A n \in Instances : \A u \in G[n] :
           \/ \E m \in Instances : u \in H[m]
           \/ \A k \in Instances : \E w \in G[k] : NotBefore(w, u)
    BY <1>16, <1>17
  <2> HIDE DEF H, G
  <2>4. Spread(G)
    BY <2>1, <2>2, <2>3, SpreadKept
  <2> QED
    BY <2>4 DEF G
<1>19. Spread(Heard)'
  BY <1>18 DEF Spread, NotBefore
<1>20. Fresh'
  <2> SUFFICES ASSUME NEW q \in ops, q.kind = "apply", q.read # None, q.n \in Instances,
                      q.read \in Stored
               PROVE  db'[Slot(q.n)] # None /\ NotBefore(Of(db'[Slot(q.n)]), Of(q.read))
    <3>1. \A q \in ops' : q.kind = "apply" => q \in ops
      OBVIOUS
    <3>2. \A q \in ops : q.kind = "apply" => q.n \in Instances /\ q.read \in Stored \cup {None}
      BY DEF Typed, OperationOK
    <3> QED
      BY <1>2, <3>1, <3>2 DEF Fresh, Of, NotBefore
  <2>1. db[Slot(q.n)] # None /\ NotBefore(Of(db[Slot(q.n)]), Of(q.read))
    BY <1>4 DEF Fresh
  <2>2. CASE Slot(q.n) = s
    <3>1. NotBefore(new, Of(db[s])) /\ db'[Slot(q.n)] = r
      BY <1>5, <1>6, <2>1, <2>2
    <3>2. Of(db[s]) \in Stamps /\ Of(q.read) \in Stamps
      BY <1>0, <2>1, <2>2 DEF Of, Stored, Stamps
    <3>3. NotBefore(new, Of(q.read))
      BY <1>1, <2>1, <2>2, <3>1, <3>2, NotBeforeTransitive
    <3> QED
      BY <1>1, <3>1, <3>3 DEF new
  <2>3. CASE Slot(q.n) # s
    BY <1>5, <2>1, <2>3
  <2> QED
    BY <2>2, <2>3
<1> QED
  BY <1>19, <1>20 DEF Agreeing

(* An update that is not accepted is no newer than what is stored.           *)
LEMMA AgreeReject ==
  ASSUME Typed, Typed', Agreeing, Open, ~spoiled, UNCHANGED <<setup, db, net>>,
         NEW o \in ops, Waits(o), OperationOK(o), ~AcceptsUpsert(o.read, o.msg),
         ops \ {o} \subseteq ops',
         \A q \in ops' : q \in ops \/ q.kind # "apply"
  PROVE  Agreeing'
<1>1. /\ o.n \in Instances /\ o.read \in Stored \cup {None} /\ o.msg.rec \in Stored
      /\ o.msg.at \in Nat /\ o.kind = "apply"
  BY DEF OperationOK, MessageOK, Waits
<1>2. o.read # None /\ ~Newer(o.msg.rec, o.msg.at, o.read)
  BY DEF AcceptsUpsert, CanWrite, Open
<1>3. NotBefore(Of(o.read), Stamp(o.msg))
  BY <1>1, <1>2 DEF Newer, NotBefore, Of, Stamp, Stored
<1>4. Fresh /\ Spread(Heard)
  BY DEF Agreeing
<1>5. db[Slot(o.n)] \in Stored /\ NotBefore(Of(db[Slot(o.n)]), Of(o.read))
  BY <1>1, <1>2, <1>4, SlotLemma DEF Fresh, Typed
<1>6. NotBefore(Of(db[Slot(o.n)]), Stamp(o.msg))
  <2>1. Of(db[Slot(o.n)]) \in Stamps /\ Of(o.read) \in Stamps /\ Stamp(o.msg) \in Stamps
    BY <1>1, <1>2, <1>5 DEF Of, Stamp, Stamps, Stored
  <2> QED
    BY <1>3, <1>5, <2>1, NotBeforeTransitive
<1>7. \A n : Slot(n)' = Slot(n)
  BY DEF Slot, User, space
<1>8. \A n : Kept(n)' = Kept(n) /\ Coming(n)' = Coming(n)
  BY <1>7 DEF Kept, Of, Coming, Stamp
<1>9. \A u, n : u \in Waiting(n) <=> \E q \in ops : q.n = n /\ Waits(q) /\ u = Stamp(q.msg)
  BY DEF Waiting
<1>10. \A u, n : u \in Waiting(n)' <=> \E q \in ops' : q.n = n /\ Waits(q) /\ u = Stamp(q.msg)
  BY DEF Waiting, Waits, Stamp
<1>11. \A n \in Instances : /\ Heard[n] = Kept(n) \cup Coming(n) \cup Waiting(n)
                             /\ Heard[n]' = Kept(n)' \cup Coming(n)' \cup Waiting(n)'
  BY DEF Heard
<1>12. /\ Heard \in [Instances -> SUBSET Stamps] /\ Heard' \in [Instances -> SUBSET Stamps]
  BY HeardType, HeardTypeNext DEF HeardTyped
<1>13. ASSUME NEW k \in Instances, NEW u \in Heard[k]
       PROVE  \E w \in Heard[k]' : NotBefore(w, u)
  <2>0. u \in Stamps /\ NotBefore(u, u)
    BY <1>12, NotBeforeReflexive
  <2>1. CASE u \in Heard[k]'
    BY <2>0, <2>1
  <2>2. CASE u \notin Heard[k]'
    <3>1. k = o.n /\ u = Stamp(o.msg)
      BY <1>8, <1>9, <1>10, <1>11, <2>2
    <3>2. db[Slot(o.n)] # None
      BY <1>5, StoredIsSome DEF Typed
    <3>3. Of(db[Slot(o.n)]) \in Kept(k)
      BY <3>1, <3>2 DEF Kept
    <3> QED
      BY <1>6, <1>8, <1>11, <3>1, <3>3
  <2> QED
    BY <2>1, <2>2
<1>14. ASSUME NEW n \in Instances, NEW u \in Heard[n]' PROVE u \in Heard[n]
  BY <1>8, <1>9, <1>10, <1>11, <1>14 DEF Waits
<1>15. Spread(Heard')
  <2> DEFINE H == Heard
             G == Heard'
  <2>1. H \in [Instances -> SUBSET Stamps] /\ G \in [Instances -> SUBSET Stamps] /\ Spread(H)
    BY <1>4, <1>12
  <2>2. \A k \in Instances : \A u \in H[k] : \E w \in G[k] : NotBefore(w, u)
    BY <1>13
  <2>3. \A n \in Instances : \A u \in G[n] : \E m \in Instances : u \in H[m]
    BY <1>14
  <2> HIDE DEF H, G
  <2>4. Spread(G)
    BY <2>1, <2>2, <2>3, SpreadKept
  <2> QED
    BY <2>4 DEF G
<1>16. Spread(Heard)'
  BY <1>15 DEF Spread, NotBefore
<1>17. Fresh'
  BY <1>4, <1>7 DEF Fresh, Of, NotBefore
<1> QED
  BY <1>16, <1>17 DEF Agreeing

LEMMA AgreePutStore ==
  ASSUME Typed, Typed', Agreeing, NEW o \in ops, PutStore(o)
  PROVE  Agreeing'
<1>1. /\ o.kind = "write" /\ o.msg.rec \in Stored /\ o.msg.kind = "upsert"
      /\ FollowsRead(o) /\ o.n \in Instances
      /\ db' = [db EXCEPT ![Slot(o.n)] = o.msg.rec]
      /\ ops' = ops \ {o} /\ UNCHANGED setup
      /\ net' = net \cup Broadcasting(o.msg)
      /\ spoiled' = (spoiled \/ Overtaken(o))
  BY PutStoreLemma
<1>2. Open' = Open
  BY <1>1 DEF Open, space
<1> SUFFICES ASSUME Open, ~spoiled, ~Overtaken(o) PROVE Agreeing'
  BY <1>1, <1>2 DEF Agreeing
<1>3. Stamp(o.msg) = Of(o.msg.rec) /\ o.msg.from = o.n
  BY <1>1 DEF FollowsRead, Stamp, Of
<1>4. db[Slot(o.n)] # None => Newer(o.msg.rec, o.msg.rec.at, db[Slot(o.n)])
  <2> SUFFICES ASSUME db[Slot(o.n)] # None PROVE o.msg.rec.version > db[Slot(o.n)].version
    BY DEF Newer
  <2>1. db[Slot(o.n)] \in Stored /\ db[Slot(o.n)] = o.read
    BY <1>1, SlotLemma DEF Typed, Overtaken
  <2>2. o.msg.rec.version = db[Slot(o.n)].version + 1
    BY <1>1, <2>1 DEF FollowsRead, NextVersion
  <2> QED
    BY <2>1, <2>2 DEF Stored
<1>5. \A k \in Instances : Of(o.msg.rec) \in Heard[k]'
  <2> SUFFICES ASSUME NEW k \in Instances PROVE Of(o.msg.rec) \in Heard[k]'
    OBVIOUS
  <2>0. Heard[k]' = Kept(k)' \cup Coming(k)' \cup Waiting(k)'
    BY DEF Heard
  <2>1. CASE k = o.n
    <3>1. Slot(o.n)' = Slot(o.n) /\ db'[Slot(o.n)] = o.msg.rec /\ o.msg.rec # None
      BY <1>1, SlotLemma, StoredIsSome DEF Typed, Slot, User, space
    <3>2. Of(o.msg.rec) \in Kept(k)'
      BY <2>1, <3>1 DEF Kept, Of
    <3> QED
      BY <2>0, <3>2
  <2>2. CASE k # o.n
    <3>0. [to |-> k, msg |-> o.msg] \in Broadcasting(o.msg)
      <4>1. space # "private" /\ k \in Instances \ {o.msg.from}
        BY <1>3, <2>2 DEF Open
      <4> QED
        BY <4>1 DEF Broadcasting
    <3>1. PICK p \in net' : p.to = k /\ p.msg = o.msg
      BY <1>1, <3>0
    <3>2. Stamp(p.msg) \in Coming(k)'
      BY <1>1, <3>1 DEF Coming, Stamp
    <3> QED
      BY <1>3, <2>0, <3>1, <3>2
  <2> QED
    BY <2>1, <2>2
<1>6. /\ net \subseteq net' /\ ops \ {o} \subseteq ops'
      /\ \A p \in net' : p \in net \/ Stamp(p.msg) = Of(o.msg.rec)
      /\ \A q \in ops' : q \in ops \/ q.kind # "apply"
  BY <1>1, <1>3 DEF Broadcasting
<1>7. OperationOK(o) /\ ~Waits(o)
  BY <1>1 DEF Typed, Waits
<1> QED
  BY <1>1, <1>4, <1>5, <1>6, <1>7, AgreeStore

LEMMA AgreeApplyStore ==
  ASSUME Typed, Typed', Agreeing, NEW o \in ops, ApplyStore(o)
  PROVE  Agreeing'
<1>1. /\ o.n \in Instances /\ o.kind = "apply" /\ OperationOK(o)
      /\ UNCHANGED <<setup, net>>
      /\ ops \ {o} \subseteq ops' /\ o \notin ops'
      /\ \A q \in ops' : q \in ops \/ q.kind # "apply"
  BY ApplyLemma
<1>2. \/ spoiled'
      \/ /\ o.msg.kind # "delete" /\ o.msg.rec # None
         /\ AcceptsUpsert(o.read, o.msg)
         /\ db' = [db EXCEPT ![Slot(o.n)] = Incoming(o.read, o.msg)]
         /\ Incoming(o.read, o.msg) \in Stored
         /\ spoiled' = (spoiled \/ Overtaken(o) \/ o.msg.kind = "response")
      \/ /\ db' = db /\ spoiled' = spoiled
         /\ o.msg.kind # "delete" => ~AcceptsUpsert(o.read, o.msg)
  BY ApplyLemma
<1>3. Open' = Open
  BY <1>1 DEF Open, space
<1> SUFFICES ASSUME Open, ~spoiled' PROVE Agreeing'
  BY <1>3 DEF Agreeing
<1>4. CASE /\ o.msg.kind # "delete" /\ o.msg.rec # None
           /\ AcceptsUpsert(o.read, o.msg)
           /\ db' = [db EXCEPT ![Slot(o.n)] = Incoming(o.read, o.msg)]
           /\ Incoming(o.read, o.msg) \in Stored
           /\ spoiled' = (spoiled \/ Overtaken(o) \/ o.msg.kind = "response")
  <2> DEFINE r == Incoming(o.read, o.msg)
  <2>1. ~spoiled /\ o.read = db[Slot(o.n)] /\ Waits(o)
    BY <1>1, <1>4 DEF Overtaken, Waits, OperationOK
  <2>2. r.version = o.msg.rec.version /\ r.at = o.msg.at
    BY <1>1, <1>4, IncomingLemma DEF OperationOK, Typed
  <2>3. db[Slot(o.n)] # None => Newer(r, r.at, db[Slot(o.n)])
    BY <1>4, <2>1, <2>2 DEF AcceptsUpsert, Newer
  <2>4. Stamp(o.msg) = Of(r)
    BY <2>2 DEF Stamp, Of
  <2>5. Stamp(o.msg) \in Waiting(o.n)
    BY <2>1 DEF Waiting
  <2>6. Of(r) \in Heard[o.n]
    BY <1>1, <2>4, <2>5 DEF Heard
  <2>7. r \in Stored /\ db' = [db EXCEPT ![Slot(o.n)] = r]
    BY <1>4
  <2> HIDE DEF r
  <2> QED
    BY <1>1, <2>1, <2>3, <2>4, <2>6, <2>7, AgreeStore
<1>5. CASE /\ db' = db /\ spoiled' = spoiled
           /\ o.msg.kind # "delete" => ~AcceptsUpsert(o.read, o.msg)
  <2>1. CASE Waits(o)
    BY <1>1, <1>5, <2>1, AgreeReject DEF Waits
  <2>2. CASE ~Waits(o)
    BY <1>1, <1>5, <2>2, AgreeFrame DEF Waits
  <2> QED
    BY <2>1, <2>2
<1> QED
  BY <1>2, <1>4, <1>5

LEMMA AgreeNext == Typed /\ Typed' /\ Agreeing /\ [Next]_vars => Agreeing'
<1> SUFFICES ASSUME Typed, Typed', Agreeing, [Next]_vars PROVE Agreeing'
  OBVIOUS
<1>1. ASSUME NEW n \in Instances, NEW owner \in setup.owners \cup {None}, NEW system \in BOOLEAN,
             Put(n, owner, system)
      PROVE  Agreeing'
  <2>1. UNCHANGED <<setup, db, net, spoiled>>
    BY <1>1 DEF Put
  <2>2. PICK o : ops' = ops \cup {o} /\ o.kind = "write"
    BY <1>1, PutLemma
  <2> QED
    BY <2>1, <2>2, AgreeFrame DEF Waits
<1>2. ASSUME NEW n \in Instances, NEW system \in BOOLEAN, Delete(n, system) PROVE Agreeing'
  <2>1. UNCHANGED <<setup, db, net, spoiled>>
    BY <1>2 DEF Delete
  <2>2. PICK o : ops' = ops \cup {o} /\ o.kind = "delete"
    BY <1>2, DeleteLemma
  <2> QED
    BY <2>1, <2>2, AgreeFrame DEF Waits
<1>3. ASSUME NEW n \in Instances, RetrieveCall(n) PROVE Agreeing'
  <2> DEFINE msg == Packet("request", n, calls + 1, now, None)
  <2>1. UNCHANGED <<setup, db, ops, spoiled>> /\ net' = net \cup Broadcasting(msg)
    BY <1>3 DEF RetrieveCall
  <2>2. msg.kind = "request"
    BY DEF Packet
  <2>3. \A p \in Broadcasting(msg) : p.msg = msg
    BY DEF Broadcasting
  <2> HIDE DEF msg
  <2> QED
    BY <2>1, <2>2, <2>3, AgreeFrame
<1>4. ASSUME NEW n \in Instances, NEW on \in BOOLEAN, RetrieveTimeout(n) \/ Subscribe(n, on)
      PROVE  Agreeing'
  <2>1. UNCHANGED <<setup, db, ops, net, spoiled>>
    BY <1>4 DEF RetrieveTimeout, Subscribe
  <2> QED
    BY <2>1, AgreeFrame
<1>5. ASSUME NEW n \in Instances, Close(n) PROVE Agreeing'
  <2>1. UNCHANGED <<setup, db, net>> /\ ops' = {o \in ops : o.n # n}
        /\ spoiled' = (spoiled \/ \E o \in ops : o.n = n)
    BY <1>5 DEF Close, Spoil
  <2>2. CASE spoiled'
    BY <2>2 DEF Agreeing
  <2>3. CASE ~spoiled'
    <3>1. ops' = ops /\ ~spoiled
      BY <2>1, <2>3
    <3> QED
      BY <2>1, <3>1, AgreeFrame
  <2> QED
    BY <2>2, <2>3
<1>6. ASSUME NEW o \in ops, PutStore(o) PROVE Agreeing'
  BY <1>6, AgreePutStore
<1>7. ASSUME NEW o \in ops, DeleteStore(o) PROVE Agreeing'
  BY <1>7, DeleteStoreLemma DEF Agreeing
<1>8. ASSUME NEW o \in ops, ApplyStore(o) PROVE Agreeing'
  BY <1>8, AgreeApplyStore
<1>9. ASSUME NEW o \in ops, Resolve(o) PROVE Agreeing'
  <2>1. UNCHANGED <<setup, db, net, spoiled>> /\ ops' = ops \ {o} /\ o.kind = "resolve"
    BY <1>9 DEF Resolve
  <2> QED
    BY <2>1, AgreeFrame DEF Waits
<1>10. ASSUME NEW p \in net, NEW filter \in Filters, Ignore(p, filter) PROVE Agreeing'
  <2>1. /\ net' = net \ {p} /\ UNCHANGED <<setup, db>>
        /\ spoiled' = (spoiled \/ p.msg.kind \in {"upsert", "delete"})
        /\ \A o \in ops' : o \in ops \/ o.kind = "resolve"
        /\ ops \subseteq ops'
    BY <1>10, IgnoreLemma
  <2>2. CASE spoiled'
    BY <2>2 DEF Agreeing
  <2>3. CASE ~spoiled'
    <3>1. p.msg.kind # "upsert" /\ ~spoiled
      BY <2>1, <2>3
    <3> QED
      BY <2>1, <3>1, AgreeFrame DEF Waits
  <2> QED
    BY <2>2, <2>3
<1>11. ASSUME NEW p \in net, Receive(p) PROVE Agreeing'
  BY <1>11, AgreeReceive
<1>12. ASSUME NEW p \in net, Serve(p) PROVE Agreeing'
  <2>1. UNCHANGED <<setup, db, ops, spoiled>> /\ p.msg.kind = "request"
        /\ net \ {p} \subseteq net'
    BY <1>12 DEF Serve
  <2>2. \A q \in net' : q \in net \/ q.msg.kind = "response"
    BY <1>12, ServeLemma
  <2> QED
    BY <2>1, <2>2, AgreeFrame
<1>13. ASSUME NEW c \in notices, ConsumeNotice(c) PROVE Agreeing'
  BY <1>13, NoticeLemma, AgreeFrame DEF Waits
<1>14. CASE Tick
  <2>1. UNCHANGED <<setup, db, ops, net, spoiled>>
    BY <1>14 DEF Tick
  <2> QED
    BY <2>1, AgreeFrame
<1>15. CASE UNCHANGED vars
  <2>1. UNCHANGED <<setup, db, ops, net, spoiled>>
    BY <1>15 DEF vars
  <2> QED
    BY <2>1, AgreeFrame
<1>16. ASSUME NEW o \in ops, Show(o) PROVE Agreeing'
  <2>1. UNCHANGED <<setup, db, net, spoiled>> /\ ops' = ops \ {o} /\ o.kind = "show"
    BY <1>16 DEF Show
  <2> QED
    BY <2>1, AgreeFrame DEF Waits
<1> QED
  BY <1>1, <1>2, <1>3, <1>4, <1>5, <1>6, <1>7, <1>8, <1>9, <1>10, <1>11, <1>12, <1>13, <1>14,
     <1>15, <1>16 DEF Next, Continue

LEMMA AgreeInit == Init => Agreeing
<1> SUFFICES ASSUME Init PROVE Fresh /\ Spread(Heard)
  BY DEF Agreeing
<1>1. Fresh
  BY DEF Init, Fresh
<1>2. ASSUME NEW n \in Instances PROVE Heard[n] = {}
  BY SlotLemma DEF Init, Heard, Kept, Coming, Waiting
<1> QED
  BY <1>1, <1>2 DEF Spread

LEMMA AgreeingGivesQuiet == Typed /\ Agreeing => QuietReplicasAgree
<1> SUFFICES ASSUME Typed, Agreeing, ops = {}, net = {}, ~spoiled, Open,
                    NEW n \in Instances, NEW k \in Instances
             PROVE  \/ db[Slot(n)] = db[Slot(k)]
                    \/ /\ db[Slot(n)] # None /\ db[Slot(k)] # None
                       /\ Tied(db[Slot(n)], db[Slot(k)])
  BY DEF QuietReplicasAgree, Open
<1>1. \A i \in Instances : Heard[i] = Kept(i)
  BY DEF Heard, Coming, Waiting
<1>2. \A i, j \in Instances : \A u \in Kept(i) : \E w \in Kept(j) : NotBefore(w, u)
  BY <1>1 DEF Agreeing, Spread
<1>3. \A i \in Instances : /\ db[Slot(i)] \in Stored \cup {None}
                            /\ \A u : u \in Kept(i) <=> db[Slot(i)] # None /\ u = Of(db[Slot(i)])
  BY SlotLemma DEF Typed, Kept
<1>4. \A i, j \in Instances : db[Slot(i)] # None =>
         db[Slot(j)] # None /\ NotBefore(Of(db[Slot(j)]), Of(db[Slot(i)]))
  BY <1>2, <1>3
<1>5. CASE db[Slot(n)] # None /\ db[Slot(k)] # None
  <2>1. /\ NotBefore(Of(db[Slot(k)]), Of(db[Slot(n)]))
        /\ NotBefore(Of(db[Slot(n)]), Of(db[Slot(k)]))
        /\ db[Slot(n)] \in Stored /\ db[Slot(k)] \in Stored
    BY <1>3, <1>4, <1>5
  <2> QED
    BY <1>5, <2>1 DEF NotBefore, Of, Stored, Tied
<1> QED
  BY <1>4, <1>5

(* Replicas agree once all is quiet, if no update was deleted, stamped anew, *)
(* refused, lost or overtaken: every stamp one of them has heard of is       *)
(* followed, at each of the others, by one that is not older.                *)
THEOREM ReplicasConverge == Spec => []QuietReplicasAgree
<1>1. Init => Typed /\ Agreeing
  BY TypedInit, AgreeInit
<1>2. Typed /\ Agreeing /\ [Next]_vars => (Typed /\ Agreeing)'
  <2>1. Typed /\ [Next]_vars => Typed'
    BY TypedNext
  <2> QED
    BY <2>1, AgreeNext
<1>3. Typed /\ Agreeing => QuietReplicasAgree
  BY AgreeingGivesQuiet
<1> QED
  BY <1>1, <1>2, <1>3, PTL DEF Spec

-----------------------------------------------------------------------------
(* Tabs                                                                      *)

OneRoom(n) == \A k \in Instances : Slot(k) = Slot(n) => setup.room[k] = setup.room[n]

(* A tab that shows an old record has a notice to consume or an event to     *)
(* raise, or is one of the exceptions.                                       *)
UpToDate(n) ==
  \/ n \in closed \cup misled
  \/ ~OneRoom(n)
  \/ view[n] \in {None, db[Slot(n)]}
  \/ db[Slot(n)] = None
  \/ \E c \in notices : c.to = n
  \/ \E o \in ops : o.n = n /\ o.kind = "show"

AllUpToDate ==
  /\ view = [n \in Instances |-> view[n]]
  /\ \A n \in Instances : UpToDate(n)

(* Tabs of one slot are tabs of one disk.                                    *)
LEMMA OneDisk ==
  ASSUME NEW n, NEW k, Slot(n) = Slot(k)
  PROVE  setup.disk[n] = setup.disk[k]
<1>1. \A i : Slot(i)[1] = setup.disk[i]
  BY DEF Slot
<1> QED
  BY <1>1

LEMMA SlotsStay ==
  ASSUME UNCHANGED setup
  PROVE  \A n : /\ Slot(n)' = Slot(n)
               /\ OneRoom(n)' = OneRoom(n)
BY DEF Slot, OneRoom, User, space

(* A step that changes neither disks nor events.                             *)
LEMMA TabsFrame ==
  ASSUME AllUpToDate, UNCHANGED <<setup, db, view, misled>>, closed \subseteq closed',
         notices \subseteq notices',
         \A o \in ops : o.kind = "show" => o \in ops' \/ o.n \in closed'
  PROVE  AllUpToDate'
<1> SUFFICES ASSUME NEW n \in Instances PROVE UpToDate(n)'
  BY DEF AllUpToDate
<1>1. Slot(n)' = Slot(n) /\ OneRoom(n)' = OneRoom(n)
  BY SlotsStay
<1>2. UpToDate(n)
  BY DEF AllUpToDate
<1>3. (\E c \in notices : c.to = n) => \E c \in notices' : c.to = n
  OBVIOUS
<1>4. (\E o \in ops : o.n = n /\ o.kind = "show")
        => n \in closed' \/ \E o \in ops' : o.n = n /\ o.kind = "show"
  OBVIOUS
<1> QED
  BY <1>1, <1>2, <1>3, <1>4 DEF UpToDate

(* A tab that changes the disk tells all the others.                         *)
LEMMA TabsStore ==
  ASSUME Typed, AllUpToDate, UNCHANGED <<setup, closed>>, NEW k \in Instances, NEW r, NEW op, NEW id,
         db' = [db EXCEPT ![Slot(k)] = r], Announce(k, op, id, r),
         \A o \in ops : o.kind = "show" => o \in ops'
  PROVE  AllUpToDate'
<1>1. /\ view' = [view EXCEPT ![k] = r] /\ misled' = misled \ {k}
      /\ notices' = notices \cup {[to |-> j, op |-> op, id |-> id] : j \in Tabs(k)}
  BY DEF Announce, Shows
<1>2. view' = [n \in Instances |-> view'[n]]
  BY <1>1 DEF AllUpToDate
<1>3. ASSUME NEW n \in Instances PROVE UpToDate(n)'
  <2>1. Slot(n)' = Slot(n) /\ OneRoom(n)' = OneRoom(n) /\ Slot(n) \in Slots /\ Slot(k) \in Slots
    BY SlotsStay, SlotLemma
  <2>2. CASE n = k
    <3>1. view'[n] = r /\ db'[Slot(n)] = r
      BY <1>1, <2>1, <2>2 DEF AllUpToDate, Typed
    <3> QED
      BY <2>1, <3>1 DEF UpToDate
  <2>3. CASE n # k /\ Slot(n) # Slot(k)
    <3>1. view'[n] = view[n] /\ db'[Slot(n)] = db[Slot(n)]
      BY <1>1, <2>1, <2>3 DEF AllUpToDate, Typed
    <3>2. UpToDate(n) /\ notices \subseteq notices' /\ (n \in misled => n \in misled')
      BY <1>1, <2>3 DEF AllUpToDate
    <3> QED
      BY <2>1, <3>1, <3>2 DEF UpToDate
  <2>4. CASE n # k /\ Slot(n) = Slot(k)
    <3>1. CASE n \in closed \/ ~OneRoom(n)
      BY <2>1, <3>1 DEF UpToDate
    <3>2. CASE n \notin closed /\ OneRoom(n)
      <4>1. n \in Tabs(k)
        BY <2>4, <3>2, OneDisk DEF Tabs, OneRoom
      <4>2. PICK c \in notices' : c = [to |-> n, op |-> op, id |-> id]
        BY <1>1, <4>1
      <4>3. c.to = n
        BY <4>2
      <4> QED
        BY <4>3 DEF UpToDate
    <3> QED
      BY <3>1, <3>2
  <2> QED
    BY <2>2, <2>3, <2>4
<1> QED
  BY <1>2, <1>3 DEF AllUpToDate

LEMMA TabsNotice ==
  ASSUME AllUpToDate, NEW c \in notices, ConsumeNotice(c)
  PROVE  AllUpToDate'
<1> DEFINE k == c.to
<1>1. /\ UNCHANGED <<setup, db, closed>> /\ notices' = notices \ {c} /\ ops \subseteq ops'
      /\ \/ misled' = misled \cup {k} /\ UNCHANGED view
         \/ /\ view' = [view EXCEPT ![k] = None]
            /\ misled' = misled \ {k}
         \/ db[Slot(k)] = None /\ UNCHANGED <<view, misled>>
         \/ /\ view' = [view EXCEPT ![k] = db[Slot(k)]]
            /\ misled' = misled \ {k}
         \/ /\ \E o \in ops' : o.n = k /\ o.kind = "show"
            /\ UNCHANGED <<view, misled>>
  BY NoticeLemma
<1> HIDE DEF k
<1>2. view' = [n \in Instances |-> view'[n]]
  BY <1>1 DEF AllUpToDate
<1>3. ASSUME NEW n \in Instances PROVE UpToDate(n)'
  <2>1. Slot(n)' = Slot(n) /\ OneRoom(n)' = OneRoom(n)
    BY <1>1, SlotsStay
  <2>2. CASE n = k
    <3>1. \/ n \in misled' \/ view'[n] = None \/ db'[Slot(n)] = None
          \/ view'[n] = db'[Slot(n)] \/ \E o \in ops' : o.n = n /\ o.kind = "show"
      BY <1>1, <2>2 DEF AllUpToDate
    <3> QED
      BY <2>1, <3>1 DEF UpToDate
  <2>3. CASE n # k
    <3>1. view'[n] = view[n] /\ (n \in misled => n \in misled')
      BY <1>1, <2>3 DEF AllUpToDate
    <3>2. \A d \in notices : d.to = n => d \in notices'
      BY <1>1, <2>3 DEF k
    <3>3. UpToDate(n)
      BY DEF AllUpToDate
    <3> QED
      BY <1>1, <2>1, <3>1, <3>2, <3>3 DEF UpToDate
  <2> QED
    BY <2>2, <2>3
<1> QED
  BY <1>2, <1>3 DEF AllUpToDate

LEMMA TabsShow ==
  ASSUME AllUpToDate, NEW o \in ops, Show(o)
  PROVE  AllUpToDate'
<1>1. /\ UNCHANGED <<setup, db, closed, notices>> /\ ops' = ops \ {o}
      /\ view' = [view EXCEPT ![o.n] = o.read]
      /\ misled' = IF Overtaken(o) THEN misled \cup {o.n} ELSE misled \ {o.n}
  BY DEF Show, Shows
<1>2. view' = [n \in Instances |-> view'[n]]
  BY <1>1 DEF AllUpToDate
<1>3. ASSUME NEW n \in Instances PROVE UpToDate(n)'
  <2>1. Slot(n)' = Slot(n) /\ OneRoom(n)' = OneRoom(n)
    BY <1>1, SlotsStay
  <2>2. CASE n = o.n
    <3>1. n \in misled' \/ view'[n] = db'[Slot(n)]
      BY <1>1, <2>2 DEF AllUpToDate, Overtaken
    <3> QED
      BY <2>1, <3>1 DEF UpToDate
  <2>3. CASE n # o.n
    <3>1. view'[n] = view[n] /\ (n \in misled => n \in misled')
      BY <1>1, <2>3 DEF AllUpToDate
    <3>2. \A q \in ops : q.n = n => q \in ops'
      BY <1>1, <2>3
    <3>3. UpToDate(n)
      BY DEF AllUpToDate
    <3> QED
      BY <1>1, <2>1, <3>1, <3>2, <3>3 DEF UpToDate
  <2> QED
    BY <2>2, <2>3
<1> QED
  BY <1>2, <1>3 DEF AllUpToDate

LEMMA TabsStep ==
  ASSUME Typed, AllUpToDate, [Next]_vars
  PROVE  AllUpToDate'
<1>1. ASSUME NEW n \in Instances, NEW owner \in setup.owners \cup {None}, NEW system \in BOOLEAN,
             Put(n, owner, system)
      PROVE  AllUpToDate'
  <2>1. UNCHANGED <<setup, db, view, misled, closed, notices>> /\ ops \subseteq ops'
    BY <1>1 DEF Put, Silent
  <2> QED
    BY <2>1, TabsFrame
<1>2. ASSUME NEW n \in Instances, NEW system \in BOOLEAN, Delete(n, system) PROVE AllUpToDate'
  <2>1. UNCHANGED <<setup, db, view, misled, closed, notices>> /\ ops \subseteq ops'
    BY <1>2 DEF Delete, Silent
  <2> QED
    BY <2>1, TabsFrame
<1>3. ASSUME NEW n \in Instances,
             RetrieveCall(n) \/ RetrieveTimeout(n) \/ \E on \in BOOLEAN : Subscribe(n, on)
      PROVE  AllUpToDate'
  <2>1. UNCHANGED <<setup, db, view, misled, closed, notices, ops>>
    BY <1>3 DEF RetrieveCall, RetrieveTimeout, Subscribe, Silent
  <2> QED
    BY <2>1, TabsFrame
<1>4. ASSUME NEW n \in Instances, Close(n) PROVE AllUpToDate'
  <2>1. /\ UNCHANGED <<setup, db, view, misled, notices>>
        /\ closed' = closed \cup {n} /\ ops' = {o \in ops : o.n # n}
    BY <1>4 DEF Close
  <2> QED
    BY <2>1, TabsFrame
<1>5. ASSUME NEW o \in ops, PutStore(o) PROVE AllUpToDate'
  <2>1. /\ o.n \in Instances /\ o.kind = "write" /\ ops' = ops \ {o} /\ UNCHANGED <<setup, closed>>
        /\ db' = [db EXCEPT ![Slot(o.n)] = o.msg.rec]
        /\ Announce(o.n, "upsert", <<"local", o.n, o.msg.id>>, o.msg.rec)
    BY <1>5 DEF PutStore, Typed, OperationOK
  <2> QED
    BY <2>1, TabsStore
<1>6. ASSUME NEW o \in ops, DeleteStore(o) PROVE AllUpToDate'
  <2>1. /\ o.n \in Instances /\ o.kind = "delete" /\ ops' = ops \ {o} /\ UNCHANGED <<setup, closed>>
        /\ db' = [db EXCEPT ![Slot(o.n)] = None]
        /\ Announce(o.n, "delete", <<"local", o.n, o.msg.id>>, None)
    BY <1>6 DEF DeleteStore, Typed, OperationOK
  <2> QED
    BY <2>1, TabsStore
<1>7. ASSUME NEW o \in ops, ApplyStore(o) PROVE AllUpToDate'
  <2>1. o.n \in Instances /\ o.kind = "apply" /\ ops \ {o} \subseteq ops' /\ UNCHANGED <<setup, closed>>
    BY <1>7 DEF ApplyStore, Typed, OperationOK
  <2>2. \/ \E r : \E op : /\ db' = [db EXCEPT ![Slot(o.n)] = r]
                         /\ Announce(o.n, op, OpId(o.msg), r)
        \/ UNCHANGED <<db, view, misled, notices>>
    BY <1>7 DEF ApplyStore, Silent
  <2>3. CASE UNCHANGED <<db, view, misled, notices>>
    BY <2>1, <2>3, TabsFrame
  <2> QED
    BY <2>1, <2>2, <2>3, TabsStore
<1>8. ASSUME NEW o \in ops, Resolve(o) PROVE AllUpToDate'
  <2>1. UNCHANGED <<setup, db, view, misled, closed, notices>> /\ ops' = ops \ {o} /\ o.kind = "resolve"
    BY <1>8 DEF Resolve, Silent
  <2> QED
    BY <2>1, TabsFrame
<1>9. ASSUME NEW p \in net, (\E filter \in Filters : Ignore(p, filter)) \/ Receive(p) \/ Serve(p)
      PROVE  AllUpToDate'
  <2>1. UNCHANGED <<setup, db, view, misled, closed, notices>> /\ ops \subseteq ops'
    BY <1>9 DEF Ignore, Receive, Serve, Silent
  <2> QED
    BY <2>1, TabsFrame
<1>10. CASE Tick \/ UNCHANGED vars
  <2>1. UNCHANGED <<setup, db, view, misled, closed, notices, ops>>
    BY <1>10 DEF Tick, Silent, vars
  <2> QED
    BY <2>1, TabsFrame
<1>11. ASSUME NEW o \in ops, Continue(o) PROVE AllUpToDate'
  BY <1>5, <1>6, <1>7, <1>8, <1>11, TabsShow DEF Continue
<1>12. ASSUME NEW c \in notices, ConsumeNotice(c) PROVE AllUpToDate'
  BY <1>12, TabsNotice
<1> QED
  BY <1>1, <1>2, <1>3, <1>4, <1>9, <1>10, <1>11, <1>12 DEF Next

(* Once all is quiet, the last event of a tab is about the record on its     *)
(* disk, for any number of tabs, disks, rooms and users; the exceptions are  *)
(* those that TabsAgree names.                                               *)
THEOREM TabsAreTold == Spec => []TabsAgree
<1>1. Init => AllUpToDate
  BY DEF Init, AllUpToDate, UpToDate
<1>2. Typed /\ AllUpToDate /\ [Next]_vars => AllUpToDate'
  BY TabsStep
<1>3. AllUpToDate => TabsAgree
  BY DEF AllUpToDate, UpToDate, OneRoom, TabsAgree
<1> QED
  BY TypedAlways, <1>1, <1>2, <1>3, PTL DEF Spec

=============================================================================
