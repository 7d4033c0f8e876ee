------------------------------ MODULE Storage ------------------------------
(* Synchronized storage (storage.ts): one key of one space on several        *)
(* PeerPigeonStorage instances.  Instances of one browser profile (tabs)     *)
(* share a disk and tell each other of changes; all others learn of them     *)
(* from gossip.  Every await of the code that lies between a read and the    *)
(* write or answer that depends on it ends an action: what an operation has  *)
(* read waits in ops while other operations run.                             *)
EXTENDS Naturals, FiniteSets

CONSTANTS
  Instances,      \* storage instances (tabs, nodes)
  Setups,         \* what a behaviour may start from, [space, disk, user, room,
                  \* owners, calls, closes]: the space of the key; for every
                  \* instance the IndexedDB it opens, its user id, its
                  \* sessionId and secret; the owners a put may ask for;
                  \* bounds on the calls and the closed instances
  PeerIdUsers,    \* the user ids in the old format, 64 hexadecimal digits
  Filters,        \* the answers the application's syncFilter may give
  None,           \* no record, no owner
  MaxCalls,       \* bound: puts, deletes and retrieves, of any setup
  MaxSubs,        \* bound: calls of subscribeKey and unsubscribeKey
  MaxTick         \* bound: the clock

ASSUME Assumption ==
  /\ {MaxCalls, MaxSubs, MaxTick} \subseteq Nat
  /\ \A s \in Setups :
       None \notin [val: Nat, owner: {s.user[n] : n \in Instances} \cup s.owners \cup {None},
                   version: Nat, at: Nat]

VARIABLES
  setup,          \* one of Setups; never changes
  db,             \* [slot -> record or None]: the drivers
  subscribed,     \* subscribedKeys: whether instance n follows the key
  closed,         \* the closed instances
  ops,            \* operations that wait for a promise
  retrieve,       \* [Instances -> the retrieve call of the instance]
  net,            \* gossip under way: [to, msg]
  notices,        \* cross-tab notices under way: [to, op, id]
  seenNotices,    \* crossTabSeenNoticeIds
  view,           \* the record of the last change event, None after a delete
  now,            \* Date.now(), the same for all instances
  calls,          \* calls of the application so far; numbers the operations
  subs,           \* calls of subscribeKey and unsubscribeKey so far
  misled,         \* history: see Shows and ConsumeNotice
  spoiled         \* history: see Spoil

vars == <<setup, db, subscribed, closed, ops, retrieve, net, notices,
          seenNotices, view, now, calls, subs, misled, spoiled>>

space == setup.space
User == setup.user

(* makePk: private keys are kept apart by user.                              *)
Slot(n) == IF space = "private" THEN <<setup.disk[n], User[n]>> ELSE <<setup.disk[n]>>

Slots == {Slot(n) : n \in Instances}

(* Faulty variant: no notice is published.                                   *)
TabsFaultyNone(n) == {}

(* The instances a notice of n reaches: their channel has the same name.     *)
Tabs(n) == {k \in Instances \ {n} :
              setup.disk[k] = setup.disk[n] /\ setup.room[k] = setup.room[n] /\ k \notin closed}

Owner == {User[n] : n \in Instances} \cup setup.owners \cup {None}

Time == 0..MaxTick

(* val names the put that wrote the value; at is updatedAt, which a retrieve *)
(* response sets anew.                                                       *)
Record == [val: 1..MaxCalls, owner: Owner,
           version: 1..MaxCalls, at: Time]

Message == [kind: {"upsert", "delete", "request", "response"},
            from: Instances, id: 1..MaxCalls, at: Time,
            rec: Record \cup {None}]

(* "write", "delete" and "apply" have read the driver and are about to       *)
(* change it, "resolve" is about to settle a retrieve, "show" to raise an    *)
(* event with a private record that is being decrypted.                      *)
Operation == [n: Instances,
              kind: {"write", "delete", "apply", "resolve", "show"},
              read: Record \cup {None}, pending: BOOLEAN, msg: Message]

NoticeId == {"local", "upsert", "delete", "response"} \X Instances \X (1..MaxCalls)

Retrieve == [status: {"idle", "waiting", "answering", "done", "hung"},
             id: 0..MaxCalls]

TypeOK ==
  /\ setup \in Setups
  /\ db \in [Slots -> Record \cup {None}]
  /\ subscribed \in [Instances -> BOOLEAN]
  /\ closed \subseteq Instances
  /\ ops \subseteq Operation
  /\ retrieve \in [Instances -> Retrieve]
  /\ net \subseteq [to: Instances, msg: Message]
  /\ notices \subseteq [to: Instances, op: {"upsert", "delete"}, id: NoticeId]
  /\ seenNotices \in [Instances -> SUBSET NoticeId]
  /\ view \in [Instances -> Record \cup {None}]
  /\ now \in Time
  /\ calls \in 0..MaxCalls
  /\ subs \in 0..MaxSubs
  /\ misled \subseteq Instances
  /\ spoiled \in BOOLEAN

Idle == [status |-> "idle", id |-> 0]

Init ==
  /\ setup \in Setups
  /\ db = [s \in Slots |-> None]
  /\ subscribed = [n \in Instances |-> FALSE]
  /\ closed = {}
  /\ ops = {}
  /\ retrieve = [n \in Instances |-> Idle]
  /\ net = {}
  /\ notices = {}
  /\ seenNotices = [n \in Instances |-> {}]
  /\ view = [n \in Instances |-> None]
  /\ now = 0
  /\ calls = 0
  /\ subs = 0
  /\ misled = {}
  /\ spoiled = FALSE

-----------------------------------------------------------------------------
(* Versions and access control                                               *)

(* Faulty variant: the clock is not compared.                                *)
NewerFaultyVersion(incoming, at, existing) == incoming.version > existing.version

(* compareStorageVersions and the clock: incoming, stamped with time at,     *)
(* replaces existing.                                                        *)
Newer(incoming, at, existing) ==
  \/ incoming.version > existing.version
  \/ incoming.version = existing.version /\ at > existing.at

Migrates(existing, actor) ==
  existing.owner \in PeerIdUsers /\ actor \notin PeerIdUsers

CanWrite(existing, actor, override, system) ==
  \/ space \in {"public", "private"}
  \/ space = "epublic" /\ system
  \/ space = "frozen" /\ existing = None
  \/ /\ space = "user"
     /\ existing # None => \/ existing.owner = actor
                           \/ override # None
                           \/ Migrates(existing, actor)

CanDelete(existing, actor, system) ==
  \/ space \in {"public", "private"}
  \/ space = "epublic" /\ system
  \/ space = "user" /\ existing.owner = actor

(* Faulty variant: an owner asked for replaces the one on record.            *)
ResolvedOwnerFaultyOverride(existing, actor, override) ==
  IF override # None THEN override ELSE actor

(* resolveOwnerId                                                            *)
ResolvedOwner(existing, actor, override) ==
  CASE space = "user" /\ existing = None ->
         IF override # None THEN override ELSE actor
    [] space = "user" /\ existing # None ->
         IF Migrates(existing, actor) THEN actor ELSE existing.owner
    [] OTHER -> None

(* putSystem and deleteSystem throw in any other space.                      *)
MayCall(system) == system => space = "epublic"

NextVersion(existing) == IF existing = None THEN 1 ELSE existing.version + 1

(* shouldAcceptRemoteSync, with the answer of the application's filter.      *)
Accepts(n, msg, filter) ==
  /\ space # "private"
  /\ msg.kind = "request" \/ subscribed[n]
  /\ filter

-----------------------------------------------------------------------------
(* Steps several actions share                                               *)

(* emitChange.  An instance is misled when the record it shows has been       *)
(* replaced since it was read.                                               *)
Shows(n, rec, outdated) ==
  /\ view' = [view EXCEPT ![n] = rec]
  /\ misled' = IF outdated THEN misled \cup {n} ELSE misled \ {n}

(* emitChange and publishCrossTabNotice after a change of n's slot.          *)
Announce(n, op, id, rec) ==
  /\ Shows(n, rec, FALSE)
  /\ seenNotices' = [seenNotices EXCEPT ![n] = @ \cup {id}]
  /\ notices' = notices \cup
       {[to |-> k, op |-> op, id |-> id] : k \in Tabs(n)}

Silent == UNCHANGED <<view, seenNotices, notices, misled>>

(* The history that keeps replicas from being compared: an update that was   *)
(* deleted, stamped anew, refused or lost, or that overtook another one      *)
(* between its read and its write.                                           *)
Spoil(cond) == spoiled' = (spoiled \/ cond)

Overtaken(o) == db[Slot(o.n)] # o.read

Op(n, kind, read, msg) ==
  [n |-> n, kind |-> kind, read |-> read, pending |-> FALSE, msg |-> msg]

Packet(kind, n, id, at, rec) ==
  [kind |-> kind, from |-> n, id |-> id, at |-> at, rec |-> rec]

Calls(n) == n \notin closed /\ calls < setup.calls /\ calls' = calls + 1

-----------------------------------------------------------------------------
(* Local mutations                                                           *)

(* put and putSystem: driver.get has answered, the write is allowed, the     *)
(* record is made; then the value is encoded.  A refused put throws.         *)
Put(n, owner, system) ==
  /\ Calls(n)
  /\ MayCall(system)
  /\ CanWrite(db[Slot(n)], User[n], owner, system)
  /\ LET rec == [val |-> calls + 1,
                 owner |-> ResolvedOwner(db[Slot(n)], User[n], owner),
                 version |-> NextVersion(db[Slot(n)]), at |-> now]
     IN  ops' = ops \cup {Op(n, "write", db[Slot(n)],
                             Packet("upsert", n, calls + 1, now, rec))}
  /\ Silent
  /\ UNCHANGED <<setup, db, subscribed, closed, retrieve, net, now, subs, spoiled>>

(* broadcastSyncPayload.  That the envelope is encrypted first, and sent     *)
(* later, is part of the time a packet spends in net.                        *)
Broadcasting(msg) ==
  IF space = "private" THEN {}
  ELSE {[to |-> k, msg |-> msg] : k \in Instances \ {msg.from}}

PutStore(o) ==
  /\ o \in ops /\ o.kind = "write"
  /\ db' = [db EXCEPT ![Slot(o.n)] = o.msg.rec]
  /\ ops' = ops \ {o}
  /\ net' = net \cup Broadcasting(o.msg)
  /\ Announce(o.n, "upsert", <<"local", o.n, o.msg.id>>, o.msg.rec)
  /\ Spoil(Overtaken(o))
  /\ UNCHANGED <<setup, subscribed, closed, retrieve, now, calls, subs>>

(* delete and deleteSystem, up to the answer of driver.get; a refused one    *)
(* throws, one without a record answers false.                               *)
Delete(n, system) ==
  /\ Calls(n)
  /\ MayCall(system)
  /\ db[Slot(n)] # None
  /\ CanDelete(db[Slot(n)], User[n], system)
  /\ ops' = ops \cup {Op(n, "delete", db[Slot(n)],
                         Packet("delete", n, calls + 1, 0, None))}
  /\ Silent
  /\ UNCHANGED <<setup, db, subscribed, closed, retrieve, net, now, subs, spoiled>>

DeleteStore(o) ==
  /\ o \in ops /\ o.kind = "delete"
  /\ db' = [db EXCEPT ![Slot(o.n)] = None]
  /\ ops' = ops \ {o}
  /\ net' = net \cup Broadcasting(Packet("delete", o.n, o.msg.id, now, None))
  /\ Announce(o.n, "delete", <<"local", o.n, o.msg.id>>, None)
  /\ Spoil(TRUE)
  /\ UNCHANGED <<setup, subscribed, closed, retrieve, now, calls, subs>>

-----------------------------------------------------------------------------
(* Messages from other instances                                             *)

(* handleRetrieveResponse takes the call off the table of pending ones       *)
(* before it applies the record.                                             *)
Answering(n, msg) ==
  /\ msg.kind = "response"
  /\ retrieve[n].status = "waiting" /\ retrieve[n].id = msg.id

TakeOff(n, msg) ==
  retrieve' = IF Answering(n, msg)
              THEN [retrieve EXCEPT ![n] = [status |-> "answering", id |-> msg.id]]
              ELSE retrieve

(* decryptSyncEnvelope: the key is derived from the room.                    *)
Opens(n, msg) == n \notin closed /\ setup.room[n] = setup.room[msg.from]

(* Faulty variant: a response that is not accepted is dropped.               *)
RefusedFaultyDropped(n, msg) == {}

(* A response that is not accepted still settles the call it answers.        *)
Refused(n, msg) ==
  IF Answering(n, msg) THEN {Op(n, "resolve", None, msg)} ELSE {}

(* handleGossipMessage on an envelope of another room, a closed instance,    *)
(* or an update the instance does not follow.                                *)
Ignore(p, filter) ==
  /\ p \in net
  /\ LET n == p.to
     IN  /\ ~Opens(n, p.msg) \/ ~Accepts(n, p.msg, filter)
         /\ IF Opens(n, p.msg) /\ p.msg.kind = "response"
            THEN /\ TakeOff(n, p.msg)
                 /\ ops' = ops \cup Refused(n, p.msg)
            ELSE UNCHANGED <<retrieve, ops>>
  /\ net' = net \ {p}
  /\ Spoil(p.msg.kind \in {"upsert", "delete"})
  /\ Silent
  /\ UNCHANGED <<setup, db, subscribed, closed, now, calls, subs>>

(* A mutation or a retrieve response is accepted: applyRemoteMutation up to  *)
(* the answer of driver.get.                                                 *)
Receive(p) ==
  /\ p \in net
  /\ LET n == p.to IN
     /\ Opens(n, p.msg)
     /\ Accepts(n, p.msg, TRUE)
     /\ p.msg.kind # "request"
     /\ TakeOff(n, p.msg)
     /\ ops' = ops \cup {[Op(n, "apply", db[Slot(n)], p.msg) EXCEPT
                             !.pending = Answering(n, p.msg)]}
  /\ net' = net \ {p}
  /\ Silent
  /\ UNCHANGED <<setup, db, subscribed, closed, now, calls, subs, spoiled>>

(* handleRetrieveRequest: another user's request is answered with the record *)
(* as it is now.                                                             *)
Serve(p) ==
  /\ p \in net
  /\ LET n == p.to IN
     /\ Opens(n, p.msg)
     /\ Accepts(n, p.msg, TRUE)
     /\ p.msg.kind = "request"
     /\ net' = (net \ {p}) \cup
          IF User[p.msg.from] # User[n] /\ db[Slot(n)] # None
          THEN Broadcasting(Packet("response", n, p.msg.id, now, db[Slot(n)]))
          ELSE {}
  /\ Silent
  /\ UNCHANGED <<setup, db, subscribed, closed, ops, retrieve, now, calls, subs,
                 spoiled>>

(* What applyRemoteMutation demands of a delete and of an upsert, given what *)
(* it has read.                                                              *)
AcceptsDelete(existing, msg) ==
  /\ existing # None
  /\ msg.at > existing.at
  /\ CanDelete(existing, User[msg.from], space = "epublic")

(* Faulty variant: the record read is not compared.                          *)
AcceptsUpsertFaultyUnread(existing, msg) ==
  CanWrite(existing, User[msg.from], None, space = "epublic")

AcceptsUpsert(existing, msg) ==
  LET actor == User[msg.from] IN
  /\ existing # None => Newer(msg.rec, msg.at, existing)
  /\ CanWrite(existing, actor, None, space = "epublic")
  /\ space = "user" /\ existing = None => msg.rec.owner \in {None, actor}

(* The record as it is stored: its owner stays, its time is the message's.   *)
Incoming(existing, msg) ==
  [val |-> msg.rec.val,
   owner |-> IF space # "user" THEN msg.rec.owner
             ELSE IF existing # None THEN existing.owner
             ELSE IF msg.rec.owner # None THEN msg.rec.owner
             ELSE User[msg.from],
   version |-> msg.rec.version, at |-> msg.at]

(* The rest of a retrieve response: the call it answers is settled.          *)
Finishing(o) == IF o.pending THEN {Op(o.n, "resolve", None, o.msg)} ELSE {}

(* The notice of a remote change bears the id of the message, the same in    *)
(* every tab that applies it.                                                *)
OpId(msg) == <<msg.kind, msg.from, msg.id>>

ApplyStore(o) ==
  /\ o \in ops /\ o.kind = "apply"
  /\ ops' = (ops \ {o}) \cup Finishing(o)
  /\ \/ /\ o.msg.kind = "delete" /\ AcceptsDelete(o.read, o.msg)
        /\ db' = [db EXCEPT ![Slot(o.n)] = None]
        /\ Announce(o.n, "delete", OpId(o.msg), None)
        /\ Spoil(TRUE)
     \/ /\ o.msg.kind # "delete" /\ AcceptsUpsert(o.read, o.msg)
        /\ db' = [db EXCEPT ![Slot(o.n)] = Incoming(o.read, o.msg)]
        /\ Announce(o.n, "upsert", OpId(o.msg), Incoming(o.read, o.msg))
        /\ Spoil(Overtaken(o) \/ o.msg.kind = "response")
     \/ /\ IF o.msg.kind = "delete" THEN ~AcceptsDelete(o.read, o.msg)
                                    ELSE ~AcceptsUpsert(o.read, o.msg)
        /\ Silent
        /\ UNCHANGED <<db, spoiled>>
  /\ UNCHANGED <<setup, subscribed, closed, retrieve, net, now, calls, subs>>

-----------------------------------------------------------------------------
(* Retrieval                                                                 *)

Status(n, status) ==
  retrieve' = [retrieve EXCEPT ![n] = [status |-> status, id |-> retrieve[n].id]]

(* retrieve subscribes and reads the local record, which settles it for a    *)
(* private key.  For the others the timer is started, the call becomes       *)
(* pending and the request is broadcast.                                     *)
RetrieveCall(n) ==
  /\ Calls(n)
  /\ retrieve[n].status \in {"idle", "done"}
  /\ subscribed' = [subscribed EXCEPT ![n] = TRUE]
  /\ retrieve' = [retrieve EXCEPT ![n] =
       [status |-> IF space = "private" THEN "done" ELSE "waiting", id |-> calls + 1]]
  /\ net' = net \cup Broadcasting(Packet("request", n, calls + 1, now, None))
  /\ Silent
  /\ UNCHANGED <<setup, db, closed, ops, now, subs, spoiled>>

(* The timer: the call is settled with the local record.                     *)
RetrieveTimeout(n) ==
  /\ retrieve[n].status = "waiting"
  /\ Status(n, "done")
  /\ Silent
  /\ UNCHANGED <<setup, db, subscribed, closed, ops, net, now, calls, subs, spoiled>>

Resolve(o) ==
  /\ o \in ops /\ o.kind = "resolve"
  /\ ops' = ops \ {o}
  /\ Status(o.n, "done")
  /\ Silent
  /\ UNCHANGED <<setup, db, subscribed, closed, net, now, calls, subs, spoiled>>

-----------------------------------------------------------------------------
(* Subscriptions, tabs, the end of an instance, time                         *)

Subscribe(n, on) ==
  /\ n \notin closed
  /\ subs < MaxSubs /\ subs' = subs + 1
  /\ subscribed[n] # on
  /\ subscribed' = [subscribed EXCEPT ![n] = on]
  /\ Silent
  /\ UNCHANGED <<setup, db, closed, ops, retrieve, net, now, calls, spoiled>>

(* consumeCrossTabNotice and applyCrossTabNotice: a deletion is passed on as *)
(* it is, an update is read from the shared disk and, in the private space,  *)
(* decrypted.  An instance that takes the notice for one it has seen, as the *)
(* same remote mutation may be applied by several tabs, is misled as well.   *)
ConsumeNotice(c) ==
  /\ c \in notices
  /\ notices' = notices \ {c}
  /\ LET n == c.to
         rec == db[Slot(n)]
         fresh == n \notin closed /\ c.id \notin seenNotices[n]
     IN
     /\ seenNotices' = IF fresh THEN [seenNotices EXCEPT ![n] = @ \cup {c.id}]
                       ELSE seenNotices
     /\ \/ ~fresh /\ misled' = misled \cup {n} /\ UNCHANGED <<view, ops>>
        \/ fresh /\ c.op = "delete" /\ Shows(n, None, FALSE) /\ UNCHANGED ops
        \/ /\ fresh /\ c.op = "upsert" /\ rec = None
           /\ UNCHANGED <<view, misled, ops>>
        \/ /\ fresh /\ c.op = "upsert" /\ rec # None /\ space # "private"
           /\ Shows(n, rec, FALSE) /\ UNCHANGED ops
        \/ /\ fresh /\ c.op = "upsert" /\ rec # None /\ space = "private"
           /\ ops' = ops \cup {Op(n, "show", rec, Packet("upsert", n, c.id[3], 0, rec))}
           /\ UNCHANGED <<view, misled>>
  /\ UNCHANGED <<setup, db, subscribed, closed, retrieve, net, now, calls, subs,
                 spoiled>>

(* The rest of applyCrossTabNotice: the value is decrypted.                  *)
Show(o) ==
  /\ o \in ops /\ o.kind = "show"
  /\ ops' = ops \ {o}
  /\ Shows(o.n, o.read, Overtaken(o))
  /\ UNCHANGED <<setup, db, subscribed, closed, retrieve, net, notices, seenNotices,
                 now, calls, subs, spoiled>>

(* close: the waiting retrieve is settled with null.  What still needs the   *)
(* driver fails; a retrieve that a response took off the table of pending    *)
(* calls is not settled.                                                     *)
Close(n) ==
  /\ n \notin closed
  /\ Cardinality(closed) < setup.closes
  /\ closed' = closed \cup {n}
  /\ subscribed' = [subscribed EXCEPT ![n] = FALSE]
  /\ seenNotices' = [seenNotices EXCEPT ![n] = {}]
  /\ ops' = {o \in ops : o.n # n}
  /\ CASE retrieve[n].status = "waiting" -> Status(n, "done")
       [] retrieve[n].status = "answering" -> Status(n, "hung")
       [] OTHER -> UNCHANGED retrieve
  /\ Spoil(\E o \in ops : o.n = n)
  /\ UNCHANGED <<setup, db, net, notices, view, now, calls, subs, misled>>

Tick ==
  /\ now < MaxTick
  /\ now' = now + 1
  /\ Silent
  /\ UNCHANGED <<setup, db, subscribed, closed, ops, retrieve, net, calls, subs,
                 spoiled>>

-----------------------------------------------------------------------------
Continue(o) ==
  \/ PutStore(o)
  \/ DeleteStore(o)
  \/ ApplyStore(o)
  \/ Resolve(o)
  \/ Show(o)

Next ==
  \/ \E n \in Instances :
       \/ \E owner \in setup.owners \cup {None}, system \in BOOLEAN : Put(n, owner, system)
       \/ \E system \in BOOLEAN : Delete(n, system)
       \/ RetrieveCall(n)
       \/ RetrieveTimeout(n)
       \/ \E on \in BOOLEAN : Subscribe(n, on)
       \/ Close(n)
  \/ \E o \in ops : Continue(o)
  \/ \E p \in net : (\E filter \in Filters : Ignore(p, filter)) \/ Receive(p) \/ Serve(p)
  \/ \E c \in notices : ConsumeNotice(c)
  \/ Tick

Spec == Init /\ [][Next]_vars

(* The event loop runs what is due: promises of the local driver and of the  *)
(* crypto library settle, timers fire.  Nothing is assumed of the network    *)
(* and of the application.                                                   *)
FairSpec ==
  /\ Spec
  /\ WF_vars(\E o \in ops : Continue(o))
  /\ \A n \in Instances : WF_vars(RetrieveTimeout(n))
-----------------------------------------------------------------------------
(* Properties                                                                *)

(* A record gives way to one that is older by version and clock only when    *)
(* the operation that writes had read the driver before the record was       *)
(* there: the comparison in applyRemoteMutation and the version a put        *)
(* computes leave the await between read and write as the only gap.          *)
OnlyOverlapRegresses ==
  [][\A s \in Slots :
       /\ db[s] # None /\ db'[s] # None /\ db'[s] # db[s]
       /\ ~Newer(db'[s], db'[s].at, db[s])
       => \E o \in ops \ ops' : Slot(o.n) = s /\ o.read # db[s]]_vars

(* The same, for the owner of a record of the user space: it stays until the *)
(* record is deleted, unless an operation overtook the one that stored it or *)
(* an old identity is migrated.                                              *)
OwnerStays ==
  [][\A s \in Slots :
       /\ space = "user" /\ db[s] # None /\ db'[s] # None
       /\ db[s].owner \notin PeerIdUsers
       => \/ db'[s].owner = db[s].owner
          \/ \E o \in ops \ ops' : Slot(o.n) = s /\ o.read # db[s]]_vars

(* In the spaces everybody may write, replicas of one room agree once all is *)
(* quiet, up to values of one version and one time; provided no update was   *)
(* deleted, stamped anew, refused, lost or overtaken.                        *)
Tied(r, q) == r.version = q.version /\ r.at = q.at

QuietReplicasAgree ==
  ops = {} /\ net = {} /\ ~spoiled /\ space \in {"public", "epublic"} =>
    \A n, k \in Instances : setup.room[n] = setup.room[k] =>
      LET mine == db[Slot(n)]
          other == db[Slot(k)]
      IN  mine = other \/ (mine # None /\ other # None /\ Tied(mine, other))

(* Once no operation and no notice is under way, the last event a tab raised *)
(* is about the record on its disk or about a deletion, if that record has   *)
(* not been deleted.  The exceptions: a disk shared with a tab of another    *)
(* room, and a tab whose last notice was for a mutation it had seen before,  *)
(* or whose last event showed a record replaced during its decryption.       *)
TabsAgree ==
  ops = {} /\ notices = {} =>
    \A n \in Instances \ (closed \cup misled) :
      (\A k \in Instances : Slot(k) = Slot(n) => setup.room[k] = setup.room[n]) =>
        view[n] \in {None, db[Slot(n)]} \/ db[Slot(n)] = None

(* Every retrieve of an open instance is settled, by a response or by the    *)
(* timer, also when the key is unsubscribed or the answer is refused.        *)
RetrieveSettles ==
  \A n \in Instances :
    retrieve[n].status \in {"waiting", "answering"} ~>
      (retrieve[n].status = "done" \/ n \in closed)

=============================================================================
