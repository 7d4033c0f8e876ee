------------------------ MODULE PeerPigeonNode_proofs ------------------------
(* The life of a node in a tab, for any tabs, options, numbers of calls and  *)
(* identities: what a node has when its calls have settled, and whose        *)
(* identities a reload retires.                                              *)
EXTENDS PeerPigeonNode, FiniteSetTheorems, TLAPS

(* The identity that nobody else may retire.  That of a duplicated tab is    *)
(* another tab's until its node draws one.                                   *)
Owns(d) == IF d.cloned THEN {} ELSE {d.stored} \ {None}

(* A call carries what the tab knew when it was made.                        *)
CallSound(d, c) ==
  /\ c.awaits = "driver" => c.store \in Nat
  /\ c.awaits = "relays" => c.id \in Id
  /\ c.previous \in Opt(d.retired) /\ c.retired \subseteq d.retired

(* What holds of every tab, when k identities have been drawn.               *)
Sound(d, k) ==
  /\ d \in Tab
  /\ d.node.handle => d.node.announcing >= 1
  /\ d.stored \in Opt(1..k) /\ d.retired \subseteq 1..k
  /\ d.node.retired \subseteq d.retired
  /\ \A c \in d.calls : CallSound(d, c)

(* There is one announce timer at most, and crypto.destroy knows it.         *)
Timer(n) == n.announcing = (IF n.ready THEN 1 ELSE 0) /\ n.handle = n.ready

(* What start() has brought up before the mesh.                              *)
Kept(d) ==
  /\ setup.crypto => d.node.ready
  /\ IF setup.storage
     THEN d.node.store \in (1..d.stores) \ d.closed /\ d.open = {d.node.store}
     ELSE d.node.store = None /\ d.open = {}

Down(d) ==
  /\ d.calls = {} /\ ~d.node.started
  /\ d.node.store = None /\ d.open = {} /\ d.adapters = {}

Joined(d) ==
  /\ d.adapters = {d.node.client} /\ d.node.client \in Owns(d)

Up(d) == d.calls = {} /\ d.node.started /\ Kept(d) /\ Joined(d)

AwaitsKeys(d, c) ==
  /\ c.awaits = "keys" /\ c.init = ~d.node.ready
  /\ d.node.store = None /\ d.open = {} /\ d.adapters = {}

AwaitsDriver(d, c) ==
  /\ c.awaits = "driver" /\ setup.storage /\ (setup.crypto => d.node.ready)
  /\ c.store = d.node.store /\ d.node.store \in (1..d.stores) \ d.closed
  /\ d.open = {} /\ d.adapters = {}

AwaitsRelays(d, c) ==
  /\ c.awaits = "relays" /\ Kept(d) /\ d.adapters = {} /\ c.id \in Owns(d)

AwaitsClosed(d, c) ==
  /\ c.awaits = "closed" /\ d.node.store \in d.closed /\ d.open = {} /\ Joined(d)

Busy(d, c) ==
  /\ d.calls = {c} /\ d.node.started
  /\ AwaitsKeys(d, c) \/ AwaitsDriver(d, c) \/ AwaitsRelays(d, c) \/ AwaitsClosed(d, c)

(* What holds of a tab in which no call has met another one.                 *)
Orderly(d) ==
  /\ Timer(d.node) /\ d.closed \subseteq 1..d.stores
  /\ d.cloned => d.nav = "navigate"
  /\ Down(d) \/ Up(d) \/ \E c \in d.calls : Busy(d, c)

(* Nobody retires or withdraws an identity that a tab owns.                  *)
Identities ==
  /\ \A t, u \in Nodes : t # u => Owns(tab[t]) \cap Owns(tab[u]) = {}
  /\ \A t, u \in Nodes : Owns(tab[t]) \cap (tab[u].retired \cup withdrawn) = {}

Calm == \A t \in Nodes : ~tab[t].disturbed

IInv ==
  /\ setup \in Scenarios /\ drawn \in 0..MaxIds /\ withdrawn \subseteq 1..drawn
  /\ tab \in [Tabs -> Tab \cup {None}]
  /\ \A t \in Nodes : Sound(tab[t], drawn) /\ (~tab[t].disturbed => Orderly(tab[t]))
  /\ Calm => Identities

-----------------------------------------------------------------------------
(* One tab changes.                                                          *)

LEMMA Fields ==
  ASSUME NEW d \in Tab
  PROVE  /\ d.node \in Node /\ d.calls \subseteq Call /\ d.stores \in Nat
         /\ d.open \subseteq Nat /\ d.closed \subseteq Nat /\ d.adapters \subseteq Id
         /\ d.stored \in Opt(Id) /\ d.retired \subseteq Id
         /\ d.nav \in {"navigate", "reload"} /\ d.cloned \in BOOLEAN /\ d.disturbed \in BOOLEAN
  BY DEF Tab

LEMMA NodeFields ==
  ASSUME NEW n \in Node
  PROVE  /\ n.started \in BOOLEAN /\ n.ready \in BOOLEAN /\ n.announcing \in Nat
         /\ n.handle \in BOOLEAN /\ n.store \in Opt(Nat) /\ n.clientId \in Opt(Id)
         /\ n.client \in Opt(Id) /\ n.retired \subseteq Id /\ n.bound \in BOOLEAN
         /\ n.known \in BOOLEAN /\ n.wait \in {"none", "waiting", "settled"}
         /\ n.timer \in BOOLEAN /\ n.listening \in BOOLEAN
  BY DEF Node

(* An identity is owned by one tab as long as tabs own only those they owned *)
(* or drew, and retire only those that they owned and no longer own.         *)
LEMMA Replace ==
  ASSUME IInv, NEW t \in Nodes, NEW e \in Tab,
         tab' = [tab EXCEPT ![t] = e], setup' = setup,
         drawn' \in {drawn, drawn + 1}, drawn' \in 0..MaxIds,
         Sound(e, drawn'),
         ~e.disturbed =>
           /\ ~tab[t].disturbed /\ Orderly(e)
           /\ Owns(e) \subseteq Owns(tab[t]) \cup ((drawn + 1)..drawn')
           /\ e.retired \subseteq tab[t].retired \cup (Owns(tab[t]) \ Owns(e)),
         withdrawn' \subseteq withdrawn \cup tab[t].retired
  PROVE  IInv'
<1>1. /\ tab' \in [Tabs -> Tab \cup {None}] /\ tab'[t] = e
      /\ \A u \in Tabs \ {t} : tab'[u] = tab[u]
  BY DEF IInv, Nodes
<1>2. Nodes' = Nodes
  BY <1>1, NoneAssumption DEF Nodes, Open
<1>3. drawn \in Nat /\ drawn' \in Nat /\ drawn <= drawn'
  BY Assumption DEF IInv
<1>4. ASSUME NEW u \in Nodes
      PROVE  Sound(tab[u], drawn')
  <2>1. Sound(tab[u], drawn)
    BY <1>4 DEF IInv
  <2>2. 1..drawn \subseteq 1..drawn'
    BY <1>3
  <2> QED
    BY <2>1, <2>2 DEF Sound, Opt
<1>5. \A u \in Nodes : Sound(tab[u], drawn)'
  <2> TAKE u \in Nodes
  <2>1. CASE u = t
    BY <1>1, <2>1 DEF Sound, CallSound
  <2>2. CASE u # t
    <3>1. tab'[u] = tab[u]
      BY <1>1, <2>2 DEF Nodes
    <3> QED
      BY <1>4, <3>1 DEF Sound, CallSound
  <2> QED
    BY <2>1, <2>2
<1>6. \A u \in Nodes : ~tab'[u].disturbed => Orderly(tab[u])'
  <2> TAKE u \in Nodes
  <2>1. PICK d : tab'[u] = d /\ (~d.disturbed => Orderly(d))
    <3>1. CASE u = t
      BY <1>1, <3>1
    <3>2. CASE u # t
      BY <1>1, <3>2 DEF IInv, Nodes
    <3> QED
      BY <3>1, <3>2
  <2> QED
    BY <2>1 DEF Orderly, Timer, Down, Up, Kept, Joined, Busy, AwaitsKeys, AwaitsDriver,
             AwaitsRelays, AwaitsClosed, Owns
<1>7. withdrawn' \subseteq 1..drawn'
  <2>1. tab[t].retired \subseteq 1..drawn /\ withdrawn \subseteq 1..drawn
    BY DEF IInv, Sound
  <2>2. 1..drawn \subseteq 1..drawn'
    BY <1>3
  <2> QED
    BY <2>1, <2>2
<1>8. ASSUME Calm' PROVE Identities'
  <2>1. Calm
    BY <1>1, <1>2, <1>8 DEF Calm, Nodes
  <2>2. Identities
    BY <2>1 DEF IInv
  <2>3. \A u \in Nodes : Owns(tab[u]) \subseteq 1..drawn /\ tab[u].retired \subseteq 1..drawn
    <3> TAKE u \in Nodes
    <3> QED
      BY DEF IInv, Sound, Owns, Opt
  <2>4. \A x \in (drawn + 1)..drawn' : x \notin 1..drawn
    BY <1>3
  <2>5. \A u \in Nodes \ {t} : Owns(tab[u])' = Owns(tab[u]) /\ tab'[u].retired = tab[u].retired
    BY <1>1 DEF Owns, Nodes
  <2>6. Owns(tab[t])' = Owns(e) /\ tab'[t].retired = e.retired
    BY <1>1 DEF Owns
  <2>7. withdrawn \subseteq 1..drawn
    BY DEF IInv
  <2>16. /\ Owns(e) \subseteq Owns(tab[t]) \cup ((drawn + 1)..drawn')
         /\ e.retired \subseteq tab[t].retired \cup (Owns(tab[t]) \ Owns(e))
    BY <1>1, <1>2, <1>8 DEF Calm
  <2>8. \A u \in Nodes \ {t} : Owns(e) \cap Owns(tab[u]) = {}
    BY <2>2, <2>3, <2>4, <2>16 DEF Identities
  <2>9. \A u \in Nodes : Owns(e) \cap (tab[u].retired \cup withdrawn) = {}
    BY <2>2, <2>3, <2>4, <2>7, <2>16 DEF Identities
  <2>10. \A u \in Nodes \ {t} : Owns(tab[u]) \cap (e.retired \cup withdrawn') = {}
    BY <2>2, <2>16 DEF Identities
  <2>11. Owns(e) \cap (e.retired \cup withdrawn') = {}
    BY <2>9, <2>16
  <2>12. \A u, v \in Nodes \ {t} : Owns(tab[u]) \cap (tab[v].retired \cup withdrawn') = {}
    BY <2>2 DEF Identities
  <2>13. \A u \in Nodes \ {t} : Owns(e) \cap (tab[u].retired \cup withdrawn') = {}
    BY <2>9
  <2>14. \A u, v \in Nodes : u # v => Owns(tab[u])' \cap Owns(tab[v])' = {}
    BY <2>2, <2>5, <2>6, <2>8 DEF Identities
  <2>15. \A u, v \in Nodes : Owns(tab[u])' \cap (tab'[v].retired \cup withdrawn') = {}
    BY <2>5, <2>6, <2>10, <2>11, <2>12, <2>13
  <2> QED
    BY <1>2, <2>14, <2>15 DEF Identities
<1> QED
  BY <1>1, <1>2, <1>5, <1>6, <1>7, <1>8 DEF IInv

-----------------------------------------------------------------------------
(* What start() and destroy() make of a tab.                                 *)

LEMMA Calling ==
  ASSUME NEW a \in {"keys", "driver", "relays", "closed"}
  PROVE  /\ Awaiting(a) \in Call /\ Awaiting(a).awaits = a
         /\ Awaiting(a).store = None /\ Awaiting(a).id = None
         /\ Awaiting(a).previous = None /\ Awaiting(a).retired = {}
  BY DEF Awaiting, Call, Opt

(* The mesh draws a fresh identity and retires that of before a reload.      *)
LEMMA LoadedStep ==
  ASSUME drawn \in Nat, drawn < MaxIds, NEW d, Sound(d, drawn), NEW rest \in SUBSET d.calls
  PROVE  LET e == Loaded(d, rest) IN
         /\ Sound(e, drawn + 1) /\ e.disturbed = d.disturbed
         /\ Owns(e) = {drawn + 1}
         /\ e.retired \subseteq d.retired \cup ({Previous(d)} \ {None})
         /\ /\ rest = {} /\ d.node.started /\ Kept(d) /\ Timer(d.node)
            /\ d.adapters = {} /\ d.closed \subseteq 1..d.stores
            => Orderly(e)
<1> DEFINE id == drawn + 1
           gone == (d.retired \cup ({Previous(d)} \ {None})) \ {id}
           c == [Awaiting("relays") EXCEPT !.id = id, !.previous = Previous(d), !.retired = gone]
           n == [d.node EXCEPT !.clientId = id]
           e == Loaded(d, rest)
<1>1. d \in Tab /\ d.node \in Node
  BY Fields DEF Sound
<1>2. id \in Id /\ id \in 1..id /\ id \notin 1..drawn /\ 1..drawn \subseteq 1..id /\ 1..id \subseteq Id
  BY Assumption DEF Id
<1>3. Previous(d) \in Opt(1..drawn)
  BY DEF Previous, Sound, Opt
<1>4. gone \subseteq 1..drawn /\ gone \subseteq Id /\ d.retired \subseteq gone /\ Previous(d) \in Opt(gone)
  BY <1>2, <1>3 DEF Sound, Opt
<1>5. /\ c \in Call /\ c.awaits = "relays" /\ c.id = id /\ c.previous = Previous(d)
      /\ c.retired = gone
  BY <1>2, <1>3, <1>4 DEF Awaiting, Call, Opt
<1>6. /\ n \in Node /\ n.started = d.node.started /\ n.ready = d.node.ready
      /\ n.announcing = d.node.announcing /\ n.handle = d.node.handle
      /\ n.store = d.node.store /\ n.client = d.node.client /\ n.retired = d.node.retired
  BY <1>1, <1>2 DEF Node, Opt
<1>7. e = [d EXCEPT !.stored = id, !.retired = gone, !.cloned = FALSE, !.node = n,
                    !.calls = rest \cup {c}]
  BY <1>1 DEF Loaded, Tab, Node
<1>8. /\ e \in Tab /\ e.node = n /\ e.calls = rest \cup {c} /\ e.stores = d.stores
      /\ e.open = d.open /\ e.closed = d.closed /\ e.adapters = d.adapters /\ e.stored = id
      /\ e.retired = gone /\ e.nav = d.nav /\ e.cloned = FALSE /\ e.disturbed = d.disturbed
  <2> HIDE DEF n, c, gone, id, e
  <2>1. rest \cup {c} \subseteq Call
    BY <1>1, <1>5, Fields
  <2>2. /\ e.node = n /\ e.calls = rest \cup {c} /\ e.stores = d.stores
        /\ e.open = d.open /\ e.closed = d.closed /\ e.adapters = d.adapters /\ e.stored = id
        /\ e.retired = gone /\ e.nav = d.nav /\ e.cloned = FALSE /\ e.disturbed = d.disturbed
    BY <1>1, <1>7 DEF Tab
  <2>3. e \in Tab
    BY <1>1, <1>2, <1>4, <1>6, <1>7, <2>1 DEF Tab, Opt
  <2> QED
    BY <2>2, <2>3
<1> HIDE DEF n, c, gone, e
<1>9. \A x \in e.calls : CallSound(e, x)
  <2>1. CallSound(e, c)
    BY <1>2, <1>4, <1>5, <1>8 DEF CallSound
  <2>2. \A x \in rest : CallSound(e, x)
    BY <1>4, <1>8 DEF Sound, CallSound, Opt
  <2> QED
    BY <1>8, <2>1, <2>2
<1>10. Sound(e, drawn + 1)
  BY <1>2, <1>4, <1>6, <1>8, <1>9 DEF Sound, Opt
<1>11. Owns(e) = {id}
  <2>1. id # None
    BY Assumption
  <2> QED
    BY <1>8, <2>1 DEF Owns
<1>12. ASSUME rest = {}, d.node.started, Kept(d), Timer(d.node),
              d.adapters = {}, d.closed \subseteq 1..d.stores
       PROVE  Orderly(e)
  <2>1. Timer(e.node) /\ Kept(e)
    BY <1>6, <1>8, <1>12 DEF Timer, Kept
  <2>2. Busy(e, c)
    BY <1>5, <1>6, <1>8, <1>11, <1>12, <2>1 DEF Busy, AwaitsRelays
  <2> QED
    BY <1>8, <1>12, <2>1, <2>2 DEF Orderly
<1>13. gone \subseteq d.retired \cup ({Previous(d)} \ {None})
  BY DEF gone
<1> QED
  BY <1>8, <1>10, <1>11, <1>12, <1>13 DEF e

(* Storage, if there is any, is opened under a fresh number.                 *)
LEMMA ContinuedStep ==
  ASSUME setup \in Scenarios, drawn \in Nat, drawn < MaxIds,
         NEW d, Sound(d, drawn), NEW rest \in SUBSET d.calls
  PROVE  LET e == Continued(d, rest)
             k == IF setup.storage THEN drawn ELSE drawn + 1
         IN
         /\ Sound(e, k) /\ e.disturbed = d.disturbed
         /\ IF setup.storage THEN Owns(e) = Owns(d) ELSE Owns(e) = {drawn + 1}
         /\ e.retired \subseteq d.retired \cup (IF setup.storage THEN {} ELSE {Previous(d)} \ {None})
         /\ /\ rest = {} /\ d.node.started /\ (setup.crypto => d.node.ready) /\ Timer(d.node)
            /\ d.node.store = None /\ d.open = {} /\ d.adapters = {}
            /\ d.closed \subseteq 1..d.stores /\ (d.cloned => d.nav = "navigate")
            => Orderly(e)
<1>1. CASE ~setup.storage
  <2>1. Continued(d, rest) = Loaded(d, rest)
    BY <1>1 DEF Continued
  <2>2. d.node.store = None /\ d.open = {} /\ (setup.crypto => d.node.ready) => Kept(d)
    BY <1>1 DEF Kept
  <2> QED
    BY <1>1, <2>1, <2>2, LoadedStep
<1>2. CASE setup.storage
  <2> DEFINE s == d.stores + 1
             c == [Awaiting("driver") EXCEPT !.store = s]
             n == [d.node EXCEPT !.store = s]
             e == Continued(d, rest)
  <2>1. d \in Tab /\ d.node \in Node /\ d.stores \in Nat
    BY Fields DEF Sound
  <2>2. s \in Nat /\ s \in 1..s /\ s \notin 1..d.stores /\ 1..d.stores \subseteq 1..s
    BY <2>1
  <2>3. /\ c \in Call /\ c.awaits = "driver" /\ c.store = s /\ c.previous = None
        /\ c.retired = {}
    BY <2>2 DEF Awaiting, Call, Opt
  <2>4. /\ n \in Node /\ n.started = d.node.started /\ n.ready = d.node.ready
        /\ n.announcing = d.node.announcing /\ n.handle = d.node.handle
        /\ n.store = s /\ n.retired = d.node.retired
    BY <2>1, <2>2 DEF Node, Opt
  <2>5. e = [d EXCEPT !.stores = s, !.node = n, !.calls = rest \cup {c}]
    BY <1>2, <2>1 DEF Continued, Tab, Node
  <2>6. /\ e \in Tab /\ e.node = n /\ e.calls = rest \cup {c} /\ e.stores = s
        /\ e.open = d.open /\ e.closed = d.closed /\ e.adapters = d.adapters
        /\ e.stored = d.stored /\ e.retired = d.retired /\ e.nav = d.nav
        /\ e.cloned = d.cloned /\ e.disturbed = d.disturbed
    <3> HIDE DEF n, c, s
    <3>1. rest \cup {c} \subseteq Call
      BY <2>1, <2>3, Fields
    <3> QED
      BY <2>1, <2>2, <2>4, <2>5, <3>1 DEF Tab, Opt
  <2> HIDE DEF n, c, e, s
  <2>7. \A x \in e.calls : CallSound(e, x)
    <3>1. CallSound(e, c)
      BY <2>2, <2>3, <2>6 DEF CallSound, Opt
    <3>2. \A x \in rest : CallSound(e, x)
      BY <2>6 DEF Sound, CallSound
    <3> QED
      BY <2>6, <3>1, <3>2
  <2>8. Sound(e, drawn)
    BY <2>4, <2>6, <2>7 DEF Sound
  <2>9. ASSUME rest = {}, d.node.started, setup.crypto => d.node.ready, Timer(d.node),
               d.open = {}, d.adapters = {},
               d.closed \subseteq 1..d.stores, d.cloned => d.nav = "navigate"
        PROVE  Orderly(e)
    <3>1. e.closed \subseteq 1..e.stores /\ s \notin e.closed
      BY <2>2, <2>6, <2>9
    <3>2. Busy(e, c)
      BY <1>2, <2>2, <2>3, <2>4, <2>6, <2>9, <3>1 DEF Busy, AwaitsDriver
    <3>3. Timer(e.node)
      BY <2>4, <2>6, <2>9 DEF Timer
    <3> QED
      BY <2>6, <2>9, <3>1, <3>2, <3>3 DEF Orderly
  <2>10. Owns(e) = Owns(d)
    BY <2>6 DEF Owns
  <2> QED
    BY <1>2, <2>6, <2>8, <2>9, <2>10 DEF e
<1> QED
  BY <1>1, <1>2

LEMMA Drawing ==
  ASSUME NEW d, drawn \in Nat, Sound(d, drawn), d.cloned => d.nav = "navigate"
  PROVE  {Previous(d)} \ {None} \subseteq Owns(d) \ {drawn + 1}
<1>1. d.nav = "reload" => ~d.cloned
  OBVIOUS
<1>2. drawn + 1 \notin 1..drawn
  OBVIOUS
<1> QED
  BY <1>1, <1>2 DEF Previous, Owns, Sound, Opt

LEMMA LoadedReplaces ==
  ASSUME IInv, CanDraw, NEW t \in Nodes, NEW d, Sound(d, drawn),
         d.disturbed = tab[t].disturbed, d.stored = tab[t].stored, d.retired = tab[t].retired,
         d.nav = tab[t].nav, d.cloned = tab[t].cloned,
         NEW rest \in SUBSET d.calls,
         ~d.disturbed =>
           /\ rest = {} /\ d.node.started /\ Kept(d) /\ Timer(d.node)
           /\ d.adapters = {} /\ d.closed \subseteq 1..d.stores,
         tab' = [tab EXCEPT ![t] = Loaded(d, rest)], drawn' = drawn + 1,
         setup' = setup, withdrawn' = withdrawn
  PROVE  IInv'
<1> DEFINE e == Loaded(d, rest)
<1>1. drawn \in Nat /\ drawn < MaxIds /\ drawn + 1 \in 0..MaxIds /\ drawn + 1 \in (drawn + 1)..(drawn + 1)
  BY Assumption DEF IInv, CanDraw
<1>2. /\ Sound(e, drawn + 1) /\ e.disturbed = d.disturbed
      /\ Owns(e) = {drawn + 1}
      /\ e.retired \subseteq d.retired \cup ({Previous(d)} \ {None})
      /\ ~d.disturbed => Orderly(e)
  BY <1>1, LoadedStep
<1>3. ~d.disturbed => {Previous(d)} \ {None} \subseteq Owns(d) \ {drawn + 1}
  BY <1>1, Drawing DEF IInv, Orderly
<1>4. Owns(d) = Owns(tab[t])
  BY DEF Owns
<1> HIDE DEF e
<1>5. e \in Tab /\ Owns(e) \subseteq Owns(tab[t]) \cup ((drawn + 1)..drawn')
  BY <1>1, <1>2 DEF Sound
<1>6. ~e.disturbed => e.retired \subseteq tab[t].retired \cup (Owns(tab[t]) \ Owns(e))
  BY <1>2, <1>3, <1>4
<1> QED
  BY <1>1, <1>2, <1>5, <1>6, Replace DEF e

LEMMA ContinuedReplaces ==
  ASSUME IInv, CanDraw, NEW t \in Nodes, NEW d, Sound(d, drawn),
         d.disturbed = tab[t].disturbed, d.stored = tab[t].stored, d.retired = tab[t].retired,
         d.nav = tab[t].nav, d.cloned = tab[t].cloned,
         NEW rest \in SUBSET d.calls,
         ~d.disturbed =>
           /\ rest = {} /\ d.node.started /\ (setup.crypto => d.node.ready) /\ Timer(d.node)
           /\ d.node.store = None /\ d.open = {} /\ d.adapters = {}
           /\ d.closed \subseteq 1..d.stores,
         tab' = [tab EXCEPT ![t] = Continued(d, rest)], Draws,
         setup' = setup, withdrawn' = withdrawn
  PROVE  IInv'
<1>1. CASE ~setup.storage
  <2>1. Continued(d, rest) = Loaded(d, rest) /\ drawn' = drawn + 1
    BY <1>1 DEF Continued, Draws
  <2>2. ~d.disturbed => Kept(d)
    BY <1>1 DEF Kept
  <2> QED
    BY <2>1, <2>2, LoadedReplaces
<1>2. CASE setup.storage
  <2> DEFINE e == Continued(d, rest)
  <2>1. setup \in Scenarios /\ drawn \in Nat /\ drawn < MaxIds /\ drawn' = drawn /\ drawn' \in 0..MaxIds
    BY <1>2, Assumption DEF IInv, CanDraw, Draws
  <2>2. ~d.disturbed => (d.cloned => d.nav = "navigate")
    BY DEF IInv, Orderly
  <2>3. /\ Sound(e, drawn) /\ e.disturbed = d.disturbed
        /\ Owns(e) = Owns(d) /\ e.retired \subseteq d.retired
        /\ ~d.disturbed => Orderly(e)
    BY <1>2, <2>1, <2>2, ContinuedStep
  <2>4. Owns(d) = Owns(tab[t])
    BY DEF Owns
  <2> HIDE DEF e
  <2>5. e \in Tab
    BY <2>3 DEF Sound
  <2> QED
    BY <2>1, <2>3, <2>4, <2>5, Replace DEF e
<1> QED
  BY <1>1, <1>2

(* destroy() behind storage.close takes down what crypto and the mesh have.  *)
LEMMA DestroyedStep ==
  ASSUME NEW d, NEW k, Sound(d, k)
  PROVE  LET e == Destroyed(d) IN
         /\ Sound(e, k) /\ e.disturbed = d.disturbed
         /\ Owns(e) = Owns(d) /\ e.retired = d.retired
         /\ /\ d.calls = {} /\ Timer(d.node) /\ d.open = {}
            /\ d.adapters \subseteq {d.node.client}
            /\ d.closed \subseteq 1..d.stores /\ (d.cloned => d.nav = "navigate")
            => Orderly(e)
<1> DEFINE n == [MeshDestroyed(CryptoDestroyed(d.node)) EXCEPT !.store = None, !.started = FALSE]
           e == Destroyed(d)
<1>1. d \in Tab /\ d.node \in Node
  BY Fields DEF Sound
<1>2. d.node.announcing - (IF d.node.handle THEN 1 ELSE 0) \in Nat
  <2>1. d.node.announcing \in Nat
    BY <1>1, NodeFields
  <2> QED
    BY <2>1 DEF Sound
<1>3. /\ n \in Node /\ n.started = FALSE /\ n.ready = FALSE /\ n.handle = FALSE
      /\ n.announcing = d.node.announcing - (IF d.node.handle THEN 1 ELSE 0)
      /\ n.store = None /\ n.client = None /\ n.retired = {}
  BY <1>1, <1>2 DEF Node, Opt, MeshDestroyed, CryptoDestroyed
<1>4. e = [d EXCEPT !.adapters = d.adapters \ {d.node.client}, !.node = n]
  BY <1>1 DEF Destroyed, Tab
<1> HIDE DEF n, e
<1>5. /\ e \in Tab /\ e.node = n /\ e.calls = d.calls /\ e.stores = d.stores
      /\ e.open = d.open /\ e.closed = d.closed /\ e.adapters = d.adapters \ {d.node.client}
      /\ e.stored = d.stored /\ e.retired = d.retired /\ e.nav = d.nav
      /\ e.cloned = d.cloned /\ e.disturbed = d.disturbed
  BY <1>1, <1>3, <1>4 DEF Tab
<1>6. Sound(e, k)
  BY <1>3, <1>5 DEF Sound, CallSound
<1>7. Timer(d.node) => Timer(e.node)
  <2>1. d.node.announcing \in Nat /\ d.node.ready \in BOOLEAN /\ d.node.handle \in BOOLEAN
    BY <1>1, NodeFields
  <2>2. Timer(d.node) => n.announcing = 0
    BY <1>3, <2>1 DEF Timer
  <2> QED
    BY <1>3, <1>5, <2>2 DEF Timer
<1>8. Owns(e) = Owns(d)
  BY <1>5 DEF Owns
<1>9. d.calls = {} /\ d.open = {} /\ d.adapters \subseteq {d.node.client} => Down(e)
  BY <1>3, <1>5 DEF Down
<1> QED
  BY <1>5, <1>6, <1>7, <1>8, <1>9 DEF e, Orderly

(* A step that draws no identity and leaves what the tab stored.             *)
LEMMA Keeps ==
  ASSUME IInv, NEW t \in Nodes, NEW e, Sound(e, drawn),
         ~e.disturbed => ~tab[t].disturbed /\ Orderly(e),
         e.stored = tab[t].stored, e.retired = tab[t].retired, e.cloned = tab[t].cloned,
         tab' = [tab EXCEPT ![t] = e], setup' = setup, drawn' = drawn,
         withdrawn' \subseteq withdrawn \cup tab[t].retired
  PROVE  IInv'
<1>1. e \in Tab /\ drawn' \in 0..MaxIds
  BY DEF Sound, IInv
<1>2. Owns(e) = Owns(tab[t])
  BY DEF Owns
<1> QED
  BY <1>1, <1>2, Replace

-----------------------------------------------------------------------------
(* Every action preserves the invariant.                                     *)

LEMMA InitInvariant == Init => IInv
<1> SUFFICES ASSUME Init PROVE IInv
  OBVIOUS
<1>1. Blank \in Node /\ Timer(Blank)
  <2>1. Blank \in Node
    BY DEF Blank, Node, Opt
  <2>2. Timer(Blank)
    BY DEF Blank, Timer
  <2> QED
    BY <2>1, <2>2
<1> DEFINE e == Document(None, {}, "navigate", FALSE)
<1>2. /\ e \in Tab /\ e.node = Blank /\ e.calls = {} /\ e.stores = 0 /\ e.open = {} /\ e.closed = {}
      /\ e.adapters = {} /\ e.stored = None /\ e.retired = {} /\ e.cloned = FALSE
      /\ e.disturbed = FALSE
  BY <1>1 DEF Document, Tab, Opt
<1> HIDE DEF e
<1>3. Down(e) /\ Orderly(e) /\ Owns(e) = {} /\ Sound(e, 0)
  BY <1>1, <1>2 DEF Down, Orderly, Owns, Sound, Blank, Opt
<1>4. PICK first \in Tabs : tab = [t \in Tabs |-> IF t = first THEN e ELSE None]
  BY DEF Init, e
<1>5. \A t \in Nodes : tab[t] = e
  BY <1>4 DEF Nodes, Open
<1>6. setup \in Scenarios /\ withdrawn = {} /\ drawn = 0 /\ drawn \in 0..MaxIds
  BY Assumption DEF Init
<1>7. tab \in [Tabs -> Tab \cup {None}]
  BY <1>2, <1>4
<1>8. Identities
  BY <1>2, <1>3, <1>5, <1>6 DEF Identities
<1> QED
  BY <1>3, <1>5, <1>6, <1>7, <1>8 DEF IInv

LEMMA Unchanged ==
  ASSUME IInv, UNCHANGED <<tab, withdrawn, drawn, setup>>
  PROVE  IInv'
<1>1. tab' = tab /\ withdrawn' = withdrawn /\ drawn' = drawn /\ setup' = setup /\ Nodes' = Nodes
  BY DEF Nodes, Open
<1>2. \A t \in Nodes : Sound(tab[t], drawn)'
  BY <1>1 DEF IInv, Sound, CallSound
<1>3. \A t \in Nodes : ~tab'[t].disturbed => Orderly(tab[t])'
  <2> TAKE t \in Nodes
  <2>1. PICK d : tab[t] = d /\ tab'[t] = d /\ (~d.disturbed => Orderly(d))
    BY <1>1 DEF IInv
  <2> QED
    BY <1>1, <2>1 DEF Orderly, Timer, Down, Up, Kept, Joined, Busy, AwaitsKeys, AwaitsDriver,
             AwaitsRelays, AwaitsClosed, Owns
<1>4. Calm' => Identities'
  BY <1>1 DEF IInv, Calm, Identities, Owns
<1> QED
  BY <1>1, <1>2, <1>3, <1>4 DEF IInv

(* A tab that can act: its fields, and the calls that meet no other one.     *)
LEMMA ATab ==
  ASSUME IInv, NEW t \in Nodes
  PROVE  /\ t \in Tabs /\ Open(t) /\ Sound(tab[t], drawn) /\ tab[t] \in Tab
         /\ tab[t].node \in Node
         /\ ~tab[t].disturbed => Orderly(tab[t])
         /\ ~tab[t].disturbed => \A c \in tab[t].calls : Busy(tab[t], c)
<1>1. ~tab[t].disturbed => \A c \in tab[t].calls : Busy(tab[t], c)
  BY DEF IInv, Orderly, Down, Up, Busy
<1> QED
  BY <1>1, Fields DEF IInv, Nodes, Sound

LEMMA StartInvariant ==
  ASSUME IInv, NEW t \in Tabs, Start(t)
  PROVE  IInv'
<1> DEFINE n == [tab[t].node EXCEPT !.started = TRUE]
           d == [tab[t] EXCEPT !.node.started = TRUE]
<1>1. t \in Nodes /\ CanDraw /\ setup' = setup /\ withdrawn' = withdrawn
  BY DEF Start, Nodes
<1>2. CASE tab[t].node.started
  BY <1>1, <1>2, Unchanged DEF Start
<1>3. CASE ~tab[t].node.started
  <2>1. /\ Sound(tab[t], drawn) /\ tab[t] \in Tab /\ tab[t].node \in Node
        /\ ~tab[t].disturbed => Orderly(tab[t])
    BY <1>1, ATab
  <2>2. ~tab[t].disturbed => Down(tab[t])
    BY <1>3, <2>1 DEF Orderly, Up, Busy
  <2>3. /\ n \in Node /\ n.started = TRUE /\ n.ready = tab[t].node.ready
        /\ n.announcing = tab[t].node.announcing /\ n.handle = tab[t].node.handle
        /\ n.store = tab[t].node.store /\ n.client = tab[t].node.client
        /\ n.retired = tab[t].node.retired
    BY <2>1 DEF Node
  <2>4. d = [tab[t] EXCEPT !.node = n]
    BY <2>1 DEF Tab
  <2> HIDE DEF n, d
  <2>5. /\ d \in Tab /\ d.node = n /\ d.calls = tab[t].calls /\ d.stores = tab[t].stores
        /\ d.open = tab[t].open /\ d.closed = tab[t].closed /\ d.adapters = tab[t].adapters
        /\ d.stored = tab[t].stored /\ d.retired = tab[t].retired /\ d.nav = tab[t].nav
        /\ d.cloned = tab[t].cloned /\ d.disturbed = tab[t].disturbed
    BY <2>1, <2>3, <2>4 DEF Tab
  <2>6. Sound(d, drawn)
    BY <2>1, <2>3, <2>5 DEF Sound, CallSound
  <2>7. ~d.disturbed =>
          /\ d.calls = {} /\ d.node.started /\ Timer(d.node)
          /\ d.node.store = None /\ d.open = {} /\ d.adapters = {}
          /\ d.closed \subseteq 1..d.stores /\ (d.cloned => d.nav = "navigate")
    BY <2>1, <2>2, <2>3, <2>5 DEF Orderly, Timer, Down
  <2>8. CASE setup.crypto
    <3> DEFINE c == [Awaiting("keys") EXCEPT !.init = ~d.node.ready]
               e == [d EXCEPT !.calls = d.calls \cup {c}]
    <3>1. tab' = [tab EXCEPT ![t] = e] /\ drawn' = drawn
      BY <1>3, <2>5, <2>8 DEF Start, d
    <3>2. d.node.ready \in BOOLEAN
      BY <2>3, <2>5, NodeFields
    <3>3. /\ c \in Call /\ c.awaits = "keys" /\ c.init = ~d.node.ready
          /\ c.previous = None /\ c.retired = {}
      BY <3>2 DEF Awaiting, Call, Opt
    <3> HIDE DEF c
    <3>4. /\ e \in Tab /\ e.node = d.node /\ e.calls = d.calls \cup {c} /\ e.stores = d.stores
          /\ e.open = d.open /\ e.closed = d.closed /\ e.adapters = d.adapters
          /\ e.stored = d.stored /\ e.retired = d.retired /\ e.nav = d.nav
          /\ e.cloned = d.cloned /\ e.disturbed = d.disturbed
      <4>1. d.calls \cup {c} \in SUBSET Call
        BY <2>5, <3>3, Fields
      <4> QED
        BY <2>5, <4>1 DEF Tab
    <3> HIDE DEF e
    <3>5. Sound(e, drawn)
      BY <2>6, <3>3, <3>4 DEF Sound, CallSound, Opt
    <3>6. ~e.disturbed => Busy(e, c) /\ Orderly(e)
      BY <2>7, <3>3, <3>4 DEF Busy, AwaitsKeys, Orderly
    <3> QED
      BY <1>1, <2>5, <3>1, <3>4, <3>5, <3>6, Keeps
  <2>9. CASE ~setup.crypto
    <3>1. tab' = [tab EXCEPT ![t] = Continued(d, d.calls)] /\ Draws
      BY <1>3, <2>9 DEF Start, d
    <3> QED
      BY <1>1, <2>5, <2>6, <2>7, <2>9, <3>1, ContinuedReplaces
  <2> QED
    BY <2>8, <2>9
<1> QED
  BY <1>2, <1>3

LEMMA KeysReadyInvariant ==
  ASSUME IInv, NEW t \in Nodes, NEW c \in tab[t].calls, KeysReady(t, c)
  PROVE  IInv'
<1> DEFINE n == IF c.init THEN WithKeys(tab[t].node) ELSE tab[t].node
           d == [tab[t] EXCEPT !.node = n]
           rest == tab[t].calls \ {c}
<1>1. /\ Sound(tab[t], drawn) /\ tab[t] \in Tab /\ tab[t].node \in Node
      /\ ~tab[t].disturbed => Orderly(tab[t]) /\ Busy(tab[t], c)
  BY ATab
<1>2. /\ c.awaits = "keys" /\ CanDraw /\ Draws /\ setup' = setup /\ withdrawn' = withdrawn
      /\ tab' = [tab EXCEPT ![t] = Continued(d, rest)]
  BY DEF KeysReady
<1>3. ~tab[t].disturbed => AwaitsKeys(tab[t], c)
  BY <1>1, <1>2 DEF Busy, AwaitsDriver, AwaitsRelays, AwaitsClosed
<1>4. c \in Call /\ c.init \in BOOLEAN
  BY <1>1, Fields DEF Call
<1>5. /\ n \in Node /\ n.started = tab[t].node.started /\ n.store = tab[t].node.store
      /\ n.client = tab[t].node.client /\ n.retired = tab[t].node.retired
      /\ c.init => /\ n.ready = TRUE /\ n.handle = TRUE
                   /\ n.announcing = tab[t].node.announcing + 1
      /\ ~c.init => n = tab[t].node
  <2>1. tab[t].node.announcing \in Nat
    BY <1>1, NodeFields
  <2>2. CASE c.init
    <3>1. n = [tab[t].node EXCEPT !.ready = TRUE, !.announcing = tab[t].node.announcing + 1,
                                  !.handle = TRUE]
      BY <2>2 DEF WithKeys
    <3> HIDE DEF n
    <3>2. /\ n.started = tab[t].node.started /\ n.store = tab[t].node.store
          /\ n.client = tab[t].node.client /\ n.retired = tab[t].node.retired
          /\ n.ready = TRUE /\ n.handle = TRUE
          /\ n.announcing = tab[t].node.announcing + 1
      BY <1>1, <3>1 DEF Node
    <3>3. n \in Node
      <4>1. PICK k \in Nat : k = tab[t].node.announcing + 1
        BY <2>1
      <4>2. n = [tab[t].node EXCEPT !.ready = TRUE, !.announcing = k, !.handle = TRUE]
        BY <3>1, <4>1
      <4> QED
        BY <1>1, <4>2 DEF Node
    <3> QED
      BY <2>2, <3>2, <3>3
  <2>3. CASE ~c.init
    BY <1>1, <2>3
  <2> QED
    BY <1>4, <2>2, <2>3
<1> HIDE DEF n
<1>6. /\ d \in Tab /\ d.node = n /\ d.calls = tab[t].calls /\ d.stores = tab[t].stores
      /\ d.open = tab[t].open /\ d.closed = tab[t].closed /\ d.adapters = tab[t].adapters
      /\ d.stored = tab[t].stored /\ d.retired = tab[t].retired /\ d.nav = tab[t].nav
      /\ d.cloned = tab[t].cloned /\ d.disturbed = tab[t].disturbed
  BY <1>1, <1>5 DEF Tab
<1> HIDE DEF d
<1>7. Sound(d, drawn)
  <2>1. n.handle => n.announcing >= 1
    BY <1>1, <1>4, <1>5, NodeFields DEF Sound
  <2> QED
    BY <1>1, <1>5, <1>6, <2>1 DEF Sound, CallSound
<1>8. ~tab[t].disturbed => n.ready /\ Timer(n)
  BY <1>1, <1>3, <1>4, <1>5, NodeFields DEF AwaitsKeys, Orderly, Timer
<1>9. ~d.disturbed =>
        /\ rest = {} /\ d.node.started /\ d.node.ready /\ Timer(d.node)
        /\ d.node.store = None /\ d.open = {} /\ d.adapters = {} /\ d.closed \subseteq 1..d.stores
  BY <1>1, <1>3, <1>5, <1>6, <1>8 DEF Busy, AwaitsKeys, Orderly
<1>10. rest \in SUBSET d.calls
  BY <1>6
<1> HIDE DEF rest
<1> QED
  BY <1>2, <1>6, <1>7, <1>9, <1>10, ContinuedReplaces

LEMMA DriverReadyInvariant ==
  ASSUME IInv, NEW t \in Nodes, NEW c \in tab[t].calls, DriverReady(t, c)
  PROVE  IInv'
<1> DEFINE d == [tab[t] EXCEPT !.open = tab[t].open \cup {c.store}]
           rest == tab[t].calls \ {c}
<1>1. /\ Sound(tab[t], drawn) /\ tab[t] \in Tab /\ tab[t].node \in Node
      /\ ~tab[t].disturbed => Orderly(tab[t]) /\ Busy(tab[t], c)
  BY ATab
<1>2. /\ c.awaits = "driver" /\ CanDraw /\ drawn' = drawn + 1 /\ setup' = setup /\ withdrawn' = withdrawn
      /\ tab' = [tab EXCEPT ![t] = Loaded(d, rest)]
  <2>1. /\ c.awaits = "driver" /\ CanDraw /\ drawn' = drawn + 1 /\ setup' = setup
        /\ withdrawn' = withdrawn
    BY DEF DriverReady
  <2>2. tab' = [tab EXCEPT ![t] = Loaded(d, rest)]
    BY DEF DriverReady
  <2> QED
    BY <2>1, <2>2
<1>3. ~tab[t].disturbed => AwaitsDriver(tab[t], c)
  BY <1>1, <1>2 DEF Busy, AwaitsKeys, AwaitsRelays, AwaitsClosed
<1>4. tab[t].open \cup {c.store} \in SUBSET Nat
  BY <1>1, <1>2, Fields DEF Sound, CallSound
<1>5. /\ d \in Tab /\ d.node = tab[t].node /\ d.calls = tab[t].calls /\ d.stores = tab[t].stores
      /\ d.open = tab[t].open \cup {c.store} /\ d.closed = tab[t].closed /\ d.adapters = tab[t].adapters
      /\ d.stored = tab[t].stored /\ d.retired = tab[t].retired /\ d.nav = tab[t].nav
      /\ d.cloned = tab[t].cloned /\ d.disturbed = tab[t].disturbed
  BY <1>1, <1>4 DEF Tab
<1> HIDE DEF d
<1>6. Sound(d, drawn)
  BY <1>1, <1>5 DEF Sound, CallSound
<1>7. ~d.disturbed => Kept(d)
  BY <1>3, <1>5 DEF AwaitsDriver, Kept
<1>8. ~d.disturbed =>
        /\ rest = {} /\ d.node.started /\ Timer(d.node) /\ d.adapters = {}
        /\ d.closed \subseteq 1..d.stores
  BY <1>1, <1>3, <1>5 DEF Busy, AwaitsDriver, Orderly
<1>9. rest \in SUBSET d.calls
  BY <1>5
<1> HIDE DEF rest
<1> QED
  BY <1>2, <1>5, <1>6, <1>7, <1>8, <1>9, LoadedReplaces

LEMMA RelaysReadyInvariant ==
  ASSUME IInv, NEW t \in Nodes, NEW c \in tab[t].calls, RelaysReady(t, c)
  PROVE  IInv'
<1> DEFINE old == tab[t]
           n == [old.node EXCEPT !.client = c.id, !.retired = old.node.retired \cup c.retired]
           e == [old EXCEPT !.calls = old.calls \ {c}, !.adapters = old.adapters \cup {c.id},
                            !.node = n]
<1>1. /\ Sound(old, drawn) /\ old \in Tab /\ old.node \in Node
      /\ ~old.disturbed => Orderly(old) /\ Busy(old, c)
  BY ATab
<1>2. /\ c.awaits = "relays" /\ drawn' = drawn /\ setup' = setup
      /\ withdrawn' = withdrawn \cup ({c.previous} \ {None})
      /\ tab' = [tab EXCEPT ![t] = e]
  <2>1. /\ c.awaits = "relays" /\ drawn' = drawn /\ setup' = setup
        /\ withdrawn' = withdrawn \cup ({c.previous} \ {None})
    BY DEF RelaysReady, Withdrawn
  <2>2. e = [old EXCEPT !.calls = @ \ {c}, !.adapters = @ \cup {c.id},
                        !.node.client = c.id, !.node.retired = @ \cup c.retired]
    BY <1>1 DEF Tab, Node
  <2>3. tab' = [tab EXCEPT ![t] =
                  [old EXCEPT !.calls = @ \ {c}, !.adapters = @ \cup {c.id},
                        !.node.client = c.id, !.node.retired = @ \cup c.retired]]
    BY DEF RelaysReady
  <2> QED
    BY <2>1, <2>2, <2>3
<1>3. ~old.disturbed => AwaitsRelays(old, c)
  BY <1>1, <1>2 DEF Busy, AwaitsKeys, AwaitsDriver, AwaitsClosed
<1>4. /\ c.id \in Id /\ c.previous \in Opt(old.retired) /\ c.retired \subseteq old.retired
      /\ old.retired \subseteq Id
  BY <1>1, <1>2, Fields DEF Sound, CallSound
<1> HIDE DEF old
<1>5. /\ n \in Node /\ n.started = old.node.started /\ n.ready = old.node.ready
      /\ n.announcing = old.node.announcing /\ n.handle = old.node.handle
      /\ n.store = old.node.store /\ n.client = c.id
      /\ n.retired = old.node.retired \cup c.retired
  <2>1. old.node.retired \cup c.retired \in SUBSET Id
    BY <1>1, <1>4, NodeFields
  <2> QED
    BY <1>1, <1>4, <2>1 DEF Node, Opt
<1> HIDE DEF n
<1>6. /\ e \in Tab /\ e.node = n /\ e.calls = old.calls \ {c} /\ e.stores = old.stores
      /\ e.open = old.open /\ e.closed = old.closed /\ e.adapters = old.adapters \cup {c.id}
      /\ e.stored = old.stored /\ e.retired = old.retired /\ e.nav = old.nav
      /\ e.cloned = old.cloned /\ e.disturbed = old.disturbed
  <2>1. old.calls \ {c} \in SUBSET Call /\ old.adapters \cup {c.id} \in SUBSET Id
    BY <1>1, <1>4, Fields
  <2> QED
    BY <1>1, <1>5, <2>1 DEF Tab
<1> HIDE DEF e
<1>7. Sound(e, drawn)
  <2>1. n.retired \subseteq old.retired
    BY <1>1, <1>4, <1>5 DEF Sound
  <2> QED
    BY <1>1, <1>5, <1>6, <2>1 DEF Sound, CallSound
<1>8. ASSUME ~e.disturbed PROVE Orderly(e)
  <2>1. Timer(e.node) /\ Kept(e) /\ e.node.started
    BY <1>1, <1>3, <1>5, <1>6, <1>8 DEF Orderly, Timer, AwaitsRelays, Kept, Busy
  <2>2. e.calls = {} /\ Joined(e)
    BY <1>1, <1>3, <1>5, <1>6, <1>8 DEF AwaitsRelays, Busy, Joined, Owns
  <2> QED
    BY <1>1, <1>6, <1>8, <2>1, <2>2 DEF Orderly, Up
<1>9. withdrawn' \subseteq withdrawn \cup old.retired
  BY <1>2, <1>4 DEF Opt
<1> QED
  BY <1>2, <1>6, <1>7, <1>8, <1>9, Keeps DEF old

(* start() throws: at the keys, or at the relays without a storage.          *)
LEMMA FailInvariant ==
  ASSUME IInv, NEW t \in Nodes, NEW c \in tab[t].calls, Fail(t, c)
  PROVE  IInv'
<1> DEFINE old == tab[t]
           n == [old.node EXCEPT !.started = FALSE]
           e == [old EXCEPT !.calls = old.calls \ {c}, !.node = n,
                            !.disturbed = old.disturbed \/ (setup.storage /\ c.awaits = "relays")]
<1>1. /\ Sound(old, drawn) /\ old \in Tab /\ old.node \in Node
      /\ ~old.disturbed => Orderly(old) /\ Busy(old, c)
  BY ATab
<1>2. /\ c.awaits \in {"keys", "relays"} /\ drawn' = drawn /\ setup' = setup
      /\ withdrawn' = withdrawn
  BY DEF Fail
<1>3. setup.storage \in BOOLEAN
  BY Assumption DEF IInv
<1>4. tab' = [tab EXCEPT ![t] = e]
  <2>1. e = [Failed(old, c) EXCEPT !.disturbed = @ \/ (setup.storage /\ c.awaits = "relays")]
    BY <1>1 DEF Failed, Tab
  <2>2. tab' = [tab EXCEPT ![t] =
          [Failed(old, c) EXCEPT !.disturbed = @ \/ (setup.storage /\ c.awaits = "relays")]]
    BY DEF Fail
  <2> QED
    BY <2>1, <2>2
<1> HIDE DEF old
<1>5. /\ n \in Node /\ n.started = FALSE /\ n.ready = old.node.ready
      /\ n.announcing = old.node.announcing /\ n.handle = old.node.handle
      /\ n.store = old.node.store /\ n.retired = old.node.retired
  BY <1>1 DEF Node
<1> HIDE DEF n
<1>6. /\ e \in Tab /\ e.node = n /\ e.calls = old.calls \ {c} /\ e.stores = old.stores
      /\ e.open = old.open /\ e.closed = old.closed /\ e.adapters = old.adapters
      /\ e.stored = old.stored /\ e.retired = old.retired /\ e.nav = old.nav
      /\ e.cloned = old.cloned
      /\ e.disturbed = (old.disturbed \/ (setup.storage /\ c.awaits = "relays"))
  <2>1. old.calls \ {c} \in SUBSET Call
    BY <1>1, Fields
  <2>2. (old.disturbed \/ (setup.storage /\ c.awaits = "relays")) \in BOOLEAN
    OBVIOUS
  <2> QED
    BY <1>1, <1>5, <2>1, <2>2 DEF Tab
<1> HIDE DEF e
<1>7. Sound(e, drawn)
  BY <1>1, <1>5, <1>6 DEF Sound, CallSound
<1>8. ASSUME ~e.disturbed PROVE ~old.disturbed /\ Orderly(e)
  <2>1. ~old.disturbed /\ ~(setup.storage /\ c.awaits = "relays")
    BY <1>6, <1>8
  <2>2. AwaitsKeys(old, c) \/ (AwaitsRelays(old, c) /\ ~setup.storage)
    BY <1>1, <1>2, <2>1 DEF Busy, AwaitsDriver, AwaitsKeys, AwaitsRelays, AwaitsClosed
  <2>3. Down(e)
    BY <1>1, <1>5, <1>6, <2>1, <2>2 DEF Down, AwaitsKeys, AwaitsRelays, Kept, Busy
  <2>4. Timer(e.node)
    BY <1>1, <1>5, <1>6, <2>1 DEF Orderly, Timer
  <2> QED
    BY <1>1, <1>6, <2>1, <2>3, <2>4 DEF Orderly
<1> QED
  BY <1>2, <1>4, <1>6, <1>7, <1>8, Keeps DEF old

LEMMA DestroyInvariant ==
  ASSUME IInv, NEW t \in Tabs, Destroy(t)
  PROVE  IInv'
<1> DEFINE old == tab[t]
           d == [old EXCEPT !.disturbed = old.disturbed \/ old.calls # {}]
<1>1. t \in Nodes /\ drawn' = drawn /\ setup' = setup /\ withdrawn' = withdrawn
  BY DEF Destroy, Nodes
<1>2. /\ Sound(old, drawn) /\ old \in Tab /\ old.node \in Node
      /\ ~old.disturbed => Orderly(old)
  BY <1>1, ATab
<1>3. tab' = [tab EXCEPT ![t] =
                IF d.node.store = None THEN Destroyed(d)
                ELSE [Closed(d) EXCEPT !.calls = @ \cup {Awaiting("closed")}]]
  BY DEF Destroy
<1> HIDE DEF old
<1>4. /\ d \in Tab /\ d.node = old.node /\ d.calls = old.calls /\ d.stores = old.stores
      /\ d.open = old.open /\ d.closed = old.closed /\ d.adapters = old.adapters
      /\ d.stored = old.stored /\ d.retired = old.retired /\ d.nav = old.nav
      /\ d.cloned = old.cloned /\ d.disturbed = (old.disturbed \/ old.calls # {})
  <2>1. (old.disturbed \/ old.calls # {}) \in BOOLEAN
    OBVIOUS
  <2> QED
    BY <1>2, <2>1 DEF Tab
<1> HIDE DEF d
<1>5. Sound(d, drawn)
  BY <1>2, <1>4 DEF Sound, CallSound
<1>6. ASSUME ~d.disturbed
      PROVE  /\ ~old.disturbed /\ d.calls = {} /\ Timer(d.node) /\ d.closed \subseteq 1..d.stores
             /\ d.cloned => d.nav = "navigate"
             /\ Down(d) \/ Up(d)
  <2>1. ~old.disturbed /\ old.calls = {}
    BY <1>4, <1>6
  <2>2. Down(old) \/ Up(old)
    BY <1>2, <2>1 DEF Orderly
  <2>3. Down(d) \/ Up(d)
    BY <1>4, <2>2 DEF Down, Up, Kept, Joined, Owns
  <2> QED
    BY <1>2, <1>4, <2>1, <2>3 DEF Orderly
<1>7. CASE d.node.store = None
  <2> DEFINE e == Destroyed(d)
  <2>1. ~d.disturbed => d.open = {} /\ d.adapters \subseteq {d.node.client}
    BY <1>6, <1>7, Assumption DEF Down, Up, Kept, Joined
  <2>2. /\ Sound(e, drawn) /\ e.disturbed = d.disturbed /\ Owns(e) = Owns(d)
        /\ e.retired = d.retired /\ (~d.disturbed => Orderly(e))
    BY <1>5, <1>6, <2>1, DestroyedStep
  <2>3. e.stored = d.stored /\ e.cloned = d.cloned
    BY <1>4 DEF Destroyed, Tab
  <2>4. tab' = [tab EXCEPT ![t] = e]
    BY <1>3, <1>7
  <2> HIDE DEF e
  <2> QED
    BY <1>1, <1>4, <1>6, <2>2, <2>3, <2>4, Keeps DEF old
<1>8. CASE d.node.store # None
  <2> DEFINE c == Awaiting("closed")
             s == d.node.store
             k == Closed(d)
             e == [k EXCEPT !.calls = k.calls \cup {c}]
  <2>1. tab' = [tab EXCEPT ![t] = e]
    BY <1>3, <1>8
  <2>2. s \in Nat
    BY <1>2, <1>4, <1>8, NodeFields DEF Opt
  <2>3. /\ k \in Tab /\ k.node = d.node /\ k.calls = d.calls /\ k.stores = d.stores
        /\ k.adapters = d.adapters /\ k.stored = d.stored /\ k.retired = d.retired
        /\ k.nav = d.nav /\ k.cloned = d.cloned /\ k.disturbed = d.disturbed
        /\ s \in k.closed
        /\ s \notin d.closed => k.open = d.open \ {s} /\ k.closed = d.closed \cup {s}
    <3>1. d.open \ {s} \in SUBSET Nat /\ d.closed \cup {s} \in SUBSET Nat
      BY <1>4, <2>2, Fields
    <3>2. CASE s \in d.closed
      BY <1>4, <3>2 DEF Closed
    <3>3. CASE s \notin d.closed
      <4>1. k = [d EXCEPT !.open = d.open \ {s}, !.closed = d.closed \cup {s}]
        BY <3>3 DEF Closed
      <4> HIDE DEF k, s
      <4> QED
        BY <1>4, <3>1, <3>3, <4>1 DEF Tab
    <3> QED
      BY <3>2, <3>3
  <2>4. c \in Call /\ c.awaits = "closed" /\ c.previous = None /\ c.retired = {}
    BY Calling
  <2> HIDE DEF k, c
  <2>5. /\ e \in Tab /\ e.node = k.node /\ e.calls = k.calls \cup {c} /\ e.stores = k.stores
        /\ e.open = k.open /\ e.closed = k.closed /\ e.adapters = k.adapters
        /\ e.stored = k.stored /\ e.retired = k.retired /\ e.nav = k.nav
        /\ e.cloned = k.cloned /\ e.disturbed = k.disturbed
    <3>1. k.calls \cup {c} \in SUBSET Call
      BY <2>3, <2>4, Fields
    <3> QED
      BY <2>3, <3>1 DEF Tab
  <2> HIDE DEF e, s
  <2>6. Sound(e, drawn)
    BY <1>5, <2>3, <2>4, <2>5 DEF Sound, CallSound, Opt
  <2>7. ASSUME ~e.disturbed PROVE ~old.disturbed /\ Orderly(e)
    <3>1. ~d.disturbed
      BY <2>3, <2>5, <2>7
    <3>2. Up(d) /\ setup.storage
      BY <1>6, <1>8, <3>1 DEF Down, Up, Kept
    <3>3. s \in (1..d.stores) \ d.closed /\ d.open = {s} /\ Joined(d) /\ d.node.started
      BY <3>2 DEF Up, Kept, s
    <3>4. e.open = {} /\ e.closed \subseteq 1..e.stores
      BY <1>6, <2>3, <2>5, <3>1, <3>3
    <3>5. Busy(e, c)
      BY <1>6, <2>3, <2>4, <2>5, <3>1, <3>3, <3>4 DEF Busy, AwaitsClosed, Joined, Owns, s
    <3> QED
      BY <1>6, <2>3, <2>5, <3>1, <3>4, <3>5 DEF Orderly
  <2> QED
    BY <1>1, <1>4, <2>1, <2>3, <2>5, <2>6, <2>7, Keeps DEF old
<1> QED
  BY <1>7, <1>8

LEMMA StorageClosedInvariant ==
  ASSUME IInv, NEW t \in Nodes, NEW c \in tab[t].calls, StorageClosed(t, c)
  PROVE  IInv'
<1> DEFINE old == tab[t]
           d == [old EXCEPT !.calls = old.calls \ {c}]
           e == Destroyed(d)
<1>1. /\ Sound(old, drawn) /\ old \in Tab /\ old.node \in Node
      /\ ~old.disturbed => Orderly(old) /\ Busy(old, c)
  BY ATab
<1>2. c.awaits = "closed" /\ drawn' = drawn /\ setup' = setup /\ withdrawn' = withdrawn
  BY DEF StorageClosed
<1>3. tab' = [tab EXCEPT ![t] = e]
  BY DEF StorageClosed
<1> HIDE DEF old
<1>4. /\ d \in Tab /\ d.node = old.node /\ d.calls = old.calls \ {c} /\ d.stores = old.stores
      /\ d.open = old.open /\ d.closed = old.closed /\ d.adapters = old.adapters
      /\ d.stored = old.stored /\ d.retired = old.retired /\ d.nav = old.nav
      /\ d.cloned = old.cloned /\ d.disturbed = old.disturbed
  <2>1. old.calls \ {c} \in SUBSET Call
    BY <1>1, Fields
  <2> QED
    BY <1>1, <2>1 DEF Tab
<1> HIDE DEF d
<1>5. Sound(d, drawn)
  BY <1>1, <1>4 DEF Sound, CallSound
<1>6. ~old.disturbed => AwaitsClosed(old, c) /\ old.calls = {c}
  BY <1>1, <1>2 DEF Busy, AwaitsKeys, AwaitsDriver, AwaitsRelays
<1>7. ~d.disturbed =>
        /\ d.calls = {} /\ Timer(d.node) /\ d.open = {} /\ d.adapters \subseteq {d.node.client}
        /\ d.closed \subseteq 1..d.stores /\ (d.cloned => d.nav = "navigate")
  BY <1>1, <1>4, <1>6 DEF AwaitsClosed, Joined, Orderly
<1>8. /\ Sound(e, drawn) /\ e.disturbed = d.disturbed /\ e.retired = d.retired
      /\ ~d.disturbed => Orderly(e)
  BY <1>5, <1>7, DestroyedStep
<1>9. e.stored = d.stored /\ e.cloned = d.cloned
  BY <1>4 DEF Destroyed, Tab
<1> HIDE DEF e
<1> QED
  BY <1>2, <1>3, <1>4, <1>8, <1>9, Keeps DEF old

(* Keys of other peers change nothing of what the invariant is about.        *)
LEMMA WaitReplaces ==
  ASSUME IInv, NEW t \in Nodes, NEW n \in Node,
         tab' = [tab EXCEPT ![t].node = n],
         n.started = tab[t].node.started, n.ready = tab[t].node.ready,
         n.announcing = tab[t].node.announcing, n.handle = tab[t].node.handle,
         n.store = tab[t].node.store, n.client = tab[t].node.client,
         n.retired = tab[t].node.retired,
         UNCHANGED <<withdrawn, drawn, setup>>
  PROVE  IInv'
<1> DEFINE old == tab[t]
           e == [old EXCEPT !.node = n]
<1>1. /\ Sound(old, drawn) /\ old \in Tab
      /\ ~old.disturbed => Orderly(old)
  BY ATab
<1>2. tab' = [tab EXCEPT ![t] = e]
  OBVIOUS
<1>3. /\ e \in Tab /\ e.node = n /\ e.calls = old.calls /\ e.stores = old.stores
      /\ e.open = old.open /\ e.closed = old.closed /\ e.adapters = old.adapters
      /\ e.stored = old.stored /\ e.retired = old.retired /\ e.nav = old.nav
      /\ e.cloned = old.cloned /\ e.disturbed = old.disturbed
  BY <1>1 DEF Tab
<1> HIDE DEF e
<1>4. Sound(e, drawn)
  BY <1>1, <1>3 DEF Sound, CallSound
<1>5. ~e.disturbed => Orderly(e)
  <2> SUFFICES ASSUME ~e.disturbed PROVE Orderly(e)
    OBVIOUS
  <2>1. Orderly(old)
    BY <1>1, <1>3
  <2>2. Timer(e.node)
    BY <1>3, <2>1 DEF Orderly, Timer
  <2>3. Kept(old) => Kept(e)
    BY <1>3 DEF Kept
  <2>4. Joined(old) => Joined(e)
    BY <1>3 DEF Joined, Owns
  <2>5. Down(old) => Down(e)
    BY <1>3 DEF Down
  <2>6. Up(old) => Up(e)
    BY <1>3, <2>3, <2>4 DEF Up
  <2>7. ASSUME NEW c, Busy(old, c) PROVE Busy(e, c)
    BY <1>3, <2>3, <2>4, <2>7 DEF Busy, AwaitsKeys, AwaitsDriver, AwaitsRelays, AwaitsClosed, Owns
  <2> QED
    BY <1>3, <2>1, <2>2, <2>5, <2>6, <2>7 DEF Orderly
<1> QED
  BY <1>1, <1>2, <1>3, <1>4, <1>5, Keeps

LEMMA WaitInvariant ==
  ASSUME IInv, NEW t \in Tabs, WaitForPeerKey(t) \/ KeyArrives(t) \/ WaitExpires(t)
  PROVE  IInv'
<1>1. t \in Nodes /\ UNCHANGED <<withdrawn, drawn, setup>>
  BY DEF WaitForPeerKey, KeyArrives, WaitExpires, Nodes
<1>2. tab[t].node \in Node
  BY <1>1, ATab
<1>3. PICK n : /\ tab' = [tab EXCEPT ![t].node = n]
               /\ \E known, listening, timer \in BOOLEAN, wait \in {"waiting", "settled"} \cup {tab[t].node.wait} :
                    n = [tab[t].node EXCEPT !.known = known, !.wait = wait, !.timer = timer,
                                            !.listening = listening]
  <2>1. CASE WaitForPeerKey(t)
    <3>1. CASE tab[t].node.known
      <4>1. tab' = [tab EXCEPT ![t].node = [tab[t].node EXCEPT !.wait = "settled"]]
        BY <2>1, <3>1 DEF WaitForPeerKey
      <4>2. [tab[t].node EXCEPT !.wait = "settled"] =
              [tab[t].node EXCEPT !.known = tab[t].node.known, !.wait = "settled",
                 !.timer = tab[t].node.timer, !.listening = tab[t].node.listening]
        BY <1>2 DEF Node
      <4> QED
        BY <1>2, <4>1, <4>2, NodeFields
    <3>2. CASE ~tab[t].node.known
      <4>1. tab' = [tab EXCEPT ![t].node =
                      [tab[t].node EXCEPT !.wait = "waiting", !.timer = TRUE, !.listening = TRUE]]
        BY <2>1, <3>2 DEF WaitForPeerKey
      <4>2. [tab[t].node EXCEPT !.wait = "waiting", !.timer = TRUE, !.listening = TRUE] =
              [tab[t].node EXCEPT !.known = tab[t].node.known, !.wait = "waiting",
                 !.timer = TRUE, !.listening = TRUE]
        BY <1>2 DEF Node
      <4> QED
        BY <1>2, <4>1, <4>2, NodeFields
    <3> QED
      BY <3>1, <3>2
  <2>2. CASE KeyArrives(t)
    <3>1. CASE tab[t].node.listening
      <4>1. tab' = [tab EXCEPT ![t].node =
                      [tab[t].node EXCEPT !.known = TRUE, !.listening = FALSE, !.wait = "settled",
                                          !.timer = FALSE]]
        BY <2>2, <3>1 DEF KeyArrives
      <4>2. [tab[t].node EXCEPT !.known = TRUE, !.listening = FALSE, !.wait = "settled", !.timer = FALSE] =
              [tab[t].node EXCEPT !.known = TRUE, !.wait = "settled", !.timer = FALSE, !.listening = FALSE]
        BY <1>2 DEF Node
      <4> QED
        BY <1>2, <4>1, <4>2, NodeFields
    <3>2. CASE ~tab[t].node.listening
      <4>1. tab' = [tab EXCEPT ![t].node = [tab[t].node EXCEPT !.known = TRUE]]
        BY <2>2, <3>2 DEF KeyArrives
      <4>2. [tab[t].node EXCEPT !.known = TRUE] =
              [tab[t].node EXCEPT !.known = TRUE, !.wait = tab[t].node.wait,
                 !.timer = tab[t].node.timer, !.listening = tab[t].node.listening]
        BY <1>2 DEF Node
      <4> QED
        BY <1>2, <4>1, <4>2, NodeFields
    <3> QED
      BY <3>1, <3>2
  <2>3. CASE WaitExpires(t)
    <3>1. tab' = [tab EXCEPT ![t].node =
                    [tab[t].node EXCEPT !.wait = "settled", !.timer = FALSE, !.listening = FALSE]]
      BY <2>3 DEF WaitExpires
    <3>2. [tab[t].node EXCEPT !.wait = "settled", !.timer = FALSE, !.listening = FALSE] =
            [tab[t].node EXCEPT !.known = tab[t].node.known, !.wait = "settled",
               !.timer = FALSE, !.listening = FALSE]
      BY <1>2 DEF Node
    <3> QED
      BY <1>2, <3>1, <3>2, NodeFields
  <2> QED
    BY <2>1, <2>2, <2>3
<1>4. /\ n \in Node /\ n.started = tab[t].node.started /\ n.ready = tab[t].node.ready
      /\ n.announcing = tab[t].node.announcing /\ n.handle = tab[t].node.handle
      /\ n.store = tab[t].node.store /\ n.client = tab[t].node.client
      /\ n.retired = tab[t].node.retired
  <2>1. tab[t].node.wait \in {"none", "waiting", "settled"}
    BY <1>2, NodeFields
  <2> QED
    BY <1>2, <1>3, <2>1 DEF Node
<1> QED
  BY <1>1, <1>3, <1>4, WaitReplaces

(* A document that has just been opened.                                     *)
LEMMA Opened ==
  /\ Blank \in Node
  /\ \A e : /\ e.node = Blank /\ e.calls = {} /\ e.open = {} /\ e.closed = {} /\ e.adapters = {}
           => Down(e) /\ Timer(e.node) /\ e.closed \subseteq 1..e.stores
<1>1. Blank \in Node
  BY DEF Blank, Node, Opt
<1>2. ASSUME NEW e, e.node = Blank, e.calls = {}, e.open = {}, e.closed = {}, e.adapters = {}
      PROVE  Down(e)
  BY <1>2 DEF Down, Blank
<1>3. ASSUME NEW e, e.node = Blank
      PROVE  Timer(e.node)
  BY <1>3 DEF Timer, Blank
<1> QED
  BY <1>1, <1>2, <1>3

LEMMA ReloadInvariant ==
  ASSUME IInv, NEW t \in Tabs, Reload(t)
  PROVE  IInv'
<1> DEFINE old == tab[t]
<1>1. t \in Nodes /\ drawn' = drawn /\ setup' = setup /\ withdrawn' = withdrawn
  BY DEF Reload, Nodes
<1>2. PICK nav \in {"navigate", "reload"} :
        tab' = [tab EXCEPT ![t] =
          [Document(old.stored, old.retired, nav, old.cloned)
             EXCEPT !.disturbed = old.disturbed \/ (old.cloned /\ nav = "reload")]]
  BY DEF Reload
<1>3. /\ Sound(old, drawn) /\ old \in Tab
      /\ ~old.disturbed => Orderly(old)
  BY <1>1, ATab
<1> HIDE DEF old
<1> DEFINE d == Document(old.stored, old.retired, nav, old.cloned)
           e == [d EXCEPT !.disturbed = old.disturbed \/ (old.cloned /\ nav = "reload")]
<1>4. /\ d \in Tab /\ d.node = Blank /\ d.calls = {} /\ d.open = {} /\ d.closed = {}
      /\ d.adapters = {} /\ d.stored = old.stored /\ d.retired = old.retired /\ d.nav = nav
      /\ d.cloned = old.cloned
  <2>1. old.stored \in Opt(Id) /\ old.retired \in SUBSET Id /\ old.cloned \in BOOLEAN
    BY <1>3, Fields
  <2> QED
    BY <2>1, Opened DEF Document, Tab
<1>5. tab' = [tab EXCEPT ![t] = e]
  BY <1>2
<1> HIDE DEF d
<1>6. /\ e \in Tab /\ e.node = d.node /\ e.calls = d.calls /\ e.stores = d.stores
      /\ e.open = d.open /\ e.closed = d.closed /\ e.adapters = d.adapters
      /\ e.stored = d.stored /\ e.retired = d.retired /\ e.nav = d.nav
      /\ e.cloned = d.cloned
      /\ e.disturbed = (old.disturbed \/ (old.cloned /\ nav = "reload"))
  <2>1. (old.disturbed \/ (old.cloned /\ nav = "reload")) \in BOOLEAN
    OBVIOUS
  <2> QED
    BY <1>4, <2>1 DEF Tab
<1> HIDE DEF e
<1>7. Sound(e, drawn)
  BY <1>3, <1>4, <1>6 DEF Sound, Blank
<1>8. ASSUME ~e.disturbed PROVE ~old.disturbed /\ Orderly(e)
  <2>1. Down(e) /\ Timer(e.node) /\ e.closed \subseteq 1..e.stores
    BY <1>4, <1>6, Opened
  <2>2. e.cloned => e.nav = "navigate"
    BY <1>4, <1>6, <1>8
  <2> QED
    BY <1>6, <1>8, <2>1, <2>2 DEF Orderly
<1> QED
  BY <1>1, <1>4, <1>5, <1>6, <1>7, <1>8, Keeps DEF old

(* A duplicate owns nothing until its node has drawn an identity.            *)
LEMMA DuplicateInvariant ==
  ASSUME IInv, NEW t \in Tabs, NEW u \in Tabs, Duplicate(t, u)
  PROVE  IInv'
<1> DEFINE e == Document(tab[t].stored, tab[t].retired, "navigate", TRUE)
<1>1. /\ t \in Nodes /\ u \notin Nodes /\ drawn' = drawn /\ setup' = setup /\ withdrawn' = withdrawn
      /\ tab' = [tab EXCEPT ![u] = e]
  BY DEF Duplicate, Nodes
<1>2. Sound(tab[t], drawn) /\ tab[t] \in Tab
  BY <1>1, ATab
<1>3. /\ e \in Tab /\ e.node = Blank /\ e.calls = {} /\ e.open = {} /\ e.closed = {}
      /\ e.adapters = {} /\ e.stored = tab[t].stored /\ e.retired = tab[t].retired
      /\ e.nav = "navigate" /\ e.cloned = TRUE /\ e.disturbed = FALSE
  <2>1. tab[t].stored \in Opt(Id) /\ tab[t].retired \in SUBSET Id
    BY <1>2, Fields
  <2> QED
    BY <2>1, Opened DEF Document, Tab
<1> HIDE DEF e
<1>4. /\ tab' \in [Tabs -> Tab \cup {None}] /\ tab'[u] = e
      /\ \A v \in Tabs \ {u} : tab'[v] = tab[v]
  BY <1>1, <1>3 DEF IInv
<1>5. Nodes' = Nodes \cup {u}
  BY <1>3, <1>4, NoneAssumption DEF Nodes, Open
<1>6. Sound(e, drawn) /\ Orderly(e) /\ Owns(e) = {}
  <2>1. Orderly(e)
    BY <1>3, Opened DEF Orderly
  <2>2. Sound(e, drawn)
    BY <1>2, <1>3 DEF Sound, Blank
  <2> QED
    BY <1>3, <2>1, <2>2 DEF Owns
<1>7. \A v \in Nodes' :
        \E d : tab'[v] = d /\ Sound(d, drawn) /\ (~d.disturbed => Orderly(d))
  BY <1>1, <1>4, <1>5, <1>6 DEF IInv, Nodes
<1>8. \A v \in Nodes' : Sound(tab[v], drawn)'
  BY <1>1, <1>7 DEF Sound, CallSound
<1>9. \A v \in Nodes' : ~tab'[v].disturbed => Orderly(tab[v])'
  <2> TAKE v \in Nodes'
  <2>1. PICK d : tab'[v] = d /\ (~d.disturbed => Orderly(d))
    BY <1>7
  <2> QED
    BY <1>1, <2>1 DEF Orderly, Timer, Down, Up, Kept, Joined, Busy, AwaitsKeys, AwaitsDriver,
             AwaitsRelays, AwaitsClosed, Owns
<1>10. ASSUME Calm' PROVE Identities'
  <2>1. Calm
    BY <1>1, <1>4, <1>5, <1>10 DEF Calm, Nodes
  <2>2. Identities
    BY <2>1 DEF IInv
  <2>3. \A v \in Nodes : v # u /\ Owns(tab[v])' = Owns(tab[v]) /\ tab'[v].retired = tab[v].retired
    BY <1>1, <1>4 DEF Owns, Nodes
  <2>4. Owns(tab[u])' = {} /\ tab'[u].retired = tab[t].retired
    BY <1>3, <1>4, <1>6 DEF Owns
  <2>5. \A v, w \in Nodes' : v # w => Owns(tab[v])' \cap Owns(tab[w])' = {}
    BY <1>5, <2>2, <2>3, <2>4 DEF Identities
  <2>6. \A v, w \in Nodes' : Owns(tab[v])' \cap (tab'[w].retired \cup withdrawn') = {}
    <3> TAKE v, w \in Nodes'
    <3>1. PICK x \in Nodes : tab'[w].retired = tab[x].retired
      BY <1>1, <1>5, <2>3, <2>4
    <3>2. CASE v = u
      BY <2>4, <3>2
    <3>3. CASE v # u
      BY <1>1, <1>5, <2>2, <2>3, <3>1, <3>3 DEF Identities
    <3> QED
      BY <3>2, <3>3
  <2> QED
    BY <2>5, <2>6 DEF Identities
<1> QED
  BY <1>1, <1>4, <1>8, <1>9, <1>10 DEF IInv

LEMMA NextInvariant ==
  IInv /\ [Next]_vars => IInv'
<1> SUFFICES ASSUME IInv, [Next]_vars PROVE IInv'
  OBVIOUS
<1>1. CASE UNCHANGED vars
  BY <1>1, Unchanged DEF vars
<1>2. ASSUME NEW t \in Tabs, Start(t) PROVE IInv'
  BY <1>2, StartInvariant
<1>3. ASSUME NEW t \in Tabs, Destroy(t) PROVE IInv'
  BY <1>3, DestroyInvariant
<1>4. ASSUME NEW t \in Tabs, Reload(t) PROVE IInv'
  BY <1>4, ReloadInvariant
<1>5. ASSUME NEW t \in Tabs, WaitForPeerKey(t) \/ KeyArrives(t) \/ WaitExpires(t) PROVE IInv'
  BY <1>5, WaitInvariant
<1>6. ASSUME NEW t \in Tabs, NEW c \in Calls(t), Settle(t, c) \/ Fail(t, c) PROVE IInv'
  <2>1. t \in Nodes /\ c \in tab[t].calls
    BY <1>6 DEF Calls, Nodes
  <2>2. CASE KeysReady(t, c)
    BY <2>1, <2>2, KeysReadyInvariant
  <2>3. CASE DriverReady(t, c)
    BY <2>1, <2>3, DriverReadyInvariant
  <2>4. CASE RelaysReady(t, c)
    BY <2>1, <2>4, RelaysReadyInvariant
  <2>5. CASE StorageClosed(t, c)
    BY <2>1, <2>5, StorageClosedInvariant
  <2>6. CASE Fail(t, c)
    BY <2>1, <2>6, FailInvariant
  <2> QED
    BY <1>6, <2>2, <2>3, <2>4, <2>5, <2>6 DEF Settle
<1>7. ASSUME NEW t \in Tabs, NEW u \in Tabs, Duplicate(t, u) PROVE IInv'
  BY <1>7, DuplicateInvariant
<1> QED
  BY <1>1, <1>2, <1>3, <1>4, <1>5, <1>6, <1>7 DEF Next

(* The strengthening holds of every behaviour: whatever calls overlap, a     *)
(* tab's calls carry what it knew, and a tab in which no call met another    *)
(* one is down, up, or in one of the awaits of start() and destroy().        *)
THEOREM Invariance == Spec => []IInv
  BY InitInvariant, NextInvariant, PTL DEF Spec

(* start(), destroy() and what they bring up keep the shapes of their state, *)
(* and no timer is cleared that does not run.                                *)
THEOREM TypeCorrect == Spec => []TypeOK
<1>1. IInv => TypeOK
  <2> SUFFICES ASSUME IInv PROVE TypeOK
    OBVIOUS
  <2>1. 1..drawn \subseteq Id
    BY Assumption DEF IInv, Id
  <2> QED
    BY <2>1 DEF IInv, TypeOK
<1> QED
  BY <1>1, Invariance, PTL

(* When its calls have settled, a node has what start() brings up, once, and *)
(* after destroy() nothing, for any options and any number of starts,        *)
(* failures, reloads and waits, with the exceptions that OneOfEach names.    *)
THEOREM NothingTwice == Spec => []OneOfEach
<1>1. IInv => OneOfEach
  <2> SUFFICES ASSUME IInv, NEW t \in Nodes, tab[t].calls = {}, ~tab[t].disturbed
               PROVE  LET d == tab[t]
                          n == d.node
                          up == IF n.started THEN 1 ELSE 0
                      IN
                      /\ setup.crypto /\ n.started => n.ready
                      /\ n.announcing <= 1 /\ (n.announcing = 1 => n.handle)
                      /\ Cardinality(d.open) = (IF setup.storage THEN up ELSE 0)
                      /\ d.open \subseteq {n.store}
                      /\ Cardinality(d.adapters) = up
                      /\ d.adapters \subseteq {n.client}
    BY DEF OneOfEach
  <2> DEFINE d == tab[t]
             n == d.node
  <2>1. Orderly(d) /\ (Down(d) \/ Up(d))
    BY DEF IInv, Orderly, Busy
  <2>2. n.ready \in BOOLEAN /\ n.handle \in BOOLEAN
    BY ATab, NodeFields
  <2>3. n.announcing <= 1 /\ (n.announcing = 1 => n.handle)
    BY <2>1, <2>2 DEF Orderly, Timer
  <2>4. Cardinality({}) = 0 /\ Cardinality({n.store}) = 1 /\ Cardinality({n.client}) = 1
    BY FS_EmptySet, FS_Singleton
  <2>5. CASE Down(d)
    BY <2>3, <2>4, <2>5 DEF Down
  <2>6. CASE Up(d)
    BY <2>3, <2>4, <2>6 DEF Up, Kept, Joined
  <2> QED
    BY <2>1, <2>5, <2>6
<1> QED
  BY <1>1, Invariance, PTL

(* No reload of any tab takes away an identity under which a node lives, for *)
(* any number of tabs, duplicates and reloads, with the exceptions that      *)
(* LiveIdentitiesStay names.                                                 *)
THEOREM NobodyIsRetired == Spec => []LiveIdentitiesStay
<1>1. IInv => LiveIdentitiesStay
  <2> SUFFICES ASSUME IInv, Calm, NEW t \in Nodes, NEW u \in Nodes
               PROVE  Live(t) \cap (tab[u].node.retired \cup withdrawn) = {}
    BY DEF LiveIdentitiesStay, Calm
  <2>1. Orderly(tab[t])
    BY DEF IInv, Calm
  <2>2. tab[t].adapters \subseteq Owns(tab[t])
    BY <2>1 DEF Orderly, Down, Up, Busy, AwaitsKeys, AwaitsDriver, AwaitsRelays, AwaitsClosed, Joined
  <2>3. Owns(tab[t]) \cap (tab[u].retired \cup withdrawn) = {}
    BY DEF IInv, Identities
  <2>4. tab[u].node.retired \subseteq tab[u].retired
    BY DEF IInv, Sound
  <2> QED
    BY <2>2, <2>3, <2>4 DEF Live
<1> QED
  BY <1>1, Invariance, PTL
=============================================================================
