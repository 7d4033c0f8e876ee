---------------------------- MODULE PeerPigeonNode ----------------------------
(* The life of a PeerPigeonNode (index.ts): start() and destroy() with the   *)
(* awaits between which other calls come, the parts they bring up and take   *)
(* down (crypto.ts, storage.ts, gossip.ts, PartialMesh), the identity that   *)
(* every document of a tab draws anew, and a wait for a peer's key.  Nodes   *)
(* of one user run in tabs, at most one in a document; the registration of   *)
(* an identity at a relay belongs to SignalingAdapter.                       *)
EXTENDS Naturals, FiniteSets

CONSTANTS
  Tabs,
  None,
  MaxIds,         \* identities drawn in a run
  Scenarios       \* the options of the nodes, and the bounds of a run

ASSUME Assumption ==
  /\ MaxIds \in Nat /\ None \notin Nat
  /\ \A s \in Scenarios : s.crypto \in BOOLEAN /\ s.storage \in BOOLEAN

VARIABLES
  tab,            \* what each tab holds; None before it is opened
  withdrawn,      \* identities withdrawn from the relay as those of a reload
  drawn,          \* the number of identities drawn
  setup,          \* the scenario
  used            \* how much of its bounds is used

vars == <<tab, withdrawn, drawn, setup, used>>

Id == 1..MaxIds
Opt(S) == S \cup {None}

(* The node of the document: announcing counts the timers that run, handle   *)
(* is announceTimer; store is the current storage; bound: the listeners that *)
(* the constructors have put on the mesh are still there; wait, timer and    *)
(* listening: one call of waitForPeerKey, its timeout and its handler.       *)
Node == [started: BOOLEAN, ready: BOOLEAN, announcing: Nat, handle: BOOLEAN, store: Opt(Nat),
         clientId: Opt(Id), client: Opt(Id), retired: SUBSET Id, bound: BOOLEAN,
         known: BOOLEAN, wait: {"none", "waiting", "settled"}, timer: BOOLEAN, listening: BOOLEAN]

Blank == [started |-> FALSE, ready |-> FALSE, announcing |-> 0, handle |-> FALSE, store |-> None,
          clientId |-> None, client |-> None, retired |-> {}, bound |-> TRUE,
          known |-> FALSE, wait |-> "none", timer |-> FALSE, listening |-> FALSE]

(* A call under way and what it awaits; init: it came to crypto.init before  *)
(* the keys were there.                                                      *)
Call == [awaits: {"keys", "driver", "relays", "closed"}, init: BOOLEAN, store: Opt(Nat),
         id: Opt(Id), previous: Opt(Id), retired: SUBSET Id]

(* open and closed are storages, adapters the signalling clients that have   *)
(* not been disconnected; the rest outlives the document.                    *)
Tab == [node: Node, calls: SUBSET Call, stores: Nat, open: SUBSET Nat, closed: SUBSET Nat,
        adapters: SUBSET Id, stored: Opt(Id), retired: SUBSET Id,
        nav: {"navigate", "reload"}, cloned: BOOLEAN, disturbed: BOOLEAN]

ASSUME NoneAssumption == None \notin Tab

TypeOK ==
  /\ tab \in [Tabs -> Tab \cup {None}]
  /\ withdrawn \subseteq Id /\ drawn \in 0..MaxIds

Document(stored, retired, nav, cloned) ==
  [node |-> Blank, calls |-> {}, stores |-> 0, open |-> {}, closed |-> {}, adapters |-> {},
   stored |-> stored, retired |-> retired, nav |-> nav, cloned |-> cloned, disturbed |-> FALSE]

Init ==
  /\ setup \in Scenarios
  /\ \E first \in Tabs :
       tab = [t \in Tabs |-> IF t = first THEN Document(None, {}, "navigate", FALSE) ELSE None]
  /\ withdrawn = {} /\ drawn = 0
  /\ used = [starts |-> 0, destroys |-> 0, failures |-> 0, loads |-> 0, waits |-> 0]

Use(what) == used[what] < setup[what] /\ used' = [used EXCEPT ![what] = @ + 1]

Open(t) == tab[t] # None

-----------------------------------------------------------------------------
(* Starting                                                                  *)

(* crypto.init after the keys are there: a second one replaces the handle.   *)
WithKeys(n) ==
  [n EXCEPT !.ready = TRUE, !.announcing = @ + 1, !.handle = TRUE]

Awaiting(what) ==
  [awaits |-> what, init |-> FALSE, store |-> None, id |-> None, previous |-> None, retired |-> {}]

(* Faulty variant: any stored identity is taken for this tab's own.          *)
PreviousFaulty(d) == d.stored

(* loadOrCreateBrowserPeerId: the identity to withdraw.                      *)
Previous(d) == IF d.nav = "reload" THEN d.stored ELSE None

(* mesh.init up to the relay discovery.                                      *)
Loaded(d, rest) ==
  LET id == drawn + 1
      gone == (d.retired \cup ({Previous(d)} \ {None})) \ {id}
  IN [d EXCEPT !.stored = id, !.retired = gone, !.cloned = FALSE, !.node.clientId = id,
               !.calls = rest \cup {[Awaiting("relays") EXCEPT !.id = id, !.previous = Previous(d),
                                                               !.retired = gone]}]

(* start() behind crypto.init: storage, if there is any, and then the mesh.  *)
Continued(d, rest) ==
  IF setup.storage
  THEN [d EXCEPT !.stores = @ + 1, !.node.store = d.stores + 1,
                 !.calls = rest \cup {[Awaiting("driver") EXCEPT !.store = d.stores + 1]}]
  ELSE Loaded(d, rest)

Draws == drawn' = (IF setup.storage THEN drawn ELSE drawn + 1)

CanDraw == drawn < MaxIds

(* start(): a second call returns at once, also while the first is under way.*)
Start(t) ==
  /\ Open(t) /\ CanDraw
  /\ Use("starts")
  /\ IF tab[t].node.started THEN UNCHANGED <<tab, drawn>>
     ELSE LET d == [tab[t] EXCEPT !.node.started = TRUE] IN
          IF setup.crypto
          THEN /\ tab' = [tab EXCEPT ![t] =
                    [d EXCEPT !.calls = @ \cup {[Awaiting("keys") EXCEPT !.init = ~d.node.ready]}]]
               /\ UNCHANGED drawn
          ELSE tab' = [tab EXCEPT ![t] = Continued(d, d.calls)] /\ Draws
  /\ UNCHANGED <<withdrawn, setup>>

(* The key pair is given, loaded or generated.                               *)
KeysReady(t, c) ==
  /\ c.awaits = "keys" /\ CanDraw
  /\ LET d == tab[t]
         n == IF c.init THEN WithKeys(d.node) ELSE d.node
     IN tab' = [tab EXCEPT ![t] = Continued([d EXCEPT !.node = n], d.calls \ {c})]
  /\ Draws
  /\ UNCHANGED <<withdrawn, setup, used>>

(* storage.init: IndexedDB, or memory when that fails.                       *)
DriverReady(t, c) ==
  /\ c.awaits = "driver" /\ CanDraw
  /\ LET d == tab[t] IN
     tab' = [tab EXCEPT ![t] = Loaded([d EXCEPT !.open = @ \cup {c.store}], d.calls \ {c})]
  /\ drawn' = drawn + 1
  /\ UNCHANGED <<withdrawn, setup, used>>

(* withdrawPreviousIdentity, at the relays that the identity was announced   *)
(* to; a relay that cannot be reached forgets it with its lease.             *)
Withdrawn(c) == {c.previous} \ {None}

(* The rest of mesh.init: a signalling client is made and connected, which   *)
(* withdraws the previous identity.                                          *)
RelaysReady(t, c) ==
  /\ c.awaits = "relays"
  /\ LET d == tab[t] IN
     tab' = [tab EXCEPT ![t] =
       [d EXCEPT !.calls = @ \ {c}, !.adapters = @ \cup {c.id},
                 !.node.client = c.id, !.node.retired = @ \cup c.retired]]
  /\ withdrawn' = withdrawn \cup Withdrawn(c)
  /\ UNCHANGED <<drawn, setup, used>>

(* What start() leaves when it throws.                                       *)
Failed(d, c) == [d EXCEPT !.calls = @ \ {c}, !.node.started = FALSE]

(* No keys can be made, or no relay can be ranked.                           *)
Fail(t, c) ==
  /\ c.awaits \in {"keys", "relays"}
  /\ Use("failures")
  /\ LET d == tab[t] IN
     tab' = [tab EXCEPT ![t] =
       [Failed(d, c) EXCEPT !.disturbed = @ \/ (setup.storage /\ c.awaits = "relays")]]
  /\ UNCHANGED <<withdrawn, drawn, setup>>

-----------------------------------------------------------------------------
(* Destroying                                                                *)

(* Faulty variant: the timers of waits are cleared too.                      *)
CryptoDestroyedFaulty(n) ==
  [n EXCEPT !.ready = FALSE, !.announcing = @ - (IF n.handle THEN 1 ELSE 0), !.handle = FALSE,
            !.known = FALSE, !.listening = FALSE, !.timer = FALSE]

(* crypto.destroy *)
CryptoDestroyed(n) ==
  [n EXCEPT !.ready = FALSE, !.announcing = @ - (IF n.handle THEN 1 ELSE 0), !.handle = FALSE,
            !.known = FALSE, !.listening = FALSE]

(* mesh.destroy: nobody listens to the mesh any longer.                      *)
MeshDestroyed(n) ==
  [n EXCEPT !.client = None, !.clientId = None, !.retired = {}, !.bound = FALSE]

(* destroy() behind storage.close.                                           *)
Destroyed(d) ==
  [d EXCEPT !.adapters = @ \ {d.node.client},
            !.node = [MeshDestroyed(CryptoDestroyed(@)) EXCEPT !.store = None, !.started = FALSE]]

(* Faulty variant: a storage is forgotten without being closed.              *)
ClosedFaulty(d) == d

(* storage.close: once.                                                     *)
Closed(d) ==
  IF d.node.store \in d.closed THEN d
  ELSE [d EXCEPT !.open = @ \ {d.node.store}, !.closed = @ \cup {d.node.store}]

(* destroy(); a start() that is under way goes on behind it.                 *)
Destroy(t) ==
  /\ Open(t)
  /\ Use("destroys")
  /\ LET d == [tab[t] EXCEPT !.disturbed = @ \/ tab[t].calls # {}] IN
     tab' = [tab EXCEPT ![t] =
       IF d.node.store = None THEN Destroyed(d)
       ELSE [Closed(d) EXCEPT !.calls = @ \cup {Awaiting("closed")}]]
  /\ UNCHANGED <<withdrawn, drawn, setup>>

StorageClosed(t, c) ==
  /\ c.awaits = "closed"
  /\ LET d == tab[t] IN
     tab' = [tab EXCEPT ![t] = Destroyed([d EXCEPT !.calls = @ \ {c}])]
  /\ UNCHANGED <<withdrawn, drawn, setup, used>>

-----------------------------------------------------------------------------
(* Keys of other peers                                                       *)

(* waitForPeerKey of one other peer.                                         *)
WaitForPeerKey(t) ==
  /\ Open(t) /\ setup.crypto /\ tab[t].node.wait = "none"
  /\ Use("waits")
  /\ tab' = [tab EXCEPT ![t].node =
       IF @.known THEN [@ EXCEPT !.wait = "settled"]
       ELSE [@ EXCEPT !.wait = "waiting", !.timer = TRUE, !.listening = TRUE]]
  /\ UNCHANGED <<withdrawn, drawn, setup>>

(* Its public info arrives: upsertPublicKey.                                 *)
KeyArrives(t) ==
  /\ Open(t)
  /\ LET n == tab[t].node IN
     /\ n.ready /\ n.bound /\ n.client # None
     /\ ~n.known
     /\ tab' = [tab EXCEPT ![t].node =
          IF n.listening
          THEN [n EXCEPT !.known = TRUE, !.listening = FALSE, !.wait = "settled", !.timer = FALSE]
          ELSE [n EXCEPT !.known = TRUE]]
  /\ UNCHANGED <<withdrawn, drawn, setup, used>>

WaitExpires(t) ==
  /\ Open(t) /\ tab[t].node.timer
  /\ tab' = [tab EXCEPT ![t].node = [@ EXCEPT !.wait = "settled", !.timer = FALSE, !.listening = FALSE]]
  /\ UNCHANGED <<withdrawn, drawn, setup, used>>

-----------------------------------------------------------------------------
(* Tabs                                                                      *)

(* The document goes without a call of destroy(); sessionStorage stays.      *)
Reload(t) ==
  /\ Open(t)
  /\ Use("loads")
  /\ \E nav \in {"navigate", "reload"} :
       tab' = [tab EXCEPT ![t] =
         [Document(@.stored, @.retired, nav, @.cloned)
            EXCEPT !.disturbed = tab[t].disturbed \/ (tab[t].cloned /\ nav = "reload")]]
  /\ UNCHANGED <<withdrawn, drawn, setup>>

(* The user duplicates a tab, sessionStorage with it.                        *)
Duplicate(t, u) ==
  /\ Open(t) /\ ~Open(u)
  /\ tab' = [tab EXCEPT ![u] = Document(tab[t].stored, tab[t].retired, "navigate", TRUE)]
  /\ UNCHANGED <<withdrawn, drawn, setup, used>>

Settle(t, c) ==
  KeysReady(t, c) \/ DriverReady(t, c) \/ RelaysReady(t, c) \/ StorageClosed(t, c)

Calls(t) == IF Open(t) THEN tab[t].calls ELSE {}

Next ==
  \/ \E t \in Tabs :
       \/ Start(t) \/ Destroy(t) \/ Reload(t)
       \/ WaitForPeerKey(t) \/ KeyArrives(t) \/ WaitExpires(t)
       \/ \E c \in Calls(t) : Settle(t, c) \/ Fail(t, c)
  \/ \E t, u \in Tabs : Duplicate(t, u)

Spec == Init /\ [][Next]_vars

(* Timers fire.                                                              *)
FairSpec == Spec /\ \A t \in Tabs : WF_vars(WaitExpires(t))

-----------------------------------------------------------------------------
(* Properties                                                                *)

Nodes == {t \in Tabs : Open(t)}

(* When all calls have settled, a started node has one announce timer, one   *)
(* open storage and one signalling client, those it knows of, and any other  *)
(* node has none: unless destroy() was called while another call was under   *)
(* way, start() failed behind its storage, or the tab is a duplicate that    *)
(* was reloaded before its node had drawn an identity.                       *)
OneOfEach ==
  \A t \in Nodes :
    LET d == tab[t]
        n == d.node
        up == IF n.started THEN 1 ELSE 0
    IN
    d.calls = {} /\ ~d.disturbed =>
      /\ setup.crypto /\ n.started => n.ready
      /\ n.announcing <= 1 /\ (n.announcing = 1 => n.handle)
      /\ Cardinality(d.open) = (IF setup.storage THEN up ELSE 0)
      /\ d.open \subseteq {n.store}
      /\ Cardinality(d.adapters) = up
      /\ d.adapters \subseteq {n.client}

Live(t) == tab[t].adapters

(* Reloading takes no identity away that is in use: neither does a node      *)
(* exclude one of a node that lives, nor withdraw it from the relay.  Not so *)
(* when a duplicated tab is reloaded before its node has drawn an identity,  *)
(* nor where overlapping or failed calls have left a client behind.          *)
LiveIdentitiesStay ==
  (\A t \in Nodes : ~tab[t].disturbed) =>
    \A t, u \in Nodes : Live(t) \cap (tab[u].node.retired \cup withdrawn) = {}

Waiting(t) == IF Open(t) THEN tab[t].node.wait = "waiting" ELSE FALSE

(* A wait for a key comes to an end, whatever becomes of the node.           *)
WaitSettles ==
  \A t \in Tabs : Waiting(t) ~> ~Waiting(t)
=============================================================================
