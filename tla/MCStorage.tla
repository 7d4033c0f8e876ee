----------------------------- MODULE MCStorage -----------------------------
(* Two instances of Storage: on two devices, or as two tabs of one profile.  *)
EXTENDS Storage

CONSTANTS a, b

Both(x, y) == [n \in Instances |-> IF n = a THEN x ELSE y]

Setup(s, disk, users, owners, calls_, closes) ==
  [space |-> s, disk |-> Both("A", disk), user |-> users,
   room |-> Both("room", "room"), owners |-> owners, calls |-> calls_,
   closes |-> closes]

Two == Both("alice", "bob")
One == Both("alice", "alice")
Migrating == Both("hex", "bob")

AllSetups ==
  {Setup("public", "B", Two, {}, 3, 0), Setup("user", "B", Two, {}, 3, 0)} \cup
  {Setup(s, "B", Two, {}, 2, 1) : s \in {"public", "frozen", "epublic"}} \cup
  {Setup(s, "A", u, {}, 2, 1) : s \in {"public", "private"}, u \in {One, Two}} \cup
  {Setup("user", "B", Two, {"bob"}, 2, 0), Setup("user", "A", Migrating, {}, 2, 0)}

=============================================================================
