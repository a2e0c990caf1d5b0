--------------------------- MODULE MCAvailability ---------------------------
(* Small instances of Availability for TLC: clients c1 and c2 share a       *)
(* process, c3 runs in another.                                             *)
EXTENDS Availability, TLC

CONSTANTS d, f, c1, c2, c3, h1, h2

SubTree == (d :> {f}) @@ (f :> {})
TwoHosts == [c \in Clients |-> IF c = c3 THEN h2 ELSE h1]
Symmetry == Permutations(Clients \ {c3})

\* Two clients of one object, in two processes or in one.
Race(who, faults) ==
  [clients |-> who, addrs |-> {f},
   ops |-> {"read", "write", "mutate"}, max_ops |-> 2, max_ver |-> 2,
   mishaps |-> faults, max_mishaps |-> 1,
   answers |-> {"strong"}, evicts |-> FALSE]

\* Two clients on a directory and a child: subtree mutations with
\* notifications and gaps, or renames.
Tree(used) ==
  [clients |-> {c1, c2}, addrs |-> {d, f}, ops |-> used, max_ops |-> 2, max_ver |-> 2,
   mishaps |-> {"remove"}, max_mishaps |-> 1,
   answers |-> {"strong", "outage"}, evicts |-> FALSE]

\* One client, whose process crashes and whose store fails and evicts.
Solo ==
  [clients |-> {c1}, addrs |-> {f},
   ops |-> {"read", "write", "mutate", "continue"}, max_ops |-> 4, max_ver |-> 3,
   mishaps |-> {"crash", "read", "swap"}, max_mishaps |-> 2,
   answers |-> {"strong", "weak", "silent", "outage", "refused"}, evicts |-> TRUE]

AllScenarios ==
  {Race({c1, c2}, {"cancel"}), Race({c1, c3}, {"swap"}),
   Tree({"read", "tree", "watch", "lapse"}), Tree({"read", "rename"}), Solo}

ASSUME RunsGuarded == Guarded /\ WriteAhead
=============================================================================
