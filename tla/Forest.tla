-------------------------------- MODULE Forest --------------------------------
(***************************************************************************)
(* The process tree and the ancestors that commands show                   *)
(* (correlation/process_tree.py, process_network.py), of one snapshot.  A  *)
(* PID may be of a process that has ended, or have a new holder, and a     *)
(* creation time may be unknown, so that two processes may each pass for   *)
(* the other's parent.  The recursion that builds the tree is a step for   *)
(* each node; byPid is the mapping that the functions are given.           *)
(***************************************************************************)
EXTENDS Integers, Sequences, FiniteSets, SequencesExt

CONSTANTS
  TreePids,  \* positive numbers
  Times,     \* creation times; 0 if it is unknown
  MaxDepth   \* the depth beyond which nothing is shown

ASSUME ForestAssumption ==
  /\ TreePids \subseteq Nat \ {0} /\ IsFiniteSet(TreePids)
  /\ Times \subseteq Nat /\ MaxDepth \in Nat

VARIABLES
  snapshot,  \* the processes: PID -> its parent's PID, its creation time
  shown      \* the nodes in the order they are shown; a node's children come after it

forestVars == <<snapshot, shown>>

NoParent == 0   \* ppid is None or the Idle process
Snapshots ==
  UNION {[S -> [ppid : TreePids \cup {NoParent}, created : Times]] :
           S \in (SUBSET TreePids) \ {{}}}

(***************************************************************************)
(* Parents                                                                 *)
(***************************************************************************)
\* verified_parent: the holder of the parent's PID, unless it is the younger one.
VerifiedParents(byPid, p) ==
  {q \in DOMAIN byPid \ {p} :
     /\ q = byPid[p].ppid
     /\ \/ 0 \in {byPid[p].created, byPid[q].created}
        \/ byPid[q].created <= byPid[p].created}

ClaimsParent(byPid, p) == byPid[p].ppid \notin {NoParent, p}
Children(byPid, p) == {c \in DOMAIN byPid : p \in VerifiedParents(byPid, c)}
Roots(byPid) == {p \in DOMAIN byPid : VerifiedParents(byPid, p) = {}}

\* Who is above p on a chain of its ancestors, and who may be its next one.
Top(p, chain) == IF chain = <<>> THEN p ELSE Last(chain)
FurtherUp(byPid, p, chain) == VerifiedParents(byPid, Top(p, chain)) \ ({p} \cup ToSet(chain))

\* ancestry, nearest first, up to a limit, and never twice the same.
Climb(byPid, p, limit) ==
  LET chain[i \in 0..limit] ==
        IF i = 0 THEN <<>>
        ELSE LET nearer == chain[i - 1]
                 up == FurtherUp(byPid, p, nearer)
             IN  IF up = {} THEN nearer ELSE Append(nearer, CHOOSE q \in up : TRUE)
  IN  chain
Ancestry(byPid, p, limit) == Climb(byPid, p, limit)[limit]

\* Fault: a chain that comes back to itself is taken for one that is too long.
LongChain(byPid, p) == Len(Ancestry(byPid, p, Cardinality(DOMAIN byPid) + 1)) >= MaxDepth

BeyondDepth(byPid, p) ==
  LET chain == Ancestry(byPid, p, Cardinality(DOMAIN byPid) + 1)
  IN  Len(chain) >= MaxDepth /\ VerifiedParents(byPid, Top(p, chain)) = {}

(***************************************************************************)
(* build_process_tree                                                      *)
(***************************************************************************)
\* Oldest first, then by PID.
Before(byPid, p, q) ==
  \/ byPid[p].created < byPid[q].created
  \/ byPid[p].created = byPid[q].created /\ p <= q
Oldest(byPid, S) == CHOOSE p \in S : \A q \in S : Before(byPid, p, q)

Node(p, parent, verified, depth) ==
  [process |-> p, parent |-> parent, verified |-> verified, depth |-> depth]

Reached(nodes) == {nodes[i].process : i \in DOMAIN nodes}
Unreached(nodes, S) == S \ Reached(nodes)

\* build's calls that still have a child to show; the innermost is of the latest node.
Building(byPid, nodes) ==
  {i \in DOMAIN nodes : /\ nodes[i].depth < MaxDepth
                        /\ Unreached(nodes, Children(byPid, nodes[i].process)) # {}}

\* What no root reaches, and the depth is not the reason.
LeftOver(byPid, nodes) ==
  {p \in Unreached(nodes, DOMAIN byPid) : ~BeyondDepth(byPid, p)}

Show(node) == shown' = Append(shown, node) /\ UNCHANGED snapshot

ShowChild ==
  LET above == shown[Max(Building(snapshot, shown))]
      c == Oldest(snapshot, Unreached(shown, Children(snapshot, above.process)))
  IN  /\ Building(snapshot, shown) # {}
      /\ Show(Node(c, above.process, TRUE, above.depth + 1))

ShowRoot ==
  LET p == Oldest(snapshot, Unreached(shown, Roots(snapshot)))
  IN  /\ Building(snapshot, shown) = {} /\ Unreached(shown, Roots(snapshot)) # {}
      /\ Show(Node(p, NoParent, ~ClaimsParent(snapshot, p), 0))

ShowLeftOver ==
  LET p == Oldest(snapshot, LeftOver(snapshot, shown))
  IN  /\ Building(snapshot, shown) = {} /\ Unreached(shown, Roots(snapshot)) = {}
      /\ LeftOver(snapshot, shown) # {}
      /\ Show(Node(p, NoParent, FALSE, 0))

Complete ==
  /\ Building(snapshot, shown) = {} /\ Unreached(shown, Roots(snapshot)) = {}
  /\ LeftOver(snapshot, shown) = {}

InitForest == snapshot = <<>> /\ shown = <<>>
Collect == snapshot = <<>> /\ snapshot' \in Snapshots /\ UNCHANGED shown
NextForest == Collect \/ ShowChild \/ ShowRoot \/ ShowLeftOver

-----------------------------------------------------------------------------

\* Who is n links below a process without a verified parent, by counting down.
Levels(byPid) ==
  LET level[n \in 0..Cardinality(DOMAIN byPid)] ==
        IF n = 0 THEN Roots(byPid) ELSE UNION {Children(byPid, p) : p \in level[n - 1]}
  IN  level
Level(byPid, n) == Levels(byPid)[n]

\* The tree shows every process once, with its verified parent above it and as deep as
\* the ancestors "inspect" lists for it, except those more than MaxDepth below a process
\* without a parent.  A process is at the top only if it has no verified parent, and is
\* then called verified if it claims none; or if its ancestors never end.
EveryProcessIsShown ==
  LET size == Cardinality(DOMAIN snapshot)
      beyond == UNION {Level(snapshot, n) : n \in MaxDepth + 1..size}
      endless == DOMAIN snapshot \ UNION {Level(snapshot, n) : n \in 0..size}
  IN  /\ Complete => Reached(shown) = DOMAIN snapshot \ beyond
      /\ \A i, j \in DOMAIN shown : shown[i].process = shown[j].process => i = j
      /\ \A i \in DOMAIN shown :
           LET node == shown[i]
               chain == Ancestry(snapshot, node.process, size)
           IN  IF node.parent # NoParent
               THEN /\ VerifiedParents(snapshot, node.process) = {node.parent}
                    /\ node.verified /\ Head(chain) = node.parent
                    /\ \E j \in 1..i - 1 :
                         shown[j].process = node.parent /\ shown[j].depth = node.depth - 1
                    /\ node.process \notin endless => node.depth = Len(chain)
               ELSE /\ \/ VerifiedParents(snapshot, node.process) = {}
                       \/ node.process \in endless
                    /\ node.verified <=> ~ClaimsParent(snapshot, node.process)
=============================================================================
