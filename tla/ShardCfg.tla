------------------------------ MODULE ShardCfg ------------------------------
(***************************************************************************)
(* shardkv1/shardcfg: the configuration that assigns shards to replica     *)
(* groups, with Join and Leave and the balancing that follows them.        *)
(*                                                                         *)
(* Join and analyze range over Go maps, so they meet the groups in any     *)
(* order.  Both Join and Leave stop at the first group they cannot handle  *)
(* and return false, but keep what they did before, so the groups that a   *)
(* failed Join leaves behind depend on the order; log.Fatalf ends the      *)
(* process.                                                                *)
(*                                                                         *)
(* An operator Op_fault is Op with a plausible mistake in it.  No          *)
(* specification uses it; put in the place of Op, it violates a property.  *)
(***************************************************************************)
EXTENDS Integers, FiniteSets, FiniteSetsExt, Sequences, SequencesExt

CONSTANTS NShards,
          Gid,          \* the identifiers of groups: positive integers
          ServersOf,    \* the names of the servers a group joins with
          MaxNum,       \* bound on the number of configurations
          MaxLoad       \* the initial minimum of analyze: 257 in the code

ASSUME ShardAssumption ==
    /\ NShards \in Nat \ {0} /\ MaxNum \in Nat /\ MaxLoad \in Nat
    /\ Gid \subseteq Nat \ {0}

VARIABLES Num,      \* cfg.Num
          Shards,   \* cfg.Shards; 0 is no group
          Groups,   \* the domain of cfg.Groups
          result    \* what the last JoinBalance or LeaveBalance returned

vars == <<Num, Shards, Groups, result>>

Shard == 0..NShards - 1

\* MakeShardConfig.
Init ==
    /\ Num = 0
    /\ Shards = [s \in Shard |-> 0]
    /\ Groups = {}
    /\ result = "true"

TypeOK ==
    /\ Num \in 0..MaxNum
    /\ Shards \in [Shard -> Gid \cup {0}]
    /\ Groups \subseteq Gid
    /\ result \in {"true", "false", "fatal"}

-----------------------------------------------------------------------------
(* Balancing. *)

Count(shards, g) == Cardinality({s \in DOMAIN shards : shards[s] = g})

Ascending(groups) == SortSeq(FoldSet(LAMBDA g, list : Append(list, g), <<>>, groups), <)

\* The orders in which Go may iterate the map of the groups.  Bound: ascending or
\* descending, which break every tie between two groups in both ways.
Iterations(groups) == {Ascending(groups), Reverse(Ascending(groups))}

Listed_Unsorted(keys) == keys

\* analyze lists the keys of the map and sorts them: "Enforce deterministic
\* ordering".
Listed(keys) == SortSeq(keys, <)

\* What the loop of analyze finds: the first group of the list with the most and
\* the first with the least shards.  The search for the least begins at MaxLoad.
analyze(shards, keys) ==
    LET groups == Listed(keys)
        counts == {<<g, Count(shards, g)>> : g \in ToSet(keys)}
        mn == Max({c[2] : c \in counts})
        ln == Min({c[2] : c \in counts} \cup {MaxLoad})
        First(n) == SelectInSeq(groups, LAMBDA g : <<g, n>> \in counts)
    IN [mn |-> mn, mg |-> groups[First(mn)],
        ln |-> ln, lg |-> IF ln < MaxLoad THEN groups[First(ln)] ELSE -1]

\* The first loop of Rebalance: the shards, in order, whose group has gone each
\* go to the group that has the least at that moment.
RECURSIVE AssignFrom(_, _, _)
AssignFrom(s, shards, keys) ==
    IF s = NShards THEN shards
    ELSE AssignFrom(s + 1,
                    IF shards[s] \in ToSet(keys) THEN shards ELSE [shards EXCEPT ![s] = analyze(shards, keys).lg],
                    keys)

\* The second loop: the first shard of the most loaded group moves to the least
\* loaded one, until their loads differ by at most one.
RECURSIVE MoveAll(_, _)
MoveAll(shards, keys) ==
    LET a == analyze(shards, keys)
    IN IF a.mn < a.ln + 2 THEN shards
       ELSE MoveAll([shards EXCEPT ![Min({s \in Shard : shards[s] = a.mg})] = a.lg], keys)

Rebalance_AssignOnly(shards, keys) ==
    IF keys = <<>> THEN [s \in Shard |-> 0] ELSE AssignFrom(0, shards, keys)

Rebalance_Afresh(shards, keys) ==
    IF keys = <<>> THEN [s \in Shard |-> 0] ELSE AssignFrom(0, [s \in Shard |-> 0], keys)

\* Rebalance of shards over the groups, which map iteration yields as keys.
Rebalance(shards, keys) ==
    IF keys = <<>> THEN [s \in Shard |-> 0] ELSE MoveAll(AssignFrom(0, shards, keys), keys)

-----------------------------------------------------------------------------
(* Join and Leave. *)

\* The groups of order that are met before the first one that is in bad.
Before(order, bad) == {order[n] : n \in {k \in 1..Len(order) : \A j \in 1..k : order[j] \notin bad}}

Clash(g, groups) == \E h \in groups : ServersOf[g] \cap ServersOf[h] # {}

\* What Join of the groups in order does: a group that is present already ends
\* it with false, and a server of another group, or no group at all, ends the
\* process.
Join(order) ==
    LET met == Before(order, Groups)
        all == met = ToSet(order)
        fatal == order = <<>> \/ \E n \in 1..Len(order) :
                    order[n] \in met /\ Clash(order[n], Groups \cup {order[k] : k \in 1..n - 1})
    IN [groups |-> Groups \cup met,
        result |-> IF fatal THEN "fatal" ELSE IF all THEN "true" ELSE "false"]

\* What Leave of the groups in order does: a group that is absent, or was
\* removed a moment ago, ends it with false.
Leave(order) ==
    LET met == {order[n] : n \in {k \in 1..Len(order) :
                   \A j \in 1..k : order[j] \in Groups /\ \A i \in 1..j - 1 : order[i] # order[j]}}
        all == met = ToSet(order) /\ Cardinality(met) = Len(order)
    IN [groups |-> Groups \ met,
        result |-> IF order = <<>> THEN "fatal" ELSE IF all THEN "true" ELSE "false"]

\* The rest of JoinBalance and LeaveBalance: only a change that succeeded gets a
\* number and is balanced.
Balance(change) ==
    /\ result # "fatal"
    /\ Num < MaxNum
    /\ result' = change.result
    /\ Groups' = change.groups
    /\ Num' = IF change.result = "true" THEN Num + 1 ELSE Num
    /\ IF change.result = "true"
       THEN \E keys \in Iterations(change.groups) : Shards' = Rebalance(Shards, keys)
       ELSE UNCHANGED Shards

JoinBalance(order) == Balance(Join(order))

LeaveBalance(gids) == Balance(Leave(gids))

\* The argument of Leave is a list; that of Join is a map, whose keys are met in
\* any order.  They name at most two groups.
Lists == {<<>>} \cup {<<g>> : g \in Gid} \cup (Gid \X Gid)

Orders == {list \in Lists : IsInjective(list)}

Next ==
    \/ \E order \in Orders : JoinBalance(order)
    \/ \E gids \in Lists : LeaveBalance(gids)

Spec == Init /\ [][Next]_vars

-----------------------------------------------------------------------------
(* Properties. *)

\* What CheckConfig demands, of every configuration that a call reported as a
\* success, also after calls that failed half-way: every shard belongs to a
\* group of the configuration, and no group has two shards more than another.
\* All variables keep their types.
CheckConfig ==
    /\ TypeOK
    /\ (result = "true" /\ Groups # {}) =>
          /\ \A s \in Shard : Shards[s] \in Groups
          /\ \A g, h \in Groups : Count(Shards, g) <= Count(Shards, h) + 1

\* The shards that have to move, whatever the algorithm, from a configuration to
\* one in which the loads of groups differ by at most one: those of groups that
\* have gone, and what the groups hold beyond the share they may keep.
Needed(shards, groups) ==
    LET q == NShards \div Cardinality(groups)
        r == NShards % Cardinality(groups)
        Excess(g, share) == IF Count(shards, g) > share THEN Count(shards, g) - share ELSE 0
        big == Cardinality({g \in groups : Count(shards, g) > q})
    IN Cardinality({s \in Shard : shards[s] \notin groups})
       + FoldSet(LAMBDA g, sum : sum + Excess(g, q), 0, groups)
       - (IF big < r THEN big ELSE r)

\* Rebalance moves no shard more than it has to: each move costs a transfer of
\* the shard between two groups.
MinimalMoves ==
    [][result' = "true" /\ Groups' # {} =>
          Cardinality({s \in Shard : Shards'[s] # Shards[s]}) = Needed(Shards, Groups')]_vars

\* The balancing is deterministic: in whatever order Go iterates the map of the
\* groups, a successful call gives each shard to the same group, so processes that
\* make the call on equal configurations agree (the comment in analyze).  One tie
\* between groups, in any of the moves, that is broken differently is enough.
SameInEveryOrder ==
    [][result' = "true" => \A keys \in Iterations(Groups') : Shards' = Rebalance(Shards, keys)]_vars

=============================================================================
