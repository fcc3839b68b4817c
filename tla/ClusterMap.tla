----------------------------- MODULE ClusterMap -----------------------------
(* The cluster map of src/src/fanout/cluster_map.rs: what one node builds    *)
(* from its CLUSTER NODES reply, and the nodes a fan-out addresses.          *)
(*                                                                           *)
(* A line of the reply is a record of the fields the parser looks at: the    *)
(* node id, its address (NoAddr when there is none that parses), its flags,  *)
(* the id of its master (NoNode when the field is "-") and its slot ranges.  *)
(* Fingerprints are 64-bit hashes of the slots each shard owns; they are     *)
(* modelled by what is hashed, which supposes that no two differing maps of  *)
(* a run collide.                                                            *)
EXTENDS Naturals, Sequences, FiniteSets, SequencesExt

CONSTANTS
    NumSlots,     \* NUM_SLOTS
    NoNode,       \* no such node
    NoAddr        \* a node without a usable address

Slots == 0 .. NumSlots - 1

(* parse_node_line: a line with no single role is refused.                   *)
HasOneRole(line) == ("master" \in line.flags) # ("slave" \in line.flags)

(* parse_node_line, parse_node_address: the node the map is built on keeps a *)
(* placeholder address; any other node needs one of its own.                 *)
ParseNodeLine(line, me) ==
    LET isMaster == "master" \in line.flags
        isLocal == "myself" \in line.flags \/ line.id = me
        usable == "noaddr" \notin line.flags /\ line.addr # NoAddr
    IN  [id |-> line.id,
         isMaster |-> isMaster,
         isLocal |-> isLocal,
         reachable |-> usable \/ isLocal,
         addr |-> IF usable THEN line.addr ELSE NoAddr,
         master |-> IF isMaster THEN NoNode ELSE line.master,
         ranges |-> IF isMaster THEN line.ranges ELSE <<>>]

ValidRange(r) == r[1] <= r[2] /\ r[2] < NumSlots

OwnedSlots(rec) ==
    UNION {rec.ranges[i][1] .. rec.ranges[i][2] :
             i \in {k \in DOMAIN rec.ranges : ValidRange(rec.ranges[k])}}

(* Two different nodes at one address.                                       *)
Collision(recs) ==
    \E a, b \in recs : a.id # b.id /\ a.addr = b.addr /\ a.addr # NoAddr

(* from_cluster_nodes, pass 2: the replicas of shard s.                      *)
ReplicasOf(recs, s) ==
    {r.id : r \in {x \in recs : ~x.isMaster /\ x.reachable /\ x.master = s}}

(* build_slot_to_shard_map: the last range that names a slot decides.        *)
SlotToShard(masters, slot) ==
    LET owners == SelectSeq(masters, LAMBDA r : slot \in OwnedSlots(r))
    IN  IF owners = <<>> THEN NoNode ELSE Last(owners).id

(* check_cluster_map_full: the ranges follow each other from 0 to the last   *)
(* slot.                                                                     *)
CheckClusterMapFull(slotToShard) == \A s \in Slots : slotToShard[s] # NoNode

(* compute_cluster_fingerprint                                               *)
Fingerprint(shards) ==
    {<<s, shards[s].slots>> : s \in DOMAIN shards}

(* from_cluster_nodes: lines is the reply, me the node that asked.           *)
FromClusterNodes(lines, me) ==
    LET parsed == SelectSeq(lines, HasOneRole)
        recSeq == [i \in DOMAIN parsed |-> ParseNodeLine(parsed[i], me)]
        recs == ToSet(recSeq)
        masters == SelectSeq(recSeq, LAMBDA r : r.isMaster /\ r.reachable)
        shards == [s \in {r.id : r \in ToSet(masters)} |->
                     LET r == CHOOSE x \in ToSet(masters) : x.id = s
                     IN  [primary |-> s,
                          replicas |-> ReplicasOf(recs, s),
                          slots |-> OwnedSlots(r)]]
        slotToShard == [s \in Slots |-> SlotToShard(masters, s)]
        orphans == {r \in recs : /\ ~r.isMaster /\ r.reachable
                                 /\ r.master # NoNode
                                 /\ r.master \notin DOMAIN shards}
        mute == {r \in recs : r.isMaster /\ ~r.reachable /\ r.ranges # <<>>}
        badRanges == {r \in recs : \E i \in DOMAIN r.ranges :
                                      ~ValidRange(r.ranges[i])}
    IN  [shards |-> shards,
         slotToShard |-> slotToShard,
         fingerprint |-> Fingerprint(shards),
         consistent |-> /\ Len(parsed) = Len(lines)
                        /\ ~Collision(recs)
                        /\ orphans = {} /\ mute = {} /\ badRanges = {}
                        /\ CheckClusterMapFull(slotToShard)]

(* ClusterMap::default, the map before the first refresh: no shards, and the *)
(* fingerprint 0 that no peer checks.                                        *)
NoFingerprint == {}
DefaultMap ==
    [shards |-> [s \in {} |-> 0], slotToShard |-> [s \in Slots |-> NoNode],
     fingerprint |-> NoFingerprint, consistent |-> FALSE]

(* same_topology                                                             *)
SameTopology(a, b) == a.shards = b.shards

(* pick_target without replica preference: any node of the shard.            *)
PickTarget(shard) == {shard.primary} \cup shard.replicas

(* get_shard_by_slot                                                         *)
ShardBySlot(map, slot) == map.slotToShard[slot]

(* random_one_per_shard: the target sets it may return.                      *)
RandomOnePerShard(map) ==
    {{pick[s] : s \in DOMAIN map.shards} :
        pick \in {p \in [DOMAIN map.shards ->
                           UNION {PickTarget(map.shards[s]) : s \in DOMAIN map.shards}] :
                    \A s \in DOMAIN map.shards : p[s] \in PickTarget(map.shards[s])}}

(* random_for_slots: a pick of its own for every slot that has a shard.      *)
RandomForSlots(map, slots) ==
    LET routed == {s \in slots : ShardBySlot(map, s) # NoNode}
        shardOf(s) == map.shards[ShardBySlot(map, s)]
    IN  {{pick[s] : s \in routed} :
            pick \in {p \in [routed -> UNION {PickTarget(shardOf(s)) : s \in routed}] :
                        \A s \in routed : p[s] \in PickTarget(shardOf(s))}}

(* primary_targets *)
PrimaryTargets(map) == {map.shards[s].primary : s \in DOMAIN map.shards}

(* get_targets for FanoutTarget::HashTagsPrimary                             *)
PrimariesForSlots(map, slots) ==
    {map.shards[ShardBySlot(map, s)].primary :
        s \in {t \in slots : ShardBySlot(map, t) # NoNode}}

(* get_targets: the target sets a mode may produce. The modes are the ones a *)
(* command asks for; a hash tag is the slot calculate_hash_slot gives it.    *)
GetTargets(map, mode, slots) ==
    CASE mode = "Random" -> RandomOnePerShard(map)
      [] mode = "Primary" -> {PrimaryTargets(map)}
      [] mode = "HashTags" -> RandomForSlots(map, slots)
      [] mode = "HashTagsPrimary" -> {PrimariesForSlots(map, slots)}
=============================================================================
