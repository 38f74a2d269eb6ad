---------------------------- MODULE Coordinator ----------------------------
(***************************************************************************)
(* The Redis-backed replica coordinator of the operator                    *)
(* (internal/coordinator): every replica registers itself in a Redis set,  *)
(* keeps a heartbeat key alive, and periodically rebuilds its own          *)
(* consistent-hash ring from the set.  The ring decides which namespaces   *)
(* the replica reconciles.                                                 *)
(*                                                                         *)
(* Every Redis command is one step: a sync reads the set (SMEMBERS), tests *)
(* one heartbeat key at a time (EXISTS) and removes stale members one at a *)
(* time (SREM), so the commands of different replicas interleave.  Time is *)
(* abstracted to what a TTL can do: a key may expire only when whoever     *)
(* renews it has stopped renewing it.                                      *)
(***************************************************************************)
EXTENDS Naturals, FiniteSets

CONSTANTS
    Replicas,     \* pod names
    Namespaces,   \* the keys looked up in the ring
    Rank,         \* Rank[ns][r]: order in which a clockwise walk from ns meets r
    NoPod,        \* no pod's name
    MaxEvents     \* bound on starts, stops, crashes and Redis errors

ASSUME RankAssumption ==
    /\ Rank \in [Namespaces -> [Replicas -> Nat]]
    /\ \A ns \in Namespaces : \A p, q \in Replicas :
           Rank[ns][p] = Rank[ns][q] => p = q
ASSUME NoPodAssumption == NoPod \notin Replicas
ASSUME BoundAssumption == MaxEvents \in Nat

VARIABLES
    members,   \* the Redis set paprika:coordinator:replicas
    setTTL,    \* whether that set carries an expiry
    hb,        \* pods whose heartbeat key exists
    proc,      \* [Replicas -> replica-local state]
    events     \* environment events so far

vars == <<members, setTTL, hb, proc, events>>

(* pc: where Join / heartbeatLoop / syncRing is.  "joining" lies between   *)
(* the two commands of Join's pipeline.  beat: "fresh" has registered but  *)
(* not ticked yet, "ok" last tick succeeded, "lapsed" not renewing; the    *)
(* code's healthy flag is beat # "lapsed".                                 *)
Local == [pc     : {"down", "idle", "joining", "read", "check", "remove"},
          beat   : {"fresh", "ok", "lapsed"},
          ring   : SUBSET Replicas,
          todo   : SUBSET Replicas,
          clean  : SUBSET Replicas,
          victim : Replicas \cup {NoPod}]

(* NewCoordinator: not registered, an empty ring, not renewing anything.   *)
New(pc) == [pc |-> pc, beat |-> "lapsed", ring |-> {}, todo |-> {},
            clean |-> {}, victim |-> NoPod]

(* What the steps of Join, heartbeatLoop and syncRing do to local state.   *)
StartSync(p, beat) == [p EXCEPT !.pc = "read", !.beat = beat]
Snapshot(p, S) == [p EXCEPT !.pc = "check", !.todo = S, !.clean = {}]
Keep(p, m) == [p EXCEPT !.todo = @ \ {m}, !.clean = @ \cup {m}]
Condemn(p, m) == [p EXCEPT !.pc = "remove", !.todo = @ \ {m}, !.victim = m]
Resume(p) == [p EXCEPT !.pc = "check", !.victim = NoPod]
Rebuild(p) == [p EXCEPT !.pc = "idle", !.ring = p.clean, !.clean = {}]

Up(r) == proc[r].pc # "down"
Healthy(r) == proc[r].beat # "lapsed"

Init == /\ members = {}
        /\ setTTL = "none"
        /\ hb = {}
        /\ proc = [r \in Replicas |-> New("down")]
        /\ events = 0

----------------------------------------------------------------------------
(* Environment events are bounded by MaxEvents. *)
Event == /\ events < MaxEvents
         /\ events' = events + 1

(* Redis deletes an empty set together with its expiry. *)
SetMembers(S) == /\ members' = S
                 /\ setTTL' = IF S = {} THEN "none" ELSE setTTL

(* Ring.Lookup: the first member met clockwise from the key. *)
Lookup(S, ns) == CHOOSE r \in S : \A q \in S : Rank[ns][r] <= Rank[ns][q]

(* Mutant of Matches: an empty ring lets nothing through. *)
MatchesOwned(r, ns) == /\ proc[r].ring # {}
                       /\ Lookup(proc[r].ring, ns) = r
(* RingShardFilter.Matches: an empty ring lets every namespace through. *)
Matches(r, ns) == \/ proc[r].ring = {}
                  \/ Lookup(proc[r].ring, ns) = r

----------------------------------------------------------------------------
(* Join, first pipelined command: SADD replicas self. *)
JoinAdd(r) ==
    /\ ~Up(r)
    /\ Event
    /\ SetMembers(members \cup {r})
    /\ proc' = [proc EXCEPT ![r] = New("joining")]
    /\ UNCHANGED hb

(* Join, second pipelined command: SET heartbeat; then the initial sync.   *)
JoinSet(r) ==
    /\ proc[r].pc = "joining"
    /\ hb' = hb \cup {r}
    /\ proc' = [proc EXCEPT ![r] = StartSync(proc[r], "fresh")]
    /\ UNCHANGED <<members, setTTL, events>>

(* Join whose pipeline fails, before or after the SADD took effect:        *)
(* degraded mode, the heartbeat loop runs but nothing registers the pod    *)
(* again.                                                                  *)
JoinFail(r) ==
    /\ Event
    /\ \/ ~Up(r)
       \/ proc[r].pc = "joining"
    /\ proc' = [proc EXCEPT ![r] = New("idle")]
    /\ UNCHANGED <<members, setTTL, hb>>

(* Mutant of Heartbeat: the tick no longer renews the heartbeat key. *)
HeartbeatNoSet(r) ==
    /\ proc[r].pc = "idle"
    /\ setTTL' = IF members = {} THEN "none" ELSE "rolling"
    /\ proc' = [proc EXCEPT ![r] = StartSync(proc[r], "ok")]
    /\ UNCHANGED <<members, hb, events>>

(* heartbeatLoop tick that reaches Redis: SET heartbeat, EXPIRE replicas,  *)
(* healthy, then syncRing.                                                 *)
Heartbeat(r) ==
    /\ proc[r].pc = "idle"
    /\ hb' = hb \cup {r}
    /\ setTTL' = IF members = {} THEN "none" ELSE "rolling"
    /\ proc' = [proc EXCEPT ![r] = StartSync(proc[r], "ok")]
    /\ UNCHANGED <<members, events>>

(* A tick whose pipeline fails: unhealthy, the ring is left as it was.     *)
HeartbeatFail(r) ==
    /\ proc[r].pc = "idle"
    /\ Event
    /\ proc' = [proc EXCEPT ![r] = [@ EXCEPT !.beat = "lapsed"]]
    /\ UNCHANGED <<members, setTTL, hb>>

----------------------------------------------------------------------------
(* syncRing: SMEMBERS. *)
SyncRead(r) ==
    /\ proc[r].pc = "read"
    /\ proc' = [proc EXCEPT ![r] = Snapshot(proc[r], members)]
    /\ UNCHANGED <<members, setTTL, hb, events>>

(* syncRing: SMEMBERS fails; the old ring stays. *)
SyncReadFail(r) ==
    /\ proc[r].pc = "read"
    /\ Event
    /\ proc' = [proc EXCEPT ![r] = [@ EXCEPT !.pc = "idle"]]
    /\ UNCHANGED <<members, setTTL, hb>>

(* Mutant of CheckMember: a member without a heartbeat is kept. *)
CheckMemberKeeps(r, m) ==
    /\ proc[r].pc = "check" /\ m \in proc[r].todo
    /\ proc' = [proc EXCEPT ![r] = Keep(proc[r], m)]
    /\ UNCHANGED <<members, setTTL, hb, events>>

(* syncRing: EXISTS heartbeat:m.  Present: keep; absent: remove next.      *)
CheckMember(r, m) ==
    /\ proc[r].pc = "check" /\ m \in proc[r].todo
    /\ proc' = [proc EXCEPT ![r] = IF m \in hb THEN Keep(proc[r], m)
                                               ELSE Condemn(proc[r], m)]
    /\ UNCHANGED <<members, setTTL, hb, events>>

(* syncRing: EXISTS fails; the member is kept. *)
CheckMemberFail(r, m) ==
    /\ proc[r].pc = "check" /\ m \in proc[r].todo
    /\ Event
    /\ proc' = [proc EXCEPT ![r] = Keep(proc[r], m)]
    /\ UNCHANGED <<members, setTTL, hb>>

(* syncRing: SREM replicas victim. *)
RemoveMember(r) ==
    /\ proc[r].pc = "remove"
    /\ SetMembers(members \ {proc[r].victim})
    /\ proc' = [proc EXCEPT ![r] = Resume(proc[r])]
    /\ UNCHANGED <<hb, events>>

(* syncRing: SREM fails; its error is not looked at. *)
RemoveMemberFail(r) ==
    /\ proc[r].pc = "remove"
    /\ Event
    /\ proc' = [proc EXCEPT ![r] = Resume(proc[r])]
    /\ UNCHANGED <<members, setTTL, hb>>

(* syncRing: ring.Rebuild(clean). *)
SyncDone(r) ==
    /\ proc[r].pc = "check" /\ proc[r].todo = {}
    /\ proc' = [proc EXCEPT ![r] = Rebuild(proc[r])]
    /\ UNCHANGED <<members, setTTL, hb, events>>

----------------------------------------------------------------------------
(* Leave: the loop has ended; DEL heartbeat, SREM replicas.                *)
Leave(r) ==
    /\ proc[r].pc = "idle"
    /\ Event
    /\ hb' = hb \ {r}
    /\ SetMembers(members \ {r})
    /\ proc' = [proc EXCEPT ![r] = New("down")]

(* The process dies (or Leave's cleanup fails): Redis keeps its entries.   *)
Crash(r) ==
    /\ Up(r)
    /\ Event
    /\ proc' = [proc EXCEPT ![r] = New("down")]
    /\ UNCHANGED <<members, setTTL, hb>>

(* Redis: a heartbeat key expires once its pod stopped renewing it.        *)
ExpireKey(r) ==
    /\ r \in hb
    /\ proc[r].beat = "lapsed"
    /\ hb' = hb \ {r}
    /\ UNCHANGED <<members, setTTL, proc, events>>

(* Redis: the whole set expires once nobody's ticks renew it.              *)
ExpireSet ==
    /\ setTTL = "rolling"
    /\ \A r \in Replicas : proc[r].beat # "ok"
    /\ members' = {}
    /\ setTTL' = "none"
    /\ UNCHANGED <<hb, proc, events>>

----------------------------------------------------------------------------
(* The commands of one replica that make its own loop progress.            *)
Progress(r) ==
    \/ JoinSet(r)
    \/ Heartbeat(r)
    \/ SyncRead(r)
    \/ \E m \in Replicas : CheckMember(r, m)
    \/ RemoveMember(r)
    \/ SyncDone(r)

Environment(r) ==
    \/ JoinAdd(r)
    \/ JoinFail(r)
    \/ HeartbeatFail(r)
    \/ SyncReadFail(r)
    \/ \E m \in Replicas : CheckMemberFail(r, m)
    \/ RemoveMemberFail(r)
    \/ Leave(r)
    \/ Crash(r)

Next ==
    \/ \E r \in Replicas : Progress(r) \/ Environment(r) \/ ExpireKey(r)
    \/ ExpireSet

(* The ticker fires again and again, and Redis drops keys past their TTL.  *)
Fairness ==
    /\ \A r \in Replicas : WF_vars(Progress(r)) /\ WF_vars(ExpireKey(r))
    /\ WF_vars(ExpireSet)

Spec == Init /\ [][Next]_vars
FairSpec == Spec /\ Fairness
----------------------------------------------------------------------------
TypeOK ==
    /\ members \in SUBSET Replicas
    /\ setTTL \in {"none", "rolling"}
    /\ hb \in SUBSET Replicas
    /\ proc \in [Replicas -> Local]
    /\ events \in 0..MaxEvents

Syncing(r) == proc[r].pc \in {"read", "check", "remove"}

(* No replica ever removes itself from the registry: whatever the other    *)
(* replicas and Redis do while syncRing walks the members, the replica's   *)
(* own heartbeat key, set just before the walk, is there when it is        *)
(* tested (heartbeatLoop orders SET before syncRing).                      *)
NoSelfEviction == \A r \in Replicas : proc[r].victim # r

(* The inductive form: while a replica syncs it is renewing its key, the   *)
(* key exists, no victim is itself and none outlives its SREM.             *)
SyncInv ==
    \A r \in Replicas :
        /\ proc[r].victim # r
        /\ proc[r].beat # "lapsed" => /\ Up(r)
                                      /\ r \in hb
        /\ Syncing(r) => proc[r].beat # "lapsed"
        /\ proc[r].victim # NoPod => proc[r].pc = "remove"

(* The inductive invariant: SyncInv with the types (syncRing, heartbeatLoop). *)
IndInv == TypeOK /\ SyncInv

(* Once starts, stops and errors cease, every namespace is reconciled by   *)
(* some running replica for good, if one runs: no divergence of the        *)
(* replicas' rings, eviction race or empty registry leaves a namespace     *)
(* that each replica attributes to another one.                            *)
EventuallyCovered ==
    <>[](\A ns \in Namespaces :
            (\E r \in Replicas : Up(r)) =>
                \E r \in Replicas : Up(r) /\ Matches(r, ns))

(* A replica that stopped or crashed disappears from the ring of every     *)
(* running replica, even when it never cleaned up after itself.            *)
DeadReplicasForgotten ==
    \A r, p \in Replicas :
        (~Up(r) /\ Up(p)) ~>
            (Up(r) \/ ~Up(p) \/ r \notin proc[p].ring)
=============================================================================
