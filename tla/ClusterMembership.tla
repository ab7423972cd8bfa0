------------------------- MODULE ClusterMembership -------------------------
(***************************************************************************)
(* Who belongs to a cluster: the cluster-manager's admissions, pins,       *)
(* endorsements and removal proofs, and the rosters members exchange.      *)
(*                                                                         *)
(* Every node numbers its own admissions (epochs); 0 is "not in a cluster".*)
(* A node pins the members it trusts, each at one admission.  A pin comes  *)
(* from pairing or from a roster entry endorsed by a trusted member; it    *)
(* goes with a removal proof, a bare rejection or a teardown.  Reconcile   *)
(* calls cross the network: they are sent, handled and answered at         *)
(* different times and may be lost at each of them.                        *)
(*                                                                         *)
(* One cluster; a member row and its pin change together under rosterMu,   *)
(* so the pin stands for both; certificates and signatures are the names   *)
(* and admissions they bind.  The handshake that precedes a pairing's      *)
(* commit, and peer addresses, are not part of this module.                *)
(***************************************************************************)
EXTENDS Naturals, FiniteSets, SequencesExt

CONSTANTS N,            \* the nodes are 1..N, in the order of their UUIDs
          MaxEpoch,     \* bound on the admissions of a node
          MaxJoins,     \* bound on pairings
          MaxCalls,     \* bound on reconcile calls in flight
          MaxPasses,    \* bound on reconcile passes open at once
          MaxRemovals,  \* bound on removals and departures
          MaxRestarts   \* bound on restarts

ASSUME MembershipAssumption ==
  /\ N \in Nat \ {0}
  /\ {MaxEpoch, MaxJoins, MaxCalls, MaxPasses, MaxRemovals, MaxRestarts} \subseteq Nat
  /\ MaxEpoch > 0

Node == 1..N
Epoch == 1..MaxEpoch

VARIABLES
  local,    \* local[n]: what n keeps on disk
  rpc,      \* rpc[n]: the broker request n's read loop is in
  pass,     \* pass[n]: n's periodic reconcile pass
  calls,    \* the reconcile calls in flight
  notices,  \* the members/remove requests in flight
  removed,  \* ghost: the admissions somebody decided to end
  restarts  \* how often a manager has restarted

memVars == <<local, rpc, pass, calls, notices, removed, restarts>>

\* TrustedPin.Endorsements of one node: who vouches for which admission of it.
Endorsement == [by : Node, byEpoch : Epoch, epoch : Epoch]

\* RemovalProof.Endorsements: who vouches for the remover's admission.
Relay == [by : Node, byEpoch : Epoch, signer : Node, signerEpoch : Epoch]

\* A removal proof of one node; epoch 0 is no proof.
Proof == [epoch : 0..MaxEpoch, by : 0..N, byEpoch : 0..MaxEpoch, relays : SUBSET Relay]
NoProof == [epoch |-> 0, by |-> 0, byEpoch |-> 0, relays |-> {}]

NoPins == [m \in Node |-> 0]
NoEnds == [m \in Node |-> {}]
NoProofs == [m \in Node |-> NoProof]

\* A machine that was never admitted anywhere.
Blank == [epoch |-> 0, counter |-> 0, pins |-> NoPins, ends |-> NoEnds,
          proofs |-> NoProofs, tombs |-> NoPins]

IdleRpc == [op |-> "idle"]
NoPass == [open |-> FALSE, peers |-> NoPins, done |-> {}, rejected |-> {},
           proven |-> {}, stale |-> FALSE]

Clustered(s) == s.epoch # 0
Pinned(s) == {m \in Node : s.pins[m] # 0}

-----------------------------------------------------------------------------
(* What a manager does to its own state.                                   *)

\* Mutant: a teardown forgets the pins.
teardownKeepsTrust(s) == [Blank EXCEPT !.counter = s.counter, !.pins = s.pins]

\* teardownClusterLocal: everything goes but the admission counter.
teardown(s) == [Blank EXCEPT !.counter = s.counter]

\* trustStore.Remove, with the member row.
Unpin(s, m) == [s EXCEPT !.pins[m] = 0, !.ends[m] = {}]

\* trustStore.Pin: a newer admission replaces the pin and joins the
\* endorsements, the same one joins them, an older one is ignored.
Pin(s, m, epoch, ends) ==
  IF epoch < s.pins[m] THEN s
  ELSE [s EXCEPT !.pins[m] = epoch, !.ends[m] = @ \cup ends]

\* clearRemovalProofAfterAdmission: only for a strictly newer admission.
clearProof(s, m, epoch) ==
  IF epoch > s.proofs[m].epoch THEN [s EXCEPT !.proofs[m] = NoProof] ELSE s

\* putTombstone: the mirror of a proof for older peers; the newest stays.
putTombstone(s, m, epoch) ==
  IF epoch > s.tombs[m] THEN [s EXCEPT !.tombs[m] = epoch] ELSE s

\* trustedAdmissionEpoch, 0 when m is not trusted.
trustedEpoch(n, s, m) == IF m = n THEN s.epoch ELSE s.pins[m]

\* newRemovalProof
newRemovalProof(n, s, epoch) ==
  [epoch |-> epoch, by |-> n, byEpoch |-> s.epoch, relays |-> {}]

\* withLocalRelayEndorsement
withLocalRelay(n, s, p) ==
  IF ~Clustered(s) THEN p
  ELSE [p EXCEPT !.relays = @ \cup {[by |-> n, byEpoch |-> s.epoch,
                                     signer |-> p.by, signerEpoch |-> p.byEpoch]}]

\* verifyRemovalProof: signed by a member trusted in that very admission, or
\* by one whom such a member vouches for.  Its own signature needs no relay,
\* and no relay helps it.
verifyRemovalProof(n, s, p) ==
  /\ p.epoch # 0
  /\ \/ trustedEpoch(n, s, p.by) = p.byEpoch
     \/ /\ p.by # n
        /\ \E r \in p.relays :
             /\ r.signer = p.by /\ r.signerEpoch = p.byEpoch
             /\ trustedEpoch(n, s, r.by) = r.byEpoch

\* putRemovalProof: what is kept when p is stored next to the proof held.
Stored(n, s, m, p) ==
  LET q == withLocalRelay(n, s, p)
  IN IF s.proofs[m].epoch = q.epoch
     THEN [q EXCEPT !.relays = @ \cup s.proofs[m].relays] ELSE q

\* putRemovalProof fails: p is news, and m is not known here in that admission.
PutFails(n, s, m, p) ==
  /\ s.proofs[m].epoch <= p.epoch
  /\ Stored(n, s, m, p) # s.proofs[m]
  /\ trustedEpoch(n, s, m) # p.epoch

\* putRemovalProof, when it does not fail.
putRemovalProof(n, s, m, p) ==
  IF s.proofs[m].epoch > p.epoch THEN s
  ELSE [s EXCEPT !.proofs[m] = Stored(n, s, m, p)]

\* applyRemovalProofs, one proof: persist it, then drop the admission it names.
applyProof(n, s, m, p) ==
  LET kept == putTombstone(putRemovalProof(n, s, m, p), m, p.epoch)
  IN CASE m = n \/ ~verifyRemovalProof(n, s, p) \/ PutFails(n, s, m, p) -> s
       [] OTHER ->
            IF s.pins[m] \in {0, p.epoch} THEN Unpin(kept, m)
            ELSE IF s.pins[m] > p.epoch THEN clearProof(kept, m, s.pins[m])
            ELSE kept

\* applyRemovalProofs: in the order of the victims' UUIDs.
applyRemovalProofs(n, s, proofs) ==
  LET applied[k \in 0..N] ==
        IF k = 0 THEN s ELSE applyProof(n, applied[k - 1], k, proofs[k])
  IN applied[N]

\* entryEndorsed: somebody trusted in the endorsing admission vouches for
\* this very admission of the entry's node.
entryEndorsed(n, s, epoch, ends) ==
  \E e \in ends : e.epoch = epoch /\ trustedEpoch(n, s, e.by) = e.byEpoch

\* Mutant: off by one, the removed admission itself is let back in.
supersededByOne(s, m, epoch) ==
  IF s.proofs[m].epoch # 0 THEN epoch < s.proofs[m].epoch ELSE epoch < s.tombs[m]

\* supersededByTombstone: the proof decides, and its mirror where it is gone.
superseded(s, m, epoch) ==
  IF s.proofs[m].epoch # 0 THEN epoch <= s.proofs[m].epoch ELSE epoch <= s.tombs[m]

\* Mutant: an entry replaces the pin whatever admission it is of.
applyEntryAnyEpoch(n, s, m, epoch, ends) ==
  IF epoch # s.pins[m] /\ ~superseded(s, m, epoch) /\ entryEndorsed(n, s, epoch, ends)
  THEN [clearProof([s EXCEPT !.pins[m] = epoch, !.ends[m] = ends], m, epoch) EXCEPT !.tombs[m] = 0]
  ELSE s

\* applyMembers, one entry: pin it if it is new and vouched for, else enrich
\* the endorsements of the pin.
applyEntry(n, s, m, epoch, ends) ==
  CASE epoch > s.pins[m] /\ ~superseded(s, m, epoch) /\ entryEndorsed(n, s, epoch, ends) ->
         [clearProof(Pin(s, m, epoch, ends), m, epoch) EXCEPT !.tombs[m] = 0]
    [] epoch <= s.pins[m] -> [s EXCEPT !.ends[m] = @ \cup ends]
    [] OTHER -> s

\* applyMembers: sweeps over the entries, in the order the sender lists them,
\* until nothing is new; as many sweeps as there are entries are enough.  The
\* sender's own entry carries no endorsement and pins nothing.
applyMembers(n, s, roster, order) ==
  LET L == Len(order)
      entry(k) == order[((k - 1) % L) + 1]
      applied[k \in 0..(L * L)] ==
        IF k = 0 THEN s
        ELSE applyEntry(n, applied[k - 1], entry(k), roster.pins[entry(k)],
                        roster.ends[entry(k)])
  IN applied[L * L]

\* buildLocalRoster.  Tombstones of admission-aware nodes are ignored by the
\* receiver (applyTombstones) and left out.
buildLocalRoster(s) ==
  [clustered |-> Clustered(s), pins |-> s.pins, ends |-> s.ends, proofs |-> s.proofs]

\* mergeRosterLocked
mergeRoster(n, s, roster, order) ==
  IF ~Clustered(s) \/ ~roster.clustered THEN s
  ELSE applyMembers(n, applyRemovalProofs(n, s, roster.proofs), roster, order)

\* The orders in which sender may list the members that can matter to n:
\* trustStore.List ranges over a map.
Orders(n, sender) == SetToSeqs(Node \ {n, sender})

\* replayRemovalProofs, at startup.
replayProofs(n, s) ==
  LET replay(t, m) ==
        IF m # n /\ verifyRemovalProof(n, t, t.proofs[m]) /\ t.pins[m] = t.proofs[m].epoch
        THEN Unpin(t, m) ELSE t
      replayed[k \in 0..N] == IF k = 0 THEN s ELSE replay(replayed[k - 1], k)
  IN IF Clustered(s) THEN replayed[N] ELSE s

-----------------------------------------------------------------------------
(* A cluster of N: node 1 founded it and paired with each of the others,   *)
(* who have not heard of each other yet.                                   *)

Vouch(n, epoch) == {[by |-> n, byEpoch |-> 1, epoch |-> epoch]}

MemInit ==
  /\ local = [n \in Node |->
       [Blank EXCEPT !.epoch = 1, !.counter = 1,
          !.pins = [m \in Node |-> IF m # n /\ (m = 1 \/ n = 1) THEN 1 ELSE 0],
          !.ends = [m \in Node |-> IF m # n /\ (m = 1 \/ n = 1) THEN Vouch(n, 1) ELSE {}]]]
  /\ rpc = [n \in Node |-> IdleRpc]
  /\ pass = [n \in Node |-> NoPass]
  /\ calls = {}
  /\ notices = {}
  /\ removed = {}
  /\ restarts = 0

\* Mutant: a pass does not notice that the membership changed.
NeverStaled(n, s, p) == p

\* n's state becomes s.  A change of the membership bumps clusterGen, which
\* voids the verdict of a pass that is open.
Staled(n, s, p) ==
  IF p.stale \/ (p.open /\ (s.pins # local[n].pins \/ s.epoch # local[n].epoch))
  THEN [p EXCEPT !.stale = TRUE, !.rejected = {}, !.proven = {}] ELSE p

Becomes(n, s) ==
  /\ local' = [local EXCEPT ![n] = s]
  /\ pass' = [pass EXCEPT ![n] = Staled(n, s, @)]

-----------------------------------------------------------------------------
(* Pairing: the inviter commits first, then the joiner.                    *)

\* removalProofBlocksAdmission
blocksAdmission(s, m, epoch) == s.proofs[m].epoch # 0 /\ epoch <= s.proofs[m].epoch

\* The admissions reserved since the start.
Joins == {<<n, e>> \in Node \X Epoch : 1 < e /\ e <= local[n].counter}

\* handlePairingInitial reserves j's next admission; commitPairing at the
\* inviter i.  j's read loop waits in cluster:respond-to-invite.
InviterCommit(i, j) ==
  LET epoch == local[j].counter + 1
      ends == {[by |-> i, byEpoch |-> local[i].epoch, epoch |-> epoch]}
  IN /\ Clustered(local[i]) /\ ~Clustered(local[j])
     /\ rpc[j].op = "idle"
     /\ epoch <= MaxEpoch /\ Cardinality(Joins) < MaxJoins
     /\ ~blocksAdmission(local[i], j, epoch)
     /\ local' = [local EXCEPT ![i] = clearProof(Pin(@, j, epoch, ends), j, epoch),
                               ![j].counter = epoch]
     /\ pass' = [pass EXCEPT ![i] = Staled(i, local'[i], @)]
     /\ rpc' = [rpc EXCEPT ![j] = [op |-> "join", inviter |-> i, epoch |-> epoch,
                                   inviterEpoch |-> local[i].epoch]]
     /\ UNCHANGED <<calls, notices, removed, restarts>>

\* handleRespondToInvite, its commit: member and pin, then the admission.
JoinerCommit(j) ==
  LET r == rpc[j]
      ends == {[by |-> j, byEpoch |-> r.epoch, epoch |-> r.inviterEpoch]}
  IN /\ r.op = "join"
     /\ Becomes(j, [Pin(local[j], r.inviter, r.inviterEpoch, ends) EXCEPT !.epoch = r.epoch])
     /\ rpc' = [rpc EXCEPT ![j] = IdleRpc]
     /\ UNCHANGED <<calls, notices, removed, restarts>>

\* The joiner never learns that the inviter committed, or gives up: its plain
\* "fail" signal does not roll a committed pair back.
JoinerAbort(j) ==
  /\ rpc[j].op = "join"
  /\ rpc' = [rpc EXCEPT ![j] = IdleRpc]
  /\ UNCHANGED <<local, pass, calls, notices, removed, restarts>>

\* The joiner cannot persist its side and says so over mTLS: the inviter drops
\* the pair it has not seen acknowledged (handlePairingTerminalSignal).
JoinerRollback(j) ==
  LET i == rpc[j].inviter
  IN /\ rpc[j].op = "join"
     /\ local[i].pins[j] = rpc[j].epoch
     /\ Becomes(i, Unpin(local[i], j))
     /\ rpc' = [rpc EXCEPT ![j] = IdleRpc]
     /\ UNCHANGED <<calls, notices, removed, restarts>>

-----------------------------------------------------------------------------
(* Removing a member, and leaving.                                         *)

\* handleNodesRemove, phase 1: the proof is durable before anybody is told.
RemovePrepare(i, v) ==
  LET p == newRemovalProof(i, local[i], local[i].pins[v])
  IN /\ i # v /\ rpc[i].op = "idle"
     /\ Clustered(local[i]) /\ local[i].pins[v] # 0
     /\ Cardinality(removed) < MaxRemovals
     /\ local' = [local EXCEPT
          ![i] = putTombstone(putRemovalProof(i, @, v, p), v, p.epoch)]
     /\ rpc' = [rpc EXCEPT ![i] = [op |-> "remove", victim |-> v, epoch |-> p.epoch,
                                   selfEpoch |-> local[i].epoch]]
     /\ notices' = notices \cup {[to |-> v, from |-> i,
                                  proof |-> local'[i].proofs[v]]}
     /\ removed' = removed \cup {<<v, p.epoch>>}
     /\ UNCHANGED <<pass, calls, restarts>>

\* handleNodesRemove, phase 2: recheck, then drop the pin.
RemoveCommit(i) ==
  LET r == rpc[i]
  IN /\ r.op = "remove"
     /\ IF local[i].epoch = r.selfEpoch /\ local[i].pins[r.victim] = r.epoch
        THEN Becomes(i, Unpin(local[i], r.victim))
        ELSE UNCHANGED <<local, pass>>
     /\ rpc' = [rpc EXCEPT ![i] = IdleRpc]
     /\ UNCHANGED <<calls, notices, removed, restarts>>

\* handleMembersRemove: what the victim checks.
NoticeHolds(c) ==
  /\ Clustered(local[c.to])
  /\ local[c.to].pins[c.from] # 0
  /\ c.proof.epoch = local[c.to].epoch
  /\ c.proof.by = c.from
  /\ verifyRemovalProof(c.to, local[c.to], c.proof)

\* notifyPeerRemoval reaches the victim, perhaps after the remover gave up.
\* One that is lost is one that is never handled.
HandleMembersRemove(c) ==
  /\ IF NoticeHolds(c) THEN Becomes(c.to, teardown(local[c.to]))
                       ELSE UNCHANGED <<local, pass>>
  /\ notices' = notices \ {c}
  /\ UNCHANGED <<rpc, calls, removed, restarts>>

\* leaveCluster: a proof signed by the leaver itself, pushed to whoever hears it.
LeaveStart(n) ==
  LET p == newRemovalProof(n, local[n], local[n].epoch)
  IN /\ rpc[n].op = "idle" /\ Clustered(local[n])
     /\ Cardinality(removed) < MaxRemovals
     /\ local' = [local EXCEPT ![n] = putTombstone(putRemovalProof(n, @, n, p), n, p.epoch)]
     /\ rpc' = [rpc EXCEPT ![n] = [op |-> "leave"]]
     /\ removed' = removed \cup {<<n, p.epoch>>}
     /\ UNCHANGED <<pass, calls, notices, restarts>>

\* leaveCluster: the pushes are over or timed out.
LeaveFinish(n) ==
  /\ rpc[n].op = "leave"
  /\ Becomes(n, teardown(local[n]))
  /\ rpc' = [rpc EXCEPT ![n] = IdleRpc]
  /\ UNCHANGED <<calls, notices, removed, restarts>>

-----------------------------------------------------------------------------
(* Reconciling rosters.                                                    *)

OpenPasses == {n \in Node : pass[n].open}
NoRoster == buildLocalRoster(Blank)

\* A round of reconcile calls to every member: the periodic pass, whose
\* rejections have consequences (reconcilePeersAndMaybeSelfRemove), or the
\* push after a pairing, a removal or a leave (reconcileAllMembers).  The two
\* differ in how they end.
StartRound(n) ==
  /\ ~pass[n].open
  /\ Clustered(local[n]) /\ Pinned(local[n]) # {}
  /\ Cardinality(OpenPasses) < MaxPasses
  /\ pass' = [pass EXCEPT ![n] = [NoPass EXCEPT !.open = TRUE, !.peers = local[n].pins]]
  /\ UNCHANGED <<local, rpc, calls, notices, removed, restarts>>

Waiting(n) ==
  {m \in Node : /\ pass[n].peers[m] # 0 /\ m \notin pass[n].done
                /\ \A c \in calls : ~(c.from = n /\ c.to = m)}

\* reconcileWith, up to the request: the roster and the admissions at both ends.
ReconcileSend(n, m) ==
  /\ pass[n].open /\ m \in Waiting(n)
  /\ IF local[n].pins[m] = 0
     THEN /\ pass' = [pass EXCEPT ![n].done = @ \cup {m}]
          /\ UNCHANGED calls
     ELSE /\ Cardinality(calls) < MaxCalls
          /\ calls' = calls \cup
               {[from |-> n, to |-> m, epoch |-> local[n].epoch, pin |-> local[n].pins[m],
                 phase |-> "sent", roster |-> buildLocalRoster(local[n]),
                 seen |-> <<0, 0>>, proof |-> NoProof]}
          /\ UNCHANGED pass
  /\ UNCHANGED <<local, rpc, notices, removed, restarts>>

Replace(c, d) == calls' = (calls \ {c}) \cup {d}
Rejected(c, p) == [c EXCEPT !.phase = "rejected", !.roster = NoRoster,
                            !.seen = <<0, 0>>, !.proof = p]

\* handleRoster, before the body is read: an unpinned caller gets a 403 with
\* the removal proof held against it, if any (rejectRosterReconcile).
HandleRosterBegin(c) ==
  LET s == local[c.to]
  IN /\ c.phase = "sent"
     /\ Replace(c, IF s.pins[c.from] = 0 THEN Rejected(c, s.proofs[c.from])
                   ELSE [c EXCEPT !.phase = "reading",
                                  !.seen = <<s.pins[c.from], s.epoch>>])
     /\ UNCHANGED <<local, rpc, pass, notices, removed, restarts>>

\* handleRoster, after the body is read: recheck, then merge.
HandleRosterMerge(c) ==
  LET s == local[c.to]
  IN /\ c.phase = "reading"
     /\ IF <<s.pins[c.from], s.epoch>> = c.seen
        THEN /\ \E order \in Orders(c.to, c.from) :
                  Becomes(c.to, mergeRoster(c.to, s, c.roster, order))
             /\ Replace(c, [c EXCEPT !.phase = "merged", !.roster = NoRoster,
                                     !.seen = <<0, 0>>])
        ELSE /\ Replace(c, Rejected(c, NoProof))
             /\ UNCHANGED <<local, pass>>
     /\ UNCHANGED <<rpc, notices, removed, restarts>>

\* handleRoster, the reply: built after rosterMu is released.
HandleRosterReply(c) ==
  /\ c.phase = "merged"
  /\ Replace(c, [c EXCEPT !.phase = "accepted", !.roster = buildLocalRoster(local[c.to])])
  /\ UNCHANGED <<local, rpc, pass, notices, removed, restarts>>

\* rejectionProvesRemoval: the proof names n's current admission, verifies,
\* and the peer that sends it is its signer or one of its relays.
provesRemoval(n, s, relay, p) ==
  /\ Clustered(s) /\ p.epoch = s.epoch
  /\ verifyRemovalProof(n, s, p)
  /\ p.by = relay \/ \E r \in p.relays : r.by = relay

\* reconcileOnce: n and the peer are still in the admissions of the request.
Fresh(c) == /\ Clustered(local[c.from])
            /\ local[c.from].epoch = c.epoch
            /\ local[c.from].pins[c.to] = c.pin

\* reconcileOnce, the answer.
ReconcileReceive(c) ==
  LET n == c.from
      s == local[n]
      p == [pass[n] EXCEPT !.done = @ \cup {c.to}]
      rejected == Fresh(c) /\ c.phase = "rejected"
      proven == rejected /\ provesRemoval(n, s, c.to, c.proof)
      noted == [p EXCEPT !.rejected = IF rejected THEN @ \cup {c.to} ELSE @,
                         !.proven = IF proven THEN @ \cup {c.to} ELSE @]
  IN /\ c.phase \in {"accepted", "rejected"}
     /\ \E order \in Orders(n, c.to) :
          LET t == IF Fresh(c) /\ c.phase = "accepted"
                   THEN mergeRoster(n, s, c.roster, order) ELSE s
          IN /\ local' = [local EXCEPT ![n] = t]
             /\ pass' = [pass EXCEPT ![n] = Staled(n, t, noted)]
     /\ calls' = calls \ {c}
     /\ UNCHANGED <<rpc, notices, removed, restarts>>

\* The request, or its answer, is lost, or the caller's timeout comes first.
ReconcileLost(c) ==
  /\ pass' = [pass EXCEPT ![c.from].done = @ \cup {c.to}]
  /\ calls' = calls \ {c}
  /\ UNCHANGED <<local, rpc, notices, removed, restarts>>

Peers(p) == {m \in Node : p.peers[m] # 0}

\* The verdict of a pass.  Nobody proved anything: drop the peers that
\* rejected n (removeBareRejectingPeers).  Everybody rejected n and somebody
\* proved why: n was removed.  A verdict on an older membership is void.
verdict(n, p) ==
  LET bare == {m \in p.rejected : local[n].pins[m] = p.peers[m]}
  IN CASE p.stale -> local[n]
       [] ~p.stale /\ p.proven = {} ->
            [local[n] EXCEPT !.pins = [m \in Node |-> IF m \in bare THEN 0 ELSE @[m]],
                             !.ends = [m \in Node |-> IF m \in bare THEN {} ELSE @[m]]]
       [] ~p.stale /\ p.proven # {} ->
            IF p.rejected = Peers(p) THEN teardown(local[n]) ELSE local[n]

\* Every peer has answered or not.  A pass comes to its verdict
\* (reconcilePeersAndMaybeSelfRemove), a push just ends (reconcileAllMembers).
EndRound(n) ==
  /\ pass[n].open /\ pass[n].done = Peers(pass[n])
  /\ \/ local' = [local EXCEPT ![n] = verdict(n, pass[n])]
     \/ UNCHANGED local
  /\ pass' = [pass EXCEPT ![n] = NoPass]
  /\ UNCHANGED <<rpc, calls, notices, removed, restarts>>

\* A manager dies and NewManager starts it again: requests and passes are
\* gone, a removal that was prepared is finished from its proof.
Restart(n) ==
  /\ restarts < MaxRestarts
  /\ restarts' = restarts + 1
  /\ local' = [local EXCEPT ![n] = replayProofs(n, @)]
  /\ rpc' = [rpc EXCEPT ![n] = IdleRpc]
  /\ pass' = [pass EXCEPT ![n] = NoPass]
  /\ calls' = {IF c.to = n /\ c.phase \in {"reading", "merged"}
               THEN [c EXCEPT !.phase = "dead", !.roster = NoRoster, !.seen = <<0, 0>>]
               ELSE c : c \in {d \in calls : d.from # n}}
  /\ UNCHANGED <<notices, removed>>

MemNext ==
  \/ \E i, j \in Node : InviterCommit(i, j)
  \/ \E j \in Node : JoinerCommit(j) \/ JoinerAbort(j) \/ JoinerRollback(j)
  \/ \E i, v \in Node : RemovePrepare(i, v)
  \/ \E i \in Node : RemoveCommit(i)
  \/ \E c \in notices : HandleMembersRemove(c)
  \/ \E n \in Node : LeaveStart(n) \/ LeaveFinish(n)
  \/ \E n \in Node : StartRound(n)
  \/ \E n, m \in Node : ReconcileSend(n, m)
  \/ \E c \in calls : \/ HandleRosterBegin(c) \/ HandleRosterMerge(c)
                      \/ HandleRosterReply(c) \/ ReconcileReceive(c) \/ ReconcileLost(c)
  \/ \E n \in Node : EndRound(n) \/ Restart(n)

MemSpec == MemInit /\ [][MemNext]_memVars

-----------------------------------------------------------------------------
(* Properties.                                                             *)

\* Every variable keeps its type, no node is in an admission it has not
\* reserved, and a machine outside a cluster trusts nobody.
MemTypeOK ==
  /\ \A n \in Node :
       LET s == local[n]
       IN /\ {s.epoch, s.counter} \subseteq 0..MaxEpoch /\ s.epoch <= s.counter
          /\ s.pins \in [Node -> 0..MaxEpoch] /\ s.tombs \in [Node -> 0..MaxEpoch]
          /\ \A m \in Node : /\ s.ends[m] \subseteq Endorsement
                             /\ s.proofs[m].relays \subseteq Relay
                             /\ s.proofs[m].epoch \in 0..MaxEpoch
          /\ s.pins[n] = 0
          /\ ~Clustered(s) => Pinned(s) = {}
  /\ removed \subseteq Node \X Epoch
  /\ restarts \in 0..MaxRestarts
  /\ \A c \in calls : c.from # c.to /\ pass[c.from].open

\* While a node holds the proof that an admission was removed it does not
\* trust that admission or an older one, except between the two phases of the
\* removal it is carrying out itself: no roster, however old, lets a removed
\* machine back in, and no crash leaves it in.
RemovedStaysOut ==
  \A n, m \in Node :
    LET s == local[n]
    IN (n # m /\ s.pins[m] # 0 /\ s.proofs[m].epoch # 0)
         => \/ s.pins[m] > s.proofs[m].epoch
            \/ /\ rpc[n].op = "remove" /\ rpc[n].victim = m
               /\ rpc[n].epoch = s.pins[m]

\* A machine loses its cluster only if somebody, itself included, decided to
\* end the very admission it is in: a late notice, an old proof, peers that
\* left or have not met it yet, or a verdict overtaken by a rejoin never do it.
EvictionIsEarned ==
  [][\A n \in Node :
       (Clustered(local[n]) /\ ~Clustered(local'[n]))
          => <<n, local[n].epoch>> \in removed]_memVars

\* A member drops its trust in another's admission only if that admission was
\* removed, or the other rejected it in the pass that ends, or a pairing that
\* was never acknowledged is rolled back; and trust never moves to an older
\* admission.
TrustLossIsJustified ==
  [][\A n, m \in Node :
       LET before == local[n].pins[m]
           after == local'[n].pins[m]
       IN (after < before /\ Clustered(local'[n]))
            => \/ <<m, before>> \in removed
               \/ m \in pass[n].rejected /\ ~pass'[n].open
               \/ rpc[m].op = "join" /\ rpc[m].inviter = n /\ rpc'[m].op = "idle"]_memVars

=============================================================================
