------------------------------ MODULE SyncPeers ------------------------------
(***************************************************************************)
(* Several holders of a sync engine (HTTP server, cloud relay, local peer) *)
(* to which the same mutations are delivered over independent paths: in    *)
(* any order, any number of times, some never.  src/src/sync_protocol.rs   *)
(* says that the pure transition keeps conflict behaviour the same on all  *)
(* of them.                                                                *)
(***************************************************************************)
EXTENDS SyncCore

CONSTANTS Peers

\* An identifier names one mutation: clients do not reuse identifiers.
ASSUME UniqueIdsAssumption ==
  \A m, n \in Mutations : m.mutation_id = n.mutation_id => m = n

VARIABLES engines

PeersInit == engines = [p \in Peers |-> NewEngine]

\* apply at p commits an accepted transition; a replay changes nothing.
Deliver(p, m) ==
  /\ IsAccepted(engines[p], m)
  /\ engines' = [engines EXCEPT ![p] = Accepted(@, m)]

PeersNext == \E p \in Peers : \E m \in Mutations : Deliver(p, m)

PeersSpec == PeersInit /\ [][PeersNext]_engines

-----------------------------------------------------------------------------
(* Properties.                                                             *)

\* What p was given for object o.
Known(p, o) ==
  {m \in Mutations : m.object_id = o
     /\ \E i \in 1 .. Len(engines[p].log) : engines[p].log[i].mutation = m}

\* Two peers that were given the same mutations of an object show the same
\* mutation at its head, whatever the order, the number of deliveries and the
\* expiries of the replay window at either of them (wins_conflict never
\* reaches its arrival tie-break between two different mutations).
Convergence ==
  \A p, q \in Peers : \A o \in ObjectIds :
    Known(p, o) # {} /\ Known(p, o) = Known(q, o) =>
      engines[p].records[o].mutation = engines[q].records[o].mutation

\* A mutation redelivered after the replay window forgot it is sequenced a
\* second time and yet changes no visible head: retries are harmless even
\* where duplicate suppression has ended.
RedeliveryIsHarmless ==
  [][ \A p \in Peers : \A m \in Mutations :
        /\ Deliver(p, m)
        /\ m \in Known(p, m.object_id)
        => \A o \in DOMAIN engines[p].records :
             engines'[p].records[o].mutation = engines[p].records[o].mutation ]_engines
=============================================================================
