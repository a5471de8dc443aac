------------------------------ MODULE SyncShell ------------------------------
(***************************************************************************)
(* The sync engine behind a transport and persistence shell, with devices  *)
(* that page through its log.  The engine is src/src/sync_protocol.rs; the *)
(* shell is what the documentation of SyncEngine::transitioned asks of it: *)
(* the next state is persisted (snapshot) before it becomes operational,   *)
(* and a restarted process restores what was persisted.  One transition is *)
(* in progress at a time, as apply's &mut self demands.                    *)
(*                                                                         *)
(* The process may crash between any two steps; requests may be repeated,  *)
(* and a page may be lost or arrive after the log has grown.               *)
(***************************************************************************)
EXTENDS SyncCore

CONSTANTS Devices,
          PageLimit,  \* the page size that devices ask for
          MaxCrashes  \* bounds the crashes of a behaviour

ASSUME PageLimitAssumption == PageLimit \in Nat \ {0}
ASSUME CrashesAssumption == MaxCrashes \in Nat

VARIABLES
  up,      \* the process runs
  engine,  \* the operational engine
  staged,  \* the transition that is persisted and not yet operational, or None
  durable, \* the last persisted snapshot
  acked,   \* the [mutation, cursor] results that clients have received
  cursor,  \* per device, the SyncCursor it will pull after
  seen,    \* per device, the entries it has received
  page,    \* per device, the page on its way to it, or None
  crashes

vars == <<up, engine, staged, durable, acked, cursor, seen, page, crashes>>
devices == <<cursor, seen, page>>

None == <<>>

Ack(m, n) == [mutation |-> m, cursor |-> n]

Init ==
  /\ up = TRUE
  /\ engine = NewEngine
  /\ staged = None
  /\ durable = NewEngine
  /\ acked = {}
  /\ cursor = [d \in Devices |-> 0]
  /\ seen = [d \in Devices |-> << >>]
  /\ page = [d \in Devices |-> None]
  /\ crashes = 0

\* Mutant: the transition becomes operational without having been persisted.
PersistNothing(m) ==
  /\ up /\ staged = None
  /\ IsAccepted(engine, m)
  /\ staged' = <<Accepted(engine, m), Ack(m, engine.server_sequence + 1)>>
  /\ UNCHANGED <<up, engine, durable, acked, devices, crashes>>

\* transitioned accepts m: its next state is persisted.
Persist(m) ==
  /\ up /\ staged = None
  /\ IsAccepted(engine, m)
  /\ durable' = Accepted(engine, m)
  /\ staged' = <<Accepted(engine, m), Ack(m, engine.server_sequence + 1)>>
  /\ UNCHANGED <<up, engine, acked, devices, crashes>>

\* The persisted state becomes operational and the client is answered.
Commit ==
  /\ up /\ staged # None
  /\ engine' = staged[1]
  /\ acked' = acked \cup {staged[2]}
  /\ staged' = None
  /\ UNCHANGED <<up, durable, devices, crashes>>

\* A retry inside the replay window is answered with the original sequence.
AnswerReplay(m) ==
  /\ up /\ staged = None
  /\ IsReplay(engine, m)
  /\ acked' = acked \cup
       {Ack(m, engine.replay_index[m.mutation_id].server_sequence)}
  /\ UNCHANGED <<up, engine, staged, durable, devices, crashes>>

\* The device asks for the page after its cursor.
Pull(d) ==
  /\ up /\ page[d] = None
  /\ CanPull(engine, cursor[d])
  /\ page' = [page EXCEPT ![d] = Page(engine, cursor[d], PageLimit)]
  /\ UNCHANGED <<up, engine, staged, durable, acked, cursor, seen, crashes>>

ReceivePage(d) ==
  /\ page[d] # None
  /\ seen' = [seen EXCEPT ![d] = @ \o page[d].mutations]
  /\ cursor' = [cursor EXCEPT ![d] = page[d].cursor]
  /\ page' = [page EXCEPT ![d] = None]
  /\ UNCHANGED <<up, engine, staged, durable, acked, crashes>>

LosePage(d) ==
  /\ page[d] # None
  /\ page' = [page EXCEPT ![d] = None]
  /\ UNCHANGED <<up, engine, staged, durable, acked, cursor, seen, crashes>>

\* The process dies with its memory; pages already sent stay on their way.
Crash ==
  /\ up /\ crashes < MaxCrashes
  /\ up' = FALSE
  /\ engine' = NewEngine
  /\ staged' = None
  /\ crashes' = crashes + 1
  /\ UNCHANGED <<durable, acked, devices>>

\* Mutant: the process starts with a new engine.
RestartEmpty ==
  /\ ~ up
  /\ up' = TRUE
  /\ engine' = NewEngine
  /\ UNCHANGED <<staged, durable, acked, devices, crashes>>

\* restore of the persisted snapshot.
Restart ==
  /\ ~ up
  /\ ValidSnapshot(durable)
  /\ up' = TRUE
  /\ engine' = durable
  /\ UNCHANGED <<staged, durable, acked, devices, crashes>>

Next ==
  \/ \E m \in Mutations : Persist(m) \/ AnswerReplay(m)
  \/ Commit
  \/ \E d \in Devices : Pull(d) \/ ReceivePage(d) \/ LosePage(d)
  \/ Crash
  \/ Restart

\* The shell finishes what it has persisted and restarts; devices keep
\* polling, and the network does not lose every page.
Fairness ==
  /\ WF_vars(Commit)
  /\ WF_vars(Restart)
  /\ \A d \in Devices : WF_vars(Pull(d)) /\ SF_vars(ReceivePage(d))

Spec == Init /\ [][Next]_vars
FairSpec == Spec /\ Fairness

-----------------------------------------------------------------------------
(* Properties.                                                             *)

\* What a client was told survives: the result of every answered mutation
\* names the entry of the persisted log that holds it, across crashes and
\* whether the answer was the first or a replay.
AckedIsDurable ==
  \A a \in acked :
    /\ a.cursor \in 1 .. Len(durable.log)
    /\ durable.log[a.cursor].mutation = a.mutation

\* No device is ever ahead of the server it will ask next: pull's error
\* "pull cursor is ahead of the server" cannot follow a crash.
CursorWithinServer ==
  up => \A d \in Devices : CanPull(engine, cursor[d])

\* A device has received the persisted log up to its cursor, every entry once
\* and in order, however pages interleave with new mutations, losses and
\* crashes (the sequence filter, the page limit and the cursor of pull).
SeenIsLogPrefix ==
  \A d \in Devices :
    /\ cursor[d] <= Len(durable.log)
    /\ seen[d] = SubSeq(durable.log, 1, cursor[d])

\* A mutation whose answer was lost to a crash is not accepted again when the
\* client retries it inside the replay window: the window is persisted with
\* the log it guards.
RetriedOnce ==
  \A i, j \in 1 .. Len(durable.log) :
    /\ i < j
    /\ durable.log[i].mutation.mutation_id = durable.log[j].mutation.mutation_id
    => j - i > ReplayCapacity

\* Every device eventually receives every persisted entry.
CatchUp ==
  \A d \in Devices : \A n \in 1 .. MaxSequence :
    durable.server_sequence >= n ~> cursor[d] >= n
=============================================================================
