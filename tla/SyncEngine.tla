----------------------------- MODULE SyncEngine -----------------------------
(***************************************************************************)
(* One sync engine and the caller of SyncEngine::apply: every mutation is  *)
(* refused, answered from the replay window, or accepted with the next     *)
(* server sequence.                                                        *)
(***************************************************************************)
EXTENDS SyncCore

VARIABLES engine, reply

vars == <<engine, reply>>

Statuses == {"Applied", "Superseded", "Replayed"}
Errors == {"InvalidMutation", "IdempotencyConflict"}

\* What apply returned last; cursor is 0 when it returned an error.
Reply(m, status, cursor) == [mutation |-> m, status |-> status, cursor |-> cursor]

NoReply == [status |-> "None"]

Init ==
  /\ engine = NewEngine
  /\ reply = NoReply

Refuse(m) ==
  /\ ~ ValidMutation(m) \/ IsExhausted(engine, m)
  /\ reply' = Reply(m, "InvalidMutation", 0)
  /\ UNCHANGED engine

Conflict(m) ==
  /\ IsIdempotencyConflict(engine, m)
  /\ reply' = Reply(m, "IdempotencyConflict", 0)
  /\ UNCHANGED engine

Replay(m) ==
  /\ IsReplay(engine, m)
  /\ reply' = Reply(m, "Replayed",
                    engine.replay_index[m.mutation_id].server_sequence)
  /\ UNCHANGED engine

Accept(m) ==
  /\ IsAccepted(engine, m)
  /\ engine' = Accepted(engine, m)
  /\ reply' = Reply(m, AcceptedStatus(engine, m), engine.server_sequence + 1)

Apply(m) == Refuse(m) \/ Conflict(m) \/ Replay(m) \/ Accept(m)

Next == \E m \in Mutations : Apply(m)

Spec == Init /\ [][Next]_vars
-----------------------------------------------------------------------------
(* Properties.                                                             *)

\* The engine holds values of the Rust types, and reply is a result of apply.
EngineTypeOK ==
  /\ IsEngine(engine)
  /\ \/ reply = NoReply
     \/ /\ reply.mutation \in Mutations
        /\ reply.status \in Statuses \cup Errors
        /\ reply.cursor \in 0 .. MaxSequence

\* Duplicate suppression reaches back exactly over the replay window: two log
\* entries with one mutation identifier are more than ReplayCapacity apart,
\* so a retry within the window never makes a second entry (transitioned's
\* replay_index lookup together with remember_replay's expiry).
ReplayWindow ==
  \A i, j \in 1 .. Len(engine.log) :
    /\ i < j
    /\ engine.log[i].mutation.mutation_id = engine.log[j].mutation.mutation_id
    => j - i > ReplayCapacity

\* A success names the log entry that holds the caller's own mutation, whether
\* it was accepted now, superseded, or replayed from the window: the cursor of
\* ApplyResult can be trusted after any number of expiries.
ReplyNamesItsEntry ==
  reply # NoReply /\ reply.status \in Statuses =>
    /\ reply.cursor \in 1 .. Len(engine.log)
    /\ engine.log[reply.cursor].mutation = reply.mutation

\* A deleted object stays deleted: an object whose winner is not a tombstone
\* has no tombstone of the same or a later clock anywhere in the log, in
\* whatever order the two arrived (wins_conflict's deletion precedence).
NoResurrection ==
  \A o \in DOMAIN engine.records : engine.records[o].mutation.kind # "Tombstone" =>
    \A i \in 1 .. Len(engine.log) :
      /\ engine.log[i].mutation.object_id = o
      /\ engine.log[i].mutation.kind = "Tombstone"
      => engine.log[i].mutation.logical_clock
           < engine.records[o].mutation.logical_clock

\* restore accepts every snapshot that a running engine can take: the checks
\* of validate_snapshot hold of every state that apply reaches.
SnapshotRestores == ValidSnapshot(engine)

\* The engine implements a last-writer-wins store (LastWriterWins): its
\* incremental heads are the winners over the whole log after every call.
LWW == INSTANCE LastWriterWins
         WITH accepted <- Entries(engine.log), heads <- engine.records

LastWriterWins == LWW!Spec
=============================================================================
