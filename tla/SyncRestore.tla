----------------------------- MODULE SyncRestore -----------------------------
(***************************************************************************)
(* SyncEngine::restore given any snapshot that parses, not only one that   *)
(* this engine wrote: what validate_snapshot lets through, and what the    *)
(* engine does with it afterwards (src/src/sync_protocol.rs).              *)
(***************************************************************************)
EXTENDS SyncEngine

CONSTANTS Snapshots \* the snapshots that restore is given

\* A snapshot that parses has the fields and types of the Rust struct.
SavedEntry == [server_sequence : Nat, mutation : Mutation]

IsSnapshot(e) ==
  /\ DOMAIN e = DOMAIN NewEngine
  /\ e.server_sequence \in 0 .. MaxSequence
  /\ IsMap(e.records, Nat, SavedEntry)
  /\ e.log \in Seq(SavedEntry)
  /\ IsMap(e.replay_index, Nat, SavedEntry) /\ IsFiniteSet(DOMAIN e.replay_index)
  /\ e.replay_order \in Seq(Nat)

ASSUME SnapshotsAssumption == \A e \in Snapshots : IsSnapshot(e)

\* restore succeeds exactly on the snapshots that validate_snapshot accepts.
Restore == {e \in Snapshots : ValidSnapshot(e)}

RestoreInit ==
  /\ engine \in Restore
  /\ reply = NoReply

RestoreSpec == RestoreInit /\ [][Next]_vars
-----------------------------------------------------------------------------
(* Properties.                                                             *)

\* From any accepted snapshot the log stays strictly monotonic and below the
\* server sequence, so a sequence number is never given twice even when the
\* restored log has gaps.
SequencesStayFresh ==
  \A i \in 1 .. Len(engine.log) :
    /\ engine.log[i].server_sequence <= engine.server_sequence
    /\ \A j \in 1 .. i - 1 :
         engine.log[j].server_sequence < engine.log[i].server_sequence

After(c) == {s \in Entries(engine.log) : s.server_sequence > c}

\* From any accepted snapshot, gaps included, a page and what remains after
\* its cursor are together exactly what was pending, without overlap, and
\* has_more says whether anything remains: pull neither skips nor repeats.
PagesPartitionTheLog ==
  \A c \in 0 .. engine.server_sequence : \A limit \in 1 .. 3 :
    LET p == Page(engine, c, limit)
    IN /\ Entries(p.mutations) \cup After(p.cursor) = After(c)
       /\ Entries(p.mutations) \cap After(p.cursor) = {}
       /\ p.has_more <=> After(p.cursor) # {}
       /\ CanPull(engine, p.cursor)

NoRepetition(order) ==
  \A i, j \in 1 .. Len(order) : order[i] = order[j] => i = j

\* An engine restored from a snapshot whose replay_order repeats nothing can be
\* saved and restored again, whatever it applied meanwhile: log, heads, index
\* and order keep what validate_snapshot asks for.  Where replay_order repeats
\* an identifier, validate_snapshot lets it pass and this may fail.
StaysRestorable ==
  [][NoRepetition(engine.replay_order) /\ ValidSnapshot(engine)
       => NoRepetition(engine'.replay_order) /\ ValidSnapshot(engine')]_vars
=============================================================================
