------------------------ MODULE IntegrationPrototype ------------------------
(***************************************************************************)
(* The transfer records of src/src/memebank_integration.rs, the            *)
(* stand-alone model of the MemeBank contract that the routes replaced:    *)
(* each operation is one atomic step at one time.  No module of the        *)
(* program includes that file; here it is the abstract specification of    *)
(* what the concurrent, statement-wise routes may do to their rows.        *)
(*                                                                         *)
(* A record does not keep the receipt of its acknowledgement: a repeated   *)
(* disposition may always be the one with the same receipt.  The           *)
(* prototype leaves open how long an idempotency record is kept; here the  *)
(* record says so, and may be replaced from that time on.                  *)
(***************************************************************************)
EXTENDS Naturals

CONSTANTS
  Calls,       \* commands, with their owner and idempotency key
  Ids, Times,
  MaxLifetime  \* max_transfer_lifetime_seconds, in the unit of Times

VARIABLES
  records,     \* TransferRecord, by id
  idempotency  \* IdempotencyRecord, by subject and key

vars == <<records, idempotency>>

Init ==
  /\ records = [i \in {} |-> <<>>]
  /\ idempotency = [k \in {} |-> <<>>]

Put(f, k, v) == [x \in DOMAIN f \cup {k} |-> IF x = k THEN v ELSE f[x]]

\* authorize_owned_transfer: any other record is not found.
IsOwned(c) == c.transfer \in DOMAIN records /\ records[c.transfer].owner = c.subject

\* evaluate_idempotency decides to insert: a bound key is replayed or refused.
Inserts(c, now) ==
  <<c.subject, c.key>> \in DOMAIN idempotency =>
    idempotency[<<c.subject, c.key>>].expires <= now

\* The key is bound to the command and to its transfer for some time.
Bind(c, id, now) ==
  \E t \in Times :
    /\ t > now
    /\ idempotency' = Put(idempotency, <<c.subject, c.key>>,
                          [call |-> c, transfer |-> id, expires |-> t])

ExpireIfNeeded(r, now) ==
  IF r.state = "pending" /\ r.expires <= now
  THEN [r EXCEPT !.state = "expired", !.updated = now]
  ELSE r

\* validate_create_transfer, and a new pending record.
Create(c) ==
  /\ c.op = "create"
  /\ \E id \in Ids \ DOMAIN records, now \in Times :
       /\ Inserts(c, now)
       /\ c.body.expires \in now + 1 .. now + MaxLifetime
       /\ records' = Put(records, id, [owner |-> c.subject, expires |-> c.body.expires,
                                       state |-> "pending", created |-> now, updated |-> now])
       /\ Bind(c, id, now)

\* apply_acknowledgement on a pending record, or the same disposition again.
ApplyAcknowledgement(c) ==
  /\ c.op = "acknowledge" /\ IsOwned(c)
  /\ \E now \in Times :
       LET r == ExpireIfNeeded(records[c.transfer], now)
       IN /\ Inserts(c, now)
          /\ records[c.transfer].updated <= now
          /\ r.state \in {"pending", c.disposition}
          /\ records' = IF r.state = c.disposition THEN records
                        ELSE Put(records, c.transfer,
                                 [r EXCEPT !.state = c.disposition, !.updated = now])
          /\ Bind(c, c.transfer, now)

\* apply_cancel: an overdue record expires instead.
ApplyCancel(c) ==
  /\ c.op = "cancel" /\ IsOwned(c)
  /\ UNCHANGED idempotency
  /\ \E now \in Times :
       LET r == ExpireIfNeeded(records[c.transfer], now)
       IN /\ records[c.transfer].updated <= now
          /\ records' = Put(records, c.transfer,
               IF r.state = "pending" THEN [r EXCEPT !.state = "cancelled", !.updated = now] ELSE r)

Next == \E c \in Calls : Create(c) \/ ApplyAcknowledgement(c) \/ ApplyCancel(c)

Spec == Init /\ [][Next]_vars
=============================================================================
