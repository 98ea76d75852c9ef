---------------------------- MODULE CausalOutbox ----------------------------
(***************************************************************************)
(* The durable outbox of one workspace: entries in causal order, of which   *)
(* only the first may be claimed, under a lease.  A store is a function     *)
(* from entry ids to entries; each operator below is one read-write         *)
(* transaction of the IndexedDB adapter, or one of the pure transitions it  *)
(* is given.  An entry id is the intent of the user it serves and the       *)
(* number of times a fresh operation has replaced the original.             *)
(***************************************************************************)
EXTENDS Integers, FiniteSetsExt

CONSTANTS
  MaxAttempts  \* attempts are counted up to here, nothing distinguishes more

Empty == [id \in {} |-> id]

\* A new entry: an operation, the snapshot it was planned on, no attempt yet.
NewEntry(op, base) ==
  [seq |-> 0, op |-> op, base |-> base, attempts |-> 0,
   state |-> "queued", owner |-> "none", due |-> FALSE, session |-> 0]

\* The causal sequence of the youngest entry.
LastSeq(store) == Max({0} \cup {store[id].seq : id \in DOMAIN store})

Enqueued(store, id, entry) ==
  [i \in DOMAIN store \cup {id} |->
     IF i = id THEN [entry EXCEPT !.seq = LastSeq(store) + 1] ELSE store[i]]

\* The causal head: nothing behind it is ever a candidate.
IsHead(store, id) ==
  /\ id \in DOMAIN store
  /\ \A i \in DOMAIN store : store[id].seq <= store[i].seq

\* Mutated form: a lease that ran out is never taken over.
ClaimableUnlessSending(entry) ==
  \/ entry.state = "queued"
  \/ entry.state = "retry-wait" /\ entry.due

\* `due` says that the retry time, or the lease, of an entry has passed.
Claimable(entry) ==
  \/ entry.state = "queued"
  \/ entry.state \in {"retry-wait", "sending"} /\ entry.due

\* Mutated form: any claimable entry is a candidate, the head or not.
AnyCandidate(store, id) == id \in DOMAIN store /\ Claimable(store[id])

Candidate(store, id) == IsHead(store, id) /\ Claimable(store[id])

Claimed(entry, owner) ==
  [entry EXCEPT !.state = "sending", !.owner = owner, !.due = FALSE,
                !.attempts = IF @ < MaxAttempts THEN @ + 1 ELSE @]

\* Mutated form: any lease will do.
SomeoneOwnsLease(store, id, owner) == id \in DOMAIN store /\ store[id].state = "sending"

OwnsLease(store, id, owner) ==
  /\ id \in DOMAIN store
  /\ store[id].state = "sending"
  /\ store[id].owner = owner

Released(entry, state) ==
  [entry EXCEPT !.state = state, !.owner = "none", !.due = FALSE]

\* The entry waits for its retry time, for a review, or for the user.
Waiting(entry) == Released(entry, "retry-wait")
Blocked(entry, session) == [Released(entry, "conflict") EXCEPT !.session = session]
Failed(entry) == Released(entry, "failed")
Requeued(entry) == Released(entry, "queued")

Removed(store, id) == [i \in DOMAIN store \ {id} |-> store[i]]

\* A fresh operation takes the place, and the attempts, of the one it replaces.
Replaced(store, id, freshId, entry) ==
  [i \in (DOMAIN store \ {id}) \cup {freshId} |->
     IF i = freshId
     THEN [entry EXCEPT !.seq = store[id].seq, !.attempts = store[id].attempts]
     ELSE store[i]]
=============================================================================
