---------------------------- MODULE SourceClient ----------------------------
(***************************************************************************)
(* One checkpoint fetched from the RPC source                              *)
(* (crates/hotstore-sui-source/src/source.rs): the checkpoint, then its    *)
(* transaction blocks by chunks of tx_batch_size, and digest by digest     *)
(* where a chunk keeps failing.  Every request goes through `call`, which  *)
(* retries max_retries times and sleeps longer after each failure.         *)
(*                                                                         *)
(* The server is outside the repository: a request it receives is answered *)
(* or fails, and an answer holds what was asked for, in that order.        *)
(***************************************************************************)
EXTENDS Integers, Sequences

CONSTANTS
  Digests,    \* the transactions of the checkpoint, in order
  BatchSize,  \* --tx-batch-size
  MaxRetries  \* --max-retries

ASSUME ClientAssumption ==
  /\ Digests \in Seq({Digests[i] : i \in DOMAIN Digests})
  /\ BatchSize \in Nat \ {0}
  /\ MaxRetries \in Nat

VARIABLES
  pc,        \* the request the client is making, or how the fetch ended
  at,        \* digests of the chunks already dealt with
  single,    \* digests of this chunk fetched one by one
  attempts,  \* failures of this request so far
  sleeping,  \* in the backoff sleep
  out,       \* the transaction blocks fetched
  sent       \* history: sent[r] is how often request r was sent

vars == <<pc, at, single, attempts, sleeping, out, sent>>

(* The end of the chunk that starts after `at`: digests.chunks(batch_size). *)
ChunkEnd == IF at + BatchSize <= Len(Digests) THEN at + BatchSize ELSE Len(Digests)

(* Requests are told apart by what they ask for. *)
Positions == 0..Len(Digests)
RequestIds == {<<"checkpoint", 0>>} \cup {<<m, i>> : m \in {"multi", "single"}, i \in Positions}
Request == <<pc, IF pc = "single" THEN at + single ELSE at>>

TypeOK ==
  /\ pc \in {"checkpoint", "multi", "single", "done", "failed"}
  /\ at \in Positions
  /\ single \in 0..BatchSize
  /\ attempts \in 0..MaxRetries
  /\ sleeping \in BOOLEAN
  /\ out \in Seq({Digests[i] : i \in DOMAIN Digests})
  /\ sent \in [RequestIds -> Nat]

Init ==
  /\ pc = "checkpoint"
  /\ at = 0
  /\ single = 0
  /\ attempts = 0
  /\ sleeping = FALSE
  /\ out = <<>>
  /\ sent = [r \in RequestIds |-> 0]

-----------------------------------------------------------------------------
(* call_once: a request is on its way and has an answer or an error.       *)
Calling == pc \in {"checkpoint", "multi", "single"} /\ ~sleeping

(* The history stops counting above the bound AttemptsExact states.        *)
Send == sent' = [sent EXCEPT ![Request] = IF @ <= MaxRetries + 1 THEN @ + 1 ELSE @]

(* The request after the one just answered. *)
NextRequest(done) ==
  /\ at' = done
  /\ single' = 0
  /\ attempts' = 0
  /\ pc' = IF done = Len(Digests) THEN "done" ELSE "multi"

CheckpointOk ==
  /\ pc = "checkpoint" /\ Calling
  /\ Send
  /\ NextRequest(0)
  /\ UNCHANGED <<sleeping, out>>

MultiGetOk ==
  /\ pc = "multi" /\ Calling
  /\ Send
  /\ out' = out \o SubSeq(Digests, at + 1, ChunkEnd)
  /\ NextRequest(ChunkEnd)
  /\ UNCHANGED sleeping

SingleOk ==
  /\ pc = "single" /\ Calling
  /\ Send
  /\ out' = Append(out, Digests[at + single + 1])
  /\ IF at + single + 1 = ChunkEnd
     THEN NextRequest(ChunkEnd)
     ELSE /\ single' = single + 1
          /\ attempts' = 0
          /\ UNCHANGED <<at, pc>>
  /\ UNCHANGED sleeping

GivesUp_Late(failures) == failures > MaxRetries + 1

(* attempts > self.max_retries *)
GivesUp(failures) == failures > MaxRetries

CallFails_NoCount ==
  /\ Calling
  /\ Send
  /\ ~GivesUp(attempts + 1)
  /\ sleeping' = TRUE
  /\ UNCHANGED <<pc, at, single, attempts, out>>

(* The error is retried after a sleep. *)
CallFails ==
  /\ Calling
  /\ Send
  /\ ~GivesUp(attempts + 1)
  /\ attempts' = attempts + 1
  /\ sleeping' = TRUE
  /\ UNCHANGED <<pc, at, single, out>>

Wake ==
  /\ sleeping
  /\ sleeping' = FALSE
  /\ UNCHANGED <<pc, at, single, attempts, out, sent>>

FallBack_SkipsChunk ==
  /\ pc = "multi" /\ Calling
  /\ Send
  /\ GivesUp(attempts + 1)
  /\ NextRequest(ChunkEnd)
  /\ UNCHANGED <<sleeping, out>>

FallBack_KeepsAttempts ==
  /\ pc = "multi" /\ Calling
  /\ Send
  /\ GivesUp(attempts + 1)
  /\ pc' = "single"
  /\ single' = 0
  /\ UNCHANGED <<at, attempts, sleeping, out>>

(* multiGet failed for good: the chunk is fetched digest by digest.        *)
FallBack ==
  /\ pc = "multi" /\ Calling
  /\ Send
  /\ GivesUp(attempts + 1)
  /\ pc' = "single"
  /\ single' = 0
  /\ attempts' = 0
  /\ UNCHANGED <<at, sleeping, out>>

(* Another request failed for good: so does the fetch. *)
FetchFails ==
  /\ pc \in {"checkpoint", "single"} /\ Calling
  /\ Send
  /\ GivesUp(attempts + 1)
  /\ pc' = "failed"
  /\ UNCHANGED <<at, single, attempts, sleeping, out>>

Next ==
  \/ CheckpointOk
  \/ MultiGetOk
  \/ SingleOk
  \/ CallFails
  \/ Wake
  \/ FallBack
  \/ FetchFails

Spec == Init /\ [][Next]_vars
FairSpec == Spec /\ WF_vars(Next)

-----------------------------------------------------------------------------
(* Properties.                                                             *)

(* Retries are used up and no more: a request is sent at most once more    *)
(* than max_retries whatever became of the requests before it, a digest is *)
(* asked for alone only after its chunk used up its attempts, and the      *)
(* fetch fails only after a request that nothing replaces did.             *)
AttemptsExact ==
  /\ \A r \in RequestIds : sent[r] <= MaxRetries + 1
  /\ \A i \in Positions :
       sent[<<"single", i>>] > 0 =>
         \E c \in 0..i : i < c + BatchSize /\ sent[<<"multi", c>>] = MaxRetries + 1
  /\ pc = "failed" =>
       \E r \in RequestIds : r[1] # "multi" /\ sent[r] = MaxRetries + 1

(* The refinement: chunks, retries and single requests are hidden steps of *)
(* a fetch that delivers the blocks in order, none twice, also where some  *)
(* chunks fell back (the tx_index of a stored transaction is its place in  *)
(* the answer), and that ends, provided every request does: the client     *)
(* sets no timeout.                                                        *)
Fetch == INSTANCE FetchAll WITH
           Items <- Digests,
           got <- out,
           ended <- IF pc \in {"done", "failed"} THEN pc ELSE "no"

ImplementsFetch == Fetch!FairSpec
=============================================================================
