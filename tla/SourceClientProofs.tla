------------------------ MODULE SourceClientProofs --------------------------
(***************************************************************************)
(* The RPC client keeps its promises for every checkpoint, every chunk     *)
(* size and every number of retries: a request is sent exactly as often as *)
(* its retries allow, and the blocks delivered are always a prefix of the  *)
(* transactions asked for, whatever failed on the way.                     *)
(***************************************************************************)
EXTENDS SourceClient, SequenceTheorems, TLAPS

Requesting == {"checkpoint", "multi", "single"}

(* Where the client is: the chunk it works on is not empty and not behind. *)
PlaceInv ==
  /\ pc = "checkpoint" => at = 0 /\ single = 0
  /\ pc = "multi" => at < Len(Digests) /\ single = 0
  /\ pc = "single" => at + single < ChunkEnd
  /\ pc = "done" => at = Len(Digests) /\ single = 0
  /\ pc = "failed" => at + single <= Len(Digests)

(* The blocks so far are those of the digests dealt with, in their order.  *)
OutInv == out = SubSeq(Digests, 1, at + single)

(* The history: the request being made was sent once for each failure, no  *)
(* request after it was sent, and digests are asked for alone only after   *)
(* their chunk used up its attempts.                                       *)
SentInv ==
  /\ pc \in Requesting => sent[Request] = attempts
  /\ pc = "checkpoint" =>
       \A i \in Positions : sent[<<"multi", i>>] = 0 /\ sent[<<"single", i>>] = 0
  /\ pc \in {"multi", "single"} =>
       \A i \in Positions :
         /\ i > at => sent[<<"multi", i>>] = 0
         /\ i > at + single => sent[<<"single", i>>] = 0
  /\ pc = "multi" => sent[<<"single", at>>] = 0
  /\ pc = "single" => sent[<<"multi", at>>] = MaxRetries + 1

IInv == TypeOK /\ PlaceInv /\ OutInv /\ SentInv /\ AttemptsExact

-----------------------------------------------------------------------------
(* Lemmas on the digests, the chunks and the requests.                     *)

LEMMA DigestFacts ==
  ClientAssumption =>
    /\ Len(Digests) \in Nat
    /\ Digests \in Seq({Digests[i] : i \in DOMAIN Digests})
    /\ DOMAIN Digests = 1..Len(Digests)
BY DEF ClientAssumption

(* The blocks of a chunk extend those fetched so far.                      *)
LEMMA NextBlocks ==
  ASSUME NEW m \in Positions, NEW n \in m..Len(Digests)
  PROVE  SubSeq(Digests, 1, m) \o SubSeq(Digests, m + 1, n) = SubSeq(Digests, 1, n)
<1> DEFINE S == {Digests[i] : i \in DOMAIN Digests}
<1>1. Digests \in Seq(S) /\ Len(Digests) \in Nat
  BY ClientAssumption, DigestFacts
<1> HIDE DEF S
<1>2. 1 \in 1..(Len(Digests) + 1) /\ m \in (1 - 1)..Len(Digests) /\ n \in m..Len(Digests)
  BY <1>1 DEF Positions
<1> QED
  BY <1>1, <1>2, ConcatAdjacentSubSeq

(* A block fetched alone extends those fetched so far.                     *)
LEMMA NextBlock ==
  ASSUME NEW m \in 0..(Len(Digests) - 1)
  PROVE  Append(SubSeq(Digests, 1, m), Digests[m + 1]) = SubSeq(Digests, 1, m + 1)
<1> DEFINE S == {Digests[i] : i \in DOMAIN Digests}
<1>1. Digests \in Seq(S) /\ Len(Digests) \in Nat
  BY ClientAssumption, DigestFacts
<1> HIDE DEF S
<1>2. m + 1 \in 1..Len(Digests) /\ 1 \in 1..Len(Digests) /\ m + 1 \in 1..Len(Digests)
  BY <1>1
<1>3. SubSeq(Digests, 1, m + 1) = SubSeq(Digests, 1, m) \o <<Digests[m + 1]>>
  <2>1. SubSeq(Digests, 1, m + 1) = SubSeq(Digests, 1, (m + 1) - 1) \o <<Digests[m + 1]>>
    BY <1>1, <1>2, SubSeqRecursiveSecond
  <2> QED
    BY <2>1, <1>1
<1>4. SubSeq(Digests, 1, m) \in Seq(S) /\ Digests[m + 1] \in S
  BY <1>1, <1>2
<1> QED
  BY <1>3, <1>4, AppendIsConcat

(* A chunk is not empty and does not go beyond the checkpoint.             *)
LEMMA ChunkFacts ==
  ASSUME at \in Positions
  PROVE  /\ ChunkEnd \in Positions /\ at <= ChunkEnd
         /\ at < Len(Digests) => at < ChunkEnd
         /\ ChunkEnd <= at + BatchSize
BY ClientAssumption, DigestFacts DEF Positions, ChunkEnd, ClientAssumption

(* The requests are these, and two of them differ by what they ask for.    *)
LEMMA RequestFacts ==
  /\ <<"checkpoint", 0>> \in RequestIds
  /\ \A i \in Positions : <<"multi", i>> \in RequestIds /\ <<"single", i>> \in RequestIds
  /\ \A r \in RequestIds :
       r = <<"checkpoint", 0>> \/ \E i \in Positions : r \in {<<"multi", i>>, <<"single", i>>}
BY DEF RequestIds

-----------------------------------------------------------------------------
(* Sending: one more in the history of this request, and of no other.      *)
LEMMA Sending ==
  ASSUME IInv, Calling, Send
  PROVE  /\ Request \in RequestIds /\ sent' \in [RequestIds -> Nat]
         /\ sent'[Request] = attempts + 1
         /\ \A r \in RequestIds : r # Request => sent'[r] = sent[r]
         /\ \A r \in RequestIds : sent'[r] <= MaxRetries + 1
         /\ \A r \in RequestIds : sent[r] = MaxRetries + 1 => sent'[r] = MaxRetries + 1
<1> USE DEF IInv
<1>1. MaxRetries \in Nat /\ attempts \in 0..MaxRetries /\ sent \in [RequestIds -> Nat]
  BY ClientAssumption DEF ClientAssumption, TypeOK
<1>2. Request \in RequestIds
  <2>1. CASE pc = "checkpoint"
    BY <2>1, RequestFacts DEF PlaceInv, Request
  <2>2. CASE pc = "multi"
    BY <2>2, RequestFacts DEF TypeOK, Request
  <2>3. CASE pc = "single"
    <3>1. at + single \in Positions
      BY <2>3, ClientAssumption, DigestFacts, ChunkFacts DEF PlaceInv, TypeOK, Positions, ClientAssumption
    <3> QED
      BY <2>3, <3>1, RequestFacts DEF Request
  <2> QED
    BY <2>1, <2>2, <2>3 DEF Calling
<1>3. sent[Request] = attempts
  BY DEF SentInv, Calling, Requesting
<1>4. sent' = [sent EXCEPT ![Request] = attempts + 1]
  <2>1. (IF sent[Request] <= MaxRetries + 1 THEN sent[Request] + 1 ELSE sent[Request])
          = attempts + 1
    BY <1>1, <1>3
  <2> QED
    BY <2>1 DEF Send
<1> HIDE DEF IInv
<1>5. \A r \in RequestIds : sent[r] <= MaxRetries + 1
  BY DEF IInv, AttemptsExact
<1> QED
  BY <1>1, <1>2, <1>3, <1>4, <1>5

(* A digest asked for alone belongs to a chunk that used up its attempts.  *)
LEMMA SinglesFollowChunk ==
  ASSUME IInv, Calling, Send
  PROVE  \A i \in Positions :
           sent'[<<"single", i>>] > 0 =>
             \E c \in 0..i : i < c + BatchSize /\ sent'[<<"multi", c>>] = MaxRetries + 1
<1>1. SUFFICES ASSUME NEW i \in Positions, sent'[<<"single", i>>] > 0
               PROVE  \E c \in 0..i : i < c + BatchSize /\ sent'[<<"multi", c>>] = MaxRetries + 1
  OBVIOUS
<1>2. Len(Digests) \in Nat /\ BatchSize \in Nat \ {0}
  BY ClientAssumption, DigestFacts DEF ClientAssumption
<1>3. \A c \in 0..i : <<"multi", c>> \in RequestIds
  <2>1. \A c \in 0..i : c \in Positions
    BY <1>2 DEF Positions
  <2> QED
    BY <2>1, RequestFacts
<1>4. CASE <<"single", i>> = Request
  <2>1. pc = "single" /\ i = at + single
    BY <1>4 DEF Request, Calling
  <2>2. at \in 0..i /\ i < at + BatchSize
    BY <1>2, <2>1, ChunkFacts DEF IInv, PlaceInv, TypeOK, Positions
  <2>3. sent[<<"multi", at>>] = MaxRetries + 1
    BY <2>1 DEF IInv, SentInv
  <2>4. sent'[<<"multi", at>>] = MaxRetries + 1
    BY <1>3, <2>2, <2>3, Sending
  <2> QED
    BY <2>2, <2>4
<1>5. CASE <<"single", i>> # Request
  <2>1. sent[<<"single", i>>] > 0
    BY <1>1, <1>5, RequestFacts, Sending
  <2>2. PICK c \in 0..i : i < c + BatchSize /\ sent[<<"multi", c>>] = MaxRetries + 1
    BY <2>1 DEF IInv, AttemptsExact
  <2> QED
    BY <1>3, <2>2, Sending
<1> QED
  BY <1>4, <1>5

(* Every step but the one that fails keeps AttemptsExact.                  *)
LEMMA AttemptsKept ==
  ASSUME IInv, Calling, Send, pc' # "failed"
  PROVE  AttemptsExact'
BY Sending, SinglesFollowChunk DEF AttemptsExact

(* A prefix of the digests is a sequence of blocks.                        *)
LEMMA PrefixType ==
  ASSUME NEW n \in Positions
  PROVE  /\ SubSeq(Digests, 1, n) \in Seq({Digests[i] : i \in DOMAIN Digests})
         /\ Len(SubSeq(Digests, 1, n)) = n
<1> DEFINE S == {Digests[i] : i \in DOMAIN Digests}
<1>1. n \in Nat /\ n <= Len(Digests) /\ \A i \in 1..n : Digests[i] \in S
  BY ClientAssumption, DigestFacts DEF Positions
<1> HIDE DEF S
<1>2. SubSeq(Digests, 1, n) \in Seq(S) /\ Len(SubSeq(Digests, 1, n)) = n
  BY <1>1, SubSeqProperties
<1> QED
  BY <1>2 DEF S

-----------------------------------------------------------------------------
(* One lemma per action: it keeps the inductive invariant.                 *)

LEMMA InvInit == Init => IInv
<1> SUFFICES ASSUME Init PROVE IInv
  OBVIOUS
<1>1. Len(Digests) \in Nat /\ BatchSize \in Nat \ {0} /\ MaxRetries \in Nat
  BY ClientAssumption, DigestFacts DEF ClientAssumption
<1>2. \A r \in RequestIds : sent[r] = 0
  BY DEF Init
<1>3. PlaceInv /\ OutInv
  BY SubSeqEmpty DEF Init, PlaceInv, OutInv
<1>4. SentInv
  BY <1>2, RequestFacts DEF Init, SentInv, Request, Requesting
<1>5. AttemptsExact
  <2>1. \A r \in RequestIds : sent[r] <= MaxRetries + 1
    BY <1>1, <1>2
  <2>2. \A i \in Positions : sent[<<"single", i>>] = 0
    BY <1>2, RequestFacts
  <2>3. \A i \in Positions : ~(sent[<<"single", i>>] > 0)
    <3>1. ~(0 > 0)
      OBVIOUS
    <3> QED
      BY <2>2, <3>1, Zenon
  <2> QED
    BY <2>1, <2>3 DEF Init, AttemptsExact
<1>6. TypeOK
  <2>1. out \in Seq({Digests[i] : i \in DOMAIN Digests})
    BY EmptySeq DEF Init
  <2>2. sent \in [RequestIds -> Nat]
    BY DEF Init
  <2>3. pc = "checkpoint" /\ at \in Positions /\ single \in 0..BatchSize
        /\ attempts \in 0..MaxRetries
    BY <1>1 DEF Init, Positions
  <2> QED
    BY <2>1, <2>2, <2>3, Zenon DEF TypeOK, Init
<1> QED
  BY <1>3, <1>4, <1>5, <1>6 DEF IInv

LEMMA InvCheckpointOk ==
  ASSUME IInv, CheckpointOk
  PROVE  IInv'
<1>1. Len(Digests) \in Nat /\ BatchSize \in Nat \ {0} /\ MaxRetries \in Nat
  BY ClientAssumption, DigestFacts DEF ClientAssumption
<1>2. Calling /\ Send /\ pc = "checkpoint" /\ at = 0 /\ single = 0
  BY DEF CheckpointOk, IInv, PlaceInv
<1>3. at' = 0 /\ single' = 0 /\ attempts' = 0 /\ pc' \in {"multi", "done"}
      /\ (pc' = "multi" => 0 < Len(Digests)) /\ (pc' = "done" => 0 = Len(Digests))
      /\ UNCHANGED <<sleeping, out>>
  BY <1>1 DEF CheckpointOk, NextRequest
<1>4. TypeOK' /\ PlaceInv'
  BY <1>1, <1>2, <1>3, Sending DEF IInv, TypeOK, PlaceInv, Positions
<1>5. OutInv'
  BY <1>2, <1>3 DEF IInv, OutInv
<1>6. \A i \in Positions : sent'[<<"multi", i>>] = 0 /\ sent'[<<"single", i>>] = 0
  <2>1. Request = <<"checkpoint", 0>>
    BY <1>2 DEF Request
  <2> QED
    BY <1>2, <2>1, RequestFacts, Sending DEF IInv, SentInv
<1>7. SentInv'
  <2>1. 0 \in Positions
    BY <1>1 DEF Positions
  <2> QED
    BY <1>3, <1>6, <2>1 DEF SentInv, Request, Requesting
<1> QED
  BY <1>2, <1>3, <1>4, <1>5, <1>7, AttemptsKept DEF IInv

(* The chunk is dealt with and was the last, or the next one is requested. *)
LEMMA NextChunk ==
  ASSUME IInv, pc \in {"multi", "single"}, Calling, Send, NextRequest(ChunkEnd),
         UNCHANGED sleeping, out' = SubSeq(Digests, 1, ChunkEnd)
  PROVE  IInv'
<1>1. Len(Digests) \in Nat /\ BatchSize \in Nat \ {0} /\ MaxRetries \in Nat
  BY ClientAssumption, DigestFacts DEF ClientAssumption
<1>2. at \in Nat /\ single \in Nat /\ at + single < ChunkEnd /\ at < ChunkEnd
      /\ ChunkEnd \in Positions
  BY <1>1, ChunkFacts DEF IInv, TypeOK, PlaceInv, Positions
<1>3. at' = ChunkEnd /\ single' = 0 /\ attempts' = 0 /\ pc' \in {"multi", "done"}
      /\ (pc' = "multi" => ChunkEnd # Len(Digests)) /\ (pc' = "done" => ChunkEnd = Len(Digests))
  BY <1>1 DEF NextRequest
<1>4. PlaceInv'
  BY <1>1, <1>2, <1>3 DEF PlaceInv, Positions
<1>5. OutInv'
  BY <1>1, <1>2, <1>3 DEF OutInv, Positions
<1>6. TypeOK'
  BY <1>1, <1>2, <1>3, Sending, PrefixType DEF IInv, TypeOK
<1>7. \A i \in Positions : i >= ChunkEnd =>
        sent'[<<"multi", i>>] = 0 /\ sent'[<<"single", i>>] = 0
  <2>1. SUFFICES ASSUME NEW i \in Positions, i >= ChunkEnd
                 PROVE  sent'[<<"multi", i>>] = 0 /\ sent'[<<"single", i>>] = 0
    OBVIOUS
  <2>2. i > at /\ i > at + single
    BY <1>1, <1>2, <2>1 DEF Positions
  <2>3. sent[<<"multi", i>>] = 0 /\ sent[<<"single", i>>] = 0
    BY <2>2 DEF IInv, SentInv
  <2>4. Request # <<"multi", i>> /\ Request # <<"single", i>>
    BY <1>1, <1>2, <2>2 DEF Request
  <2> QED
    BY <2>3, <2>4, RequestFacts, Sending
<1>8. SentInv'
  BY <1>1, <1>2, <1>3, <1>7 DEF SentInv, Request, Requesting, Positions
<1> QED
  BY <1>3, <1>4, <1>5, <1>6, <1>8, AttemptsKept DEF IInv

LEMMA InvMultiGetOk ==
  ASSUME IInv, MultiGetOk
  PROVE  IInv' /\ out' = SubSeq(Digests, 1, ChunkEnd) /\ at < ChunkEnd
<1>1. at \in Positions /\ single = 0 /\ at < Len(Digests) /\ out = SubSeq(Digests, 1, at)
  BY ClientAssumption, DigestFacts DEF MultiGetOk, IInv, PlaceInv, OutInv, TypeOK, Positions
<1>2. ChunkEnd \in at..Len(Digests) /\ at < ChunkEnd
  BY <1>1, ChunkFacts, ClientAssumption, DigestFacts DEF Positions
<1>3. out' = SubSeq(Digests, 1, ChunkEnd)
  BY <1>1, <1>2, NextBlocks DEF MultiGetOk
<1> QED
  BY <1>2, <1>3, NextChunk DEF MultiGetOk

LEMMA InvSingleOk ==
  ASSUME IInv, SingleOk
  PROVE  /\ IInv' /\ out' = SubSeq(Digests, 1, at + single + 1)
         /\ at + single < Len(Digests)
<1>1. Len(Digests) \in Nat /\ BatchSize \in Nat \ {0} /\ MaxRetries \in Nat
  BY ClientAssumption, DigestFacts DEF ClientAssumption
<1>2. pc = "single" /\ Calling /\ Send /\ UNCHANGED sleeping
      /\ at \in Nat /\ single \in Nat /\ at + single < ChunkEnd
      /\ ChunkEnd \in Nat /\ ChunkEnd <= Len(Digests) /\ ChunkEnd <= at + BatchSize
  BY <1>1, ChunkFacts DEF SingleOk, IInv, TypeOK, PlaceInv, Positions
<1>3. out' = SubSeq(Digests, 1, at + single + 1)
  <2>1. out = SubSeq(Digests, 1, at + single) /\ at + single \in 0..(Len(Digests) - 1)
    BY <1>1, <1>2 DEF IInv, OutInv
  <2> QED
    BY <2>1, NextBlock DEF SingleOk
<1>4. CASE at + single + 1 = ChunkEnd
  BY <1>1, <1>2, <1>3, <1>4, NextChunk DEF SingleOk
<1>5. CASE at + single + 1 # ChunkEnd
  <2>1. pc' = "single" /\ at' = at /\ single' = single + 1 /\ attempts' = 0
        /\ ChunkEnd' = ChunkEnd
    BY <1>2, <1>5 DEF SingleOk, ChunkEnd
  <2>2. at + single + 1 \in Positions
    BY <1>1, <1>2 DEF Positions
  <2>3. TypeOK' /\ PlaceInv'
    BY <1>1, <1>2, <1>3, <1>5, <2>1, <2>2, Sending, PrefixType DEF IInv, TypeOK, PlaceInv
  <2>4. OutInv'
    BY <1>2, <1>3, <2>1 DEF OutInv
  <2>5. Request = <<"single", at + single>>
    BY <1>2 DEF Request
  <2>6. sent'[<<"multi", at>>] = MaxRetries + 1
    BY <1>2, RequestFacts, Sending DEF IInv, TypeOK, SentInv
  <2>7. \A i \in Positions : i > at => sent'[<<"multi", i>>] = 0
    BY <1>2, <2>5, RequestFacts, Sending DEF IInv, SentInv
  <2>8. \A i \in Positions : i > at + single => sent'[<<"single", i>>] = 0
    <3>1. ASSUME NEW i \in Positions, i > at + single
          PROVE  sent'[<<"single", i>>] = 0
      <4>1. sent[<<"single", i>>] = 0
        BY <1>2, <3>1 DEF IInv, SentInv
      <4>2. i # at + single
        BY <1>1, <1>2, <3>1 DEF Positions
      <4>3. Request # <<"single", i>>
        BY <2>5, <4>2
      <4> QED
        BY <1>2, <4>1, <4>3, <3>1, RequestFacts, Sending
    <3> QED
      BY <3>1
  <2>9. \A i \in Positions : i > at + single + 1 => i > at + single
    BY <1>1, <1>2 DEF Positions
  <2>10. SentInv'
    <3>1. Request' = <<"single", at + single + 1>>
      BY <1>2, <2>1 DEF Request
    <3>2. at + single + 1 > at + single
      BY <1>2
    <3>3. sent'[<<"single", at + single + 1>>] = 0
      BY <2>2, <2>8, <3>2
    <3>4. \A i \in Positions : i > at' + single' => sent'[<<"single", i>>] = 0
      BY <1>1, <1>2, <2>1, <2>8 DEF Positions
    <3> QED
      BY <2>1, <2>6, <2>7, <3>1, <3>3, <3>4 DEF SentInv
  <2> QED
    BY <1>2, <1>3, <2>1, <2>3, <2>4, <2>10, AttemptsKept DEF IInv
<1> QED
  BY <1>1, <1>2, <1>3, <1>4, <1>5

LEMMA InvCallFails ==
  ASSUME IInv, CallFails
  PROVE  IInv'
<1>1. MaxRetries \in Nat /\ attempts + 1 \in 0..MaxRetries
  BY ClientAssumption DEF ClientAssumption, CallFails, GivesUp, IInv, TypeOK
<1>2. Calling /\ Send /\ attempts' = attempts + 1 /\ UNCHANGED <<pc, at, single, out>>
      /\ sleeping' = TRUE
  BY DEF CallFails
<1>3. TypeOK' /\ PlaceInv' /\ OutInv'
  BY <1>1, <1>2, Sending DEF IInv, TypeOK, PlaceInv, OutInv, ChunkEnd
<1>4. Request' = Request
  BY <1>2 DEF Request
<1>5. sent'[Request'] = attempts'
  BY <1>2, <1>4, Sending
<1>6. \A r \in RequestIds : r # Request => sent'[r] = sent[r]
  BY <1>2, Sending
<1>7. SentInv'
  <2>1. CASE pc = "checkpoint"
    BY <1>2, <1>5, <1>6, <2>1, RequestFacts DEF IInv, SentInv, Request
  <2>2. CASE pc = "multi"
    <3>1. \A i \in Positions : i > at => <<"multi", i>> # Request
      BY <2>2, ClientAssumption, DigestFacts DEF Request, Positions, IInv, TypeOK
    <3>2. \A i \in Positions : <<"single", i>> # Request
      BY <2>2 DEF Request
    <3> QED
      BY <1>2, <1>5, <1>6, <2>2, <3>1, <3>2, RequestFacts DEF IInv, SentInv, TypeOK
  <2>3. CASE pc = "single"
    <3>1. at + single \in Nat
      BY ClientAssumption, DigestFacts DEF IInv, TypeOK, Positions, ClientAssumption
    <3>2. \A i \in Positions : i > at + single => <<"single", i>> # Request
      BY <2>3, <3>1, ClientAssumption, DigestFacts DEF Request, Positions
    <3>3. \A i \in Positions : <<"multi", i>> # Request
      BY <2>3 DEF Request
    <3> QED
      BY <1>2, <1>5, <1>6, <2>3, <3>2, <3>3, RequestFacts DEF IInv, SentInv, TypeOK
  <2> QED
    BY <1>2, <2>1, <2>2, <2>3 DEF Calling
<1> QED
  BY <1>2, <1>3, <1>7, AttemptsKept DEF IInv, Calling

LEMMA InvWake ==
  ASSUME IInv, Wake
  PROVE  IInv'
BY DEF Wake, IInv, TypeOK, PlaceInv, OutInv, SentInv, AttemptsExact, Request, ChunkEnd

LEMMA InvFallBack ==
  ASSUME IInv, FallBack
  PROVE  IInv'
<1>1. Len(Digests) \in Nat /\ BatchSize \in Nat \ {0} /\ MaxRetries \in Nat
  BY ClientAssumption, DigestFacts DEF ClientAssumption
<1>2. pc = "multi" /\ Calling /\ Send /\ pc' = "single" /\ single' = 0 /\ single = 0
      /\ attempts' = 0 /\ UNCHANGED <<at, sleeping, out>> /\ at < Len(Digests)
  BY DEF FallBack, IInv, PlaceInv
<1>3. at \in Positions /\ at < ChunkEnd /\ at + 0 = at /\ ChunkEnd' = ChunkEnd
  BY <1>1, <1>2, ChunkFacts DEF IInv, TypeOK, Positions, ChunkEnd
<1>4. TypeOK' /\ PlaceInv' /\ OutInv'
  BY <1>1, <1>2, <1>3, Sending DEF IInv, TypeOK, PlaceInv, OutInv
<1>5. attempts + 1 = MaxRetries + 1
  BY <1>1 DEF FallBack, GivesUp, IInv, TypeOK
<1>6. sent'[<<"multi", at>>] = MaxRetries + 1
  BY <1>2, <1>5, Sending DEF Request
<1>7. \A i \in Positions : <<"single", i>> # Request /\ (i > at => <<"multi", i>> # Request)
  BY <1>1, <1>2, <1>3 DEF Request, Positions
<1>8. \A i \in Positions : (i > at => sent'[<<"multi", i>>] = 0 /\ sent'[<<"single", i>>] = 0)
  <2>1. \A i \in Positions : i > at => sent[<<"multi", i>>] = 0
    BY <1>2 DEF IInv, SentInv
  <2>2. \A i \in Positions : i > at => sent[<<"single", i>>] = 0
    <3>1. at + single = at
      BY <1>2, <1>3
    <3> QED
      BY <1>2, <3>1 DEF IInv, SentInv
  <2> QED
    BY <1>2, <1>7, <2>1, <2>2, RequestFacts, Sending
<1>9. sent'[<<"single", at>>] = 0
  BY <1>2, <1>3, <1>7, RequestFacts, Sending DEF IInv, SentInv
<1>10. SentInv'
  <2>1. Request' = <<"single", at>>
    BY <1>2, <1>3 DEF Request
  <2>2. at' + single' = at /\ at' = at
    BY <1>2, <1>3
  <2> QED
    BY <1>2, <1>6, <1>8, <1>9, <2>1, <2>2 DEF SentInv
<1> QED
  BY <1>2, <1>4, <1>10, AttemptsKept DEF IInv

LEMMA InvFetchFails ==
  ASSUME IInv, FetchFails
  PROVE  IInv'
<1>1. Len(Digests) \in Nat /\ BatchSize \in Nat \ {0} /\ MaxRetries \in Nat
  BY ClientAssumption, DigestFacts DEF ClientAssumption
<1>2. pc \in {"checkpoint", "single"} /\ Calling /\ Send /\ pc' = "failed"
      /\ UNCHANGED <<at, single, attempts, sleeping, out>>
  BY DEF FetchFails
<1>3. at \in Positions /\ at + single <= Len(Digests)
  BY <1>1, <1>2, ChunkFacts DEF IInv, TypeOK, PlaceInv, Positions
<1>4. TypeOK' /\ PlaceInv' /\ OutInv'
  BY <1>2, <1>3, Sending DEF IInv, TypeOK, PlaceInv, OutInv
<1>5. SentInv'
  BY <1>2 DEF SentInv, Requesting
<1>6. attempts + 1 = MaxRetries + 1
  BY <1>1 DEF FetchFails, GivesUp, IInv, TypeOK
<1>7. Request[1] # "multi"
  BY <1>2 DEF Request
<1>8. AttemptsExact'
  <2>1. Request \in RequestIds /\ sent'[Request] = MaxRetries + 1
    BY <1>2, <1>6, Sending
  <2> QED
    BY <1>2, <1>7, <2>1, Sending, SinglesFollowChunk DEF AttemptsExact
<1> QED
  BY <1>4, <1>5, <1>8 DEF IInv

LEMMA InvNext ==
  ASSUME IInv, [Next]_vars
  PROVE  IInv'
<1>1. CASE UNCHANGED vars
  BY <1>1 DEF vars, IInv, TypeOK, PlaceInv, OutInv, SentInv, AttemptsExact, Request, ChunkEnd
<1> QED
  BY <1>1, InvCheckpointOk, InvMultiGetOk, InvSingleOk, InvCallFails, InvWake,
     InvFallBack, InvFetchFails DEF Next

LEMMA ClientInvariant == Spec => []IInv
BY InvInit, InvNext, PTL DEF Spec

-----------------------------------------------------------------------------
(* The types of the client's state, for every checkpoint.                  *)
THEOREM ClientTypes == Spec => []TypeOK
<1>1. IInv => TypeOK
  BY DEF IInv
<1> QED
  BY <1>1, ClientInvariant, PTL

(* Retries are used up and no more, for every number of retries: `call`    *)
(* counts its own failures, and the chunk that falls back starts anew.     *)
THEOREM ClientAttempts == Spec => []AttemptsExact
<1>1. IInv => AttemptsExact
  BY DEF IInv
<1> QED
  BY <1>1, ClientInvariant, PTL

(* The blocks are delivered in order, none skipped and none twice, and a   *)
(* fetch ends as done only with all of them: what ImplementsFetch says of  *)
(* the steps of fetch_transaction_blocks.  That the fetch ends is left to  *)
(* TLC.                                                                    *)
THEOREM ClientRefinement == Spec => Fetch!Spec
<1>1. Init => Fetch!Init
  BY DEF Init, Fetch!Init
<1>2. IInv /\ [Next]_vars => [Fetch!Next]_(Fetch!fetchVars)
  <2> SUFFICES ASSUME IInv, [Next]_vars
               PROVE  [Fetch!Next]_(Fetch!fetchVars)
    OBVIOUS
  <2>1. Len(Digests) \in Nat /\ at \in Positions /\ ChunkEnd \in Positions
    BY ClientAssumption, DigestFacts, ChunkFacts DEF IInv, TypeOK
  <2>2. CASE CheckpointOk
    <3>1. out = SubSeq(Digests, 1, 0) /\ at = 0
      BY <2>2 DEF CheckpointOk, IInv, PlaceInv, OutInv
    <3>2. CASE Len(Digests) = 0
      <4>1. Fetch!Deliver(0)
        BY <2>2, <3>1, <3>2 DEF Fetch!Deliver, CheckpointOk, NextRequest
      <4> QED
        BY <2>1, <4>1 DEF Fetch!Next
    <3>3. CASE Len(Digests) # 0
      BY <2>2, <3>3 DEF CheckpointOk, NextRequest, Fetch!fetchVars
    <3> QED
      BY <3>2, <3>3
  <2>3. CASE MultiGetOk
    <3>1. out' = SubSeq(Digests, 1, ChunkEnd) /\ at < ChunkEnd /\ Len(out) < ChunkEnd
      <4>1. out = SubSeq(Digests, 1, at)
        BY <2>1, <2>3 DEF MultiGetOk, IInv, PlaceInv, OutInv, Positions
      <4> QED
        BY <2>1, <2>3, <4>1, InvMultiGetOk, PrefixType
    <3>2. Fetch!Deliver(ChunkEnd)
      BY <2>1, <2>3, <3>1 DEF Fetch!Deliver, MultiGetOk, NextRequest
    <3> QED
      BY <2>1, <3>2 DEF Fetch!Next, Positions
  <2>4. CASE SingleOk
    <3> DEFINE n == at + single + 1
    <3>1. at + single \in Positions /\ n \in Positions /\ out' = SubSeq(Digests, 1, n)
          /\ ChunkEnd <= Len(Digests) /\ n <= ChunkEnd
      <4>1. at + single < ChunkEnd /\ single \in Nat
        BY <2>4, ClientAssumption DEF SingleOk, IInv, PlaceInv, TypeOK, ClientAssumption
      <4> QED
        BY <2>1, <2>4, <4>1, InvSingleOk DEF Positions
    <3>2. Len(out) < n
      <4>1. out = SubSeq(Digests, 1, at + single)
        BY DEF IInv, OutInv
      <4>2. Len(out) = at + single
        BY <3>1, <4>1, PrefixType
      <4> QED
        BY <2>1, <3>1, <4>2 DEF Positions
    <3>3. n # ChunkEnd => n # Len(Digests)
      BY <2>1, <3>1 DEF Positions
    <3>4. Fetch!Deliver(n)
      BY <2>1, <2>4, <3>1, <3>2, <3>3 DEF Fetch!Deliver, SingleOk, NextRequest
    <3> QED
      BY <2>1, <3>1, <3>4 DEF Fetch!Next, Positions
  <2>5. CASE FetchFails
    BY <2>5 DEF FetchFails, Fetch!Next, Fetch!GiveUp
  <2>6. CASE CallFails \/ Wake \/ UNCHANGED vars
    BY <2>6 DEF CallFails, Wake, vars, Fetch!fetchVars
  <2>7. CASE FallBack
    BY <2>7 DEF FallBack, Fetch!fetchVars
  <2> QED
    BY <2>2, <2>3, <2>4, <2>5, <2>6, <2>7 DEF Next
<1> QED
  BY <1>1, <1>2, ClientInvariant, PTL DEF Spec, Fetch!Spec
=============================================================================
