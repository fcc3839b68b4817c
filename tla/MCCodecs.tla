------------------------------ MODULE MCCodecs ------------------------------
(***************************************************************************)
(* One run over the two halves of the chunk encodings: the bit stream on   *)
(* its own, and the chunks written to such streams.  `half` is chosen      *)
(* first and the other half stays idle.                                    *)
(***************************************************************************)
EXTENDS ChunkCodec, TLC

VARIABLE half

F(k, n, v) == [kind |-> k, n |-> n, v |-> v]
MCFields ==
    {F("bits", n, 2 ^ n - 3) : n \in {3, 5, 7, 8}}
    \cup {F("peeked", n, 2 ^ (n - 1) + 1) : n \in {2, 7}}
    \cup {F("bit", 1, 1), F("byte", 0, 2), F("word", 0, 165)}
    \cup {F("uvarint", 0, v) : v \in {2, 255}} \cup {F("varint", 0, v) : v \in {-128, 3}}

MCBuckets == <<<<1, 3>>, <<7, 5>>>>
MCLeads == <<0, 2, 3, 4>>
MCTsLengths == <<2, 3, 4>>
\* Two low bits are erased and come back as the beta_star.
MCErasure(v, last) == [ok |-> TRUE, beta |-> v % 4, prime |-> v - (v % 4)]
MCRecover(w, beta) == IF w % 4 = 0 THEN w + beta ELSE -1
S(t, v) == [timestamp |-> t, value |-> v]
MCMaxHeld == [gorilla |-> 4, chimp |-> 3]
MCBatches == {<<S(1, 5), S(3, 4)>>, <<S(3, 5), S(40, 255)>>, <<S(40, 4)>>}

MCInit ==
    \/ /\ half = "bits" /\ BitInit
       /\ parts = <<>> /\ held = <<>> /\ answered = TRUE
    \/ /\ half = "chunks" /\ ChunkInit
       /\ out = NewStream(0) /\ fields = <<>> /\ peak = 0 /\ inp = NoReader /\ values = <<>>
MCNext ==
    \/ half = "bits" /\ BitNext /\ UNCHANGED <<half, chunkVars>>
    \/ half = "chunks" /\ ChunkNext /\ UNCHANGED <<half, bitVars>>
MCSpec == MCInit /\ [][MCNext]_<<half, bitVars, chunkVars>>
=============================================================================
