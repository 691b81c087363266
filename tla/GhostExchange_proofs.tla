-------------------------- MODULE GhostExchange_proofs --------------------------
(***************************************************************************)
(* Rounds are not mixed up, and setupGhosts() achieves what it should, for  *)
(* any number of ranks and any partition.                                  *)
(*                                                                         *)
(* The argument counts.  A buffer is packed once per round, so its round   *)
(* less the sends that have not completed is how many messages have been   *)
(* delivered, and the receiver's place says the same number of its own     *)
(* rounds.  While a receiver has the size of a round and not the contents, *)
(* the sender has a send that has not completed, so that it is still in    *)
(* that round and has not packed the buffer again.                         *)
(***************************************************************************)
EXTENDS GhostProperties, SequenceTheorems, FiniteSetTheorems, WellFoundedInduction, TLAPS

Requests == {"null", "posted", "complete"}

\* Types, as far as the argument needs them
CommTypeOK ==
    /\ sends \in [Tags -> [Pairs -> Nat]]
    /\ recvs \in [Tags -> [Pairs -> Requests]]
    /\ round \in [Ranks -> Nat]
    /\ at = [r \in Ranks |-> at[r]]
    /\ todo = [r \in Ranks |-> todo[r]]
    /\ neighbors = [r \in Ranks |-> neighbors[r]]
    /\ recvSize = [p \in Pairs |-> recvSize[p]]
    /\ recvBuffer = [p \in Pairs |-> recvBuffer[p]]
    /\ sendBuffer = [p \in Pairs |-> sendBuffer[p]]
    /\ \A p \in Pairs : sendBuffer[p].round \in Nat

\* The sender of a pair: a send that has not completed is of its round.
SenderInv(s, r) ==
    /\ (sends[101][<<s, r>>] > 0 \/ sends[102][<<s, r>>] > 0) =>
            at[s] \in {"sizes", "data", "wait", "error"}
    /\ sends[101][<<s, r>>] <= 1 /\ sends[102][<<s, r>>] <= 1
    /\ (at[s] # "done" /\ r \in Neighbors(s)) => sendBuffer[<<s, r>>].round =
            IF at[s] = "send" THEN round[s] - 1 ELSE round[s]
    /\ (at[s] # "done" /\ r \notin Neighbors(s)) =>
            sends[101][<<s, r>>] = 0 /\ sends[102][<<s, r>>] = 0

\* The receiver: where it has a request
ReceiverInv(s, r) ==
    /\ recvs[101][<<s, r>>] # "null" =>
            at[r] = "sizes" /\ s \in todo[r] /\ s \in Neighbors(r)
    /\ recvs[102][<<s, r>>] # "null" =>
            /\ s \in Neighbors(r)
            /\ \/ at[r] = "sizes" /\ s \notin todo[r]
               \/ at[r] = "data" /\ s \in todo[r]
               \/ at[r] = "error"
    /\ (at[r] = "sizes" /\ s \in Neighbors(r) /\ s \notin todo[r]) =>
            recvs[102][<<s, r>>] # "null"

\* Both: what the receiver's place says of the messages delivered
CountInv(s, r) == (at[r] # "done" /\ s \in Neighbors(r)) =>
    /\ sendBuffer[<<s, r>>].round - sends[101][<<s, r>>] =
            IF at[r] = "send" \/ recvs[101][<<s, r>>] = "posted"
            THEN round[r] - 1 ELSE round[r]
    /\ sendBuffer[<<s, r>>].round - sends[102][<<s, r>>] =
            IF \/ at[r] = "send" \/ recvs[102][<<s, r>>] = "posted"
               \/ at[r] = "sizes" /\ recvs[102][<<s, r>>] # "complete"
            THEN round[r] - 1 ELSE round[r]

\* The size that was announced, and what has been delivered
ContentInv(s, r) ==
    /\ (recvs[101][<<s, r>>] = "complete" \/ recvs[102][<<s, r>>] = "posted") =>
            recvSize[<<s, r>>] = Len(sendBuffer[<<s, r>>].items)
    /\ recvs[102][<<s, r>>] = "complete" =>
            /\ recvBuffer[<<s, r>>].round = round[r]
            /\ Len(recvBuffer[<<s, r>>].items) = recvSize[<<s, r>>]

PairInv(s, r) ==
    SenderInv(s, r) /\ ReceiverInv(s, r) /\ CountInv(s, r) /\ ContentInv(s, r)

\* fixReceiveLists() is in round 2.
StageInv == \A r \in Ranks : at[r] \in {"fix", "fixed"} => round[r] = 2

IInv == CommTypeOK /\ StageInv /\ \A s, r \in Ranks : PairInv(s, r)
-----------------------------------------------------------------------------
(* What the helpers of the requests return.                                  *)

LEMMA OneLess == \A m, n, k \in Nat : m - n = k - 1 => m - (n - 1) = k
  OBVIOUS

\* The pairs a rank sends on, and receives on
LEMMA PairsOf ==
    \A s, x, r \in Ranks :
        /\ <<s, x>> \in Pairs
        /\ <<s, x>> \in Out(r) <=> (s = r /\ x \in Neighbors(r))
        /\ <<s, x>> \in In(r) <=> (x = r /\ s \in Neighbors(r))
  BY DEF Pairs, Out, In

\* A pair of Pairs is two ranks, so that a property of every two ranks is one
\* of every pair.
LEMMA RanksOf == \A p \in Pairs : \E s, x \in Ranks : p = <<s, x>>
  BY DEF Pairs

\* Initially nothing is sent, and every rank is about to begin round 1.
LEMMA InitIInv == ASSUME Init PROVE IInv
  <1>1. CommTypeOK
    BY DEF Init, CommInit, CommTypeOK, Requests, Tags, Empty, Pairs
  <1>2. ASSUME NEW s \in Ranks, NEW x \in Ranks PROVE PairInv(s, x)
    <2>1. <<s, x>> \in Pairs
      BY PairsOf
    <2>2. /\ \A t \in {101, 102} : sends[t][<<s, x>>] = 0 /\ recvs[t][<<s, x>>] = "null"
          /\ sendBuffer[<<s, x>>].round = 0
          /\ at[s] = "send" /\ at[x] = "send" /\ round[s] = 1 /\ round[x] = 1
      BY <2>1 DEF Init, CommInit, Tags, Empty
    <2> QED BY <2>2 DEF PairInv, SenderInv, ReceiverInv, CountInv, ContentInv
  <1>3. StageInv
    BY DEF Init, CommInit, StageInv
  <1> QED BY <1>1, <1>2, <1>3 DEF IInv
-----------------------------------------------------------------------------
(* The steps of NeighborCommunicator.                                        *)

\* Starting a round: by the counts, no neighbour still needs the buffer that is
\* packed again.
LEMMA SendToIInv ==
    ASSUME IInv, NEW r \in Ranks, NEW items, SendTo(r, items) PROVE IInv'
  <1> DEFINE out(s, x) == s = r /\ x \in Neighbors(r)
             in(s, x)  == x = r /\ s \in Neighbors(r)
  <1>1. \A s, x \in Ranks :
            /\ sends'[101][<<s, x>>] = sends[101][<<s, x>>] + IF out(s, x) THEN 1 ELSE 0
            /\ sends'[102][<<s, x>>] = sends[102][<<s, x>>] + IF out(s, x) THEN 1 ELSE 0
    BY PairsOf DEF SendTo, Started, IInv, CommTypeOK, Tags
  <1>2. \A s, x \in Ranks :
            /\ recvs'[101][<<s, x>>] = IF in(s, x) THEN "posted" ELSE recvs[101][<<s, x>>]
            /\ recvs'[102][<<s, x>>] = recvs[102][<<s, x>>]
    BY PairsOf DEF SendTo, Posted, IInv, CommTypeOK, Tags
  <1>3. \A s, x \in Ranks : sendBuffer'[<<s, x>>] =
            IF out(s, x) THEN [round |-> round[r], items |-> items[x]]
            ELSE sendBuffer[<<s, x>>]
    BY PairsOf DEF SendTo
  <1>4. /\ \A y \in Ranks : Neighbors(y)' = Neighbors(y)
        /\ round' = round /\ recvSize' = recvSize /\ recvBuffer' = recvBuffer
    BY DEF SendTo, Neighbors
  <1>5. /\ at[r] = "send"
        /\ at'[r] = "sizes" \/ (at'[r] = "wait" /\ Neighbors(r) = {})
        /\ todo'[r] = Neighbors(r)
        /\ \A y \in Ranks \ {r} : at'[y] = at[y] /\ todo'[y] = todo[y]
    BY DEF SendTo, Unless, IInv, CommTypeOK
  <1>6. CommTypeOK'
    <2>1. sends' \in [Tags -> [Pairs -> Nat]]
      BY SMTT(40) DEF SendTo, Started, IInv, CommTypeOK, Tags
    <2>2. recvs' \in [Tags -> [Pairs -> Requests]]
      BY DEF SendTo, Posted, IInv, CommTypeOK, Tags, Requests
    <2>3. /\ sendBuffer' = [p \in Pairs |-> sendBuffer'[p]]
          /\ \A p \in Pairs : sendBuffer'[p].round \in Nat
      BY DEF SendTo, IInv, CommTypeOK
    <2> QED BY <2>1, <2>2, <2>3 DEF SendTo, IInv, CommTypeOK
  <1>7. ASSUME NEW s \in Ranks, NEW x \in Ranks PROVE PairInv(s, x)'
    <2>1. PairInv(s, x) /\ round[s] \in Nat /\ round[x] \in Nat
          /\ sends[101][<<s, x>>] \in Nat /\ sends[102][<<s, x>>] \in Nat
          /\ sendBuffer[<<s, x>>].round \in Nat
      BY PairsOf DEF IInv, CommTypeOK, Tags
    <2>2. /\ ~out(s, x) => sendBuffer'[<<s, x>>] = sendBuffer[<<s, x>>]
          /\ out(s, x) => /\ sendBuffer'[<<s, x>>].round = round[s]
                          /\ sendBuffer[<<s, x>>].round = round[s] - 1
                          /\ sends[101][<<s, x>>] = 0 /\ sends[102][<<s, x>>] = 0
      <3>1. ~out(s, x) => sendBuffer'[<<s, x>>] = sendBuffer[<<s, x>>]
        BY <1>3
      <3>2. out(s, x) => sendBuffer'[<<s, x>>] = [round |-> round[r], items |-> items[x]]
        BY <1>3
      <3>3. out(s, x) => sendBuffer[<<s, x>>].round = round[s] - 1
        BY <1>5, <2>1 DEF PairInv, SenderInv
      <3>4. out(s, x) => sends[101][<<s, x>>] = 0 /\ sends[102][<<s, x>>] = 0
        BY <1>5, <2>1 DEF PairInv, SenderInv
      <3> QED BY <3>1, <3>2, <3>3, <3>4
    <2>3. SenderInv(s, x)'
      <3>1. CASE out(s, x)
        BY <3>1, <1>1, <1>4, <1>5, <2>1, <2>2 DEF SenderInv
      <3>2. CASE ~out(s, x)
        BY <3>2, <1>1, <1>4, <1>5, <2>1, <2>2 DEF PairInv, SenderInv
      <3> QED BY <3>1, <3>2
    <2>4. ReceiverInv(s, x)'
      BY <1>2, <1>4, <1>5, <2>1 DEF PairInv, ReceiverInv
    <2>5. sendBuffer'[<<s, x>>].round - sends'[101][<<s, x>>]
             = sendBuffer[<<s, x>>].round - sends[101][<<s, x>>]
          /\ sendBuffer'[<<s, x>>].round - sends'[102][<<s, x>>]
             = sendBuffer[<<s, x>>].round - sends[102][<<s, x>>]
      BY <1>1, <2>1, <2>2
    <2>6. CountInv(s, x)'
      <3>1. CASE x = r
        BY <3>1, <1>2, <1>4, <1>5, <2>1, <2>5 DEF PairInv, ReceiverInv, CountInv
      <3>2. CASE x # r
        BY <3>2, <1>2, <1>4, <1>5, <2>1, <2>5 DEF PairInv, CountInv
      <3> QED BY <3>1, <3>2
    <2>7. ContentInv(s, x)'
      <3>1. CASE out(s, x)
        <4>1. recvs[101][<<s, x>>] # "complete" /\ recvs[102][<<s, x>>] # "posted"
          BY <3>1, <2>1, <2>2, <1>5 DEF PairInv, ReceiverInv, CountInv
        <4> QED BY <4>1, <1>2, <1>4, <2>1 DEF PairInv, ContentInv
      <3>2. CASE ~out(s, x)
        <4>1. sendBuffer'[<<s, x>>] = sendBuffer[<<s, x>>]
          BY <3>2, <2>2
        <4> QED BY <4>1, <1>2, <1>4, <2>1 DEF PairInv, ContentInv
      <3> QED BY <3>1, <3>2
    <2> QED BY <2>3, <2>4, <2>6, <2>7 DEF PairInv
  <1>8. StageInv'
    BY <1>4, <1>5 DEF IInv, StageInv
  <1> QED BY <1>6, <1>7, <1>8 DEF IInv

\* The size is read from the buffer when it is delivered.
LEMMA DeliverSizeIInv ==
    ASSUME IInv, NEW a \in Ranks, NEW b \in Ranks, DeliverSize(<<a, b>>) PROVE IInv'
  <1> DEFINE this(s, x) == s = a /\ x = b
  <1>1. /\ sends \in [Tags -> [Pairs -> Nat]] /\ {101, 102} \subseteq Tags
        /\ sends[101][<<a, b>>] > 0 /\ recvs[101][<<a, b>>] = "posted"
        /\ sends' = [sends EXCEPT ![101][<<a, b>>] = @ - 1]
    BY DEF DeliverSize, Deliver, IInv, CommTypeOK, Tags
  <1>7. \A s, x \in Ranks : sends'[102][<<s, x>>] = sends[102][<<s, x>>]
    BY <1>1
  <1>8. ASSUME NEW s \in Ranks, NEW x \in Ranks
        PROVE  sends'[101][<<s, x>>] =
                  IF this(s, x) THEN sends[101][<<s, x>>] - 1 ELSE sends[101][<<s, x>>]
    <2> DEFINE now == sends[101]
    <2>1. now \in [Pairs -> Nat] /\ sends'[101] = [now EXCEPT ![<<a, b>>] = now[<<a, b>>] - 1]
      BY <1>1
    <2>2. <<s, x>> \in Pairs /\ (<<s, x>> = <<a, b>> <=> this(s, x))
      BY PairsOf
    <2> HIDE DEF now
    <2>3. sends'[101][<<s, x>>] = IF <<s, x>> = <<a, b>> THEN now[<<a, b>>] - 1 ELSE now[<<s, x>>]
      BY <2>1, <2>2
    <2> QED BY <2>2, <2>3 DEF now
  <1>2. \A s, x \in Ranks :
            /\ recvs'[101][<<s, x>>] =
                    IF this(s, x) THEN "complete" ELSE recvs[101][<<s, x>>]
            /\ recvs'[102][<<s, x>>] = recvs[102][<<s, x>>]
    BY SMTT(40), PairsOf DEF DeliverSize, Deliver, IInv, CommTypeOK, Tags
  <1>3. \A s, x \in Ranks : recvSize'[<<s, x>>] =
            IF this(s, x) THEN Len(sendBuffer[<<s, x>>].items) ELSE recvSize[<<s, x>>]
    BY PairsOf DEF DeliverSize, IInv, CommTypeOK
  <1>4. /\ \A y \in Ranks : Neighbors(y)' = Neighbors(y)
        /\ round' = round /\ at' = at /\ todo' = todo
        /\ sendBuffer' = sendBuffer /\ recvBuffer' = recvBuffer
    BY DEF DeliverSize, control, Neighbors
  <1>5. CommTypeOK' /\ StageInv'
    <2>1. sends' \in [Tags -> [Pairs -> Nat]]
      <3> DEFINE now   == sends[101]
                 after == [now EXCEPT ![<<a, b>>] = @ - 1]
      <3>1. now \in [Pairs -> Nat] /\ now[<<a, b>>] > 0
        BY <1>1
      <3>4. <<a, b>> \in Pairs
        BY PairsOf
      <3>5. now[<<a, b>>] - 1 \in Nat
        <4> HIDE DEF now
        <4> QED BY <3>1, <3>4
      <3>2. after \in [Pairs -> Nat]
        <4> HIDE DEF now
        <4> QED BY <3>1, <3>5
      <3>3. sends' = [sends EXCEPT ![101] = after]
        BY <1>1
      <3>6. sends \in [Tags -> [Pairs -> Nat]]
        BY <1>1
      <3> HIDE DEF after, now
      <3> QED BY <3>2, <3>3, <3>6
    <2>2. recvs' \in [Tags -> [Pairs -> Requests]]
      BY PairsOf DEF DeliverSize, Deliver, IInv, CommTypeOK, Tags, Requests
    <2> QED BY <2>1, <2>2, <1>4 DEF DeliverSize, IInv, CommTypeOK, StageInv
  <1>6. ASSUME NEW s \in Ranks, NEW x \in Ranks PROVE PairInv(s, x)'
    <2>0. /\ sends'[101][<<s, x>>] =
                IF this(s, x) THEN sends[101][<<s, x>>] - 1 ELSE sends[101][<<s, x>>]
          /\ sends'[102][<<s, x>>] = sends[102][<<s, x>>]
          /\ this(s, x) => sends[101][<<s, x>>] > 0 /\ recvs[101][<<s, x>>] = "posted"
      <3>1. this(s, x) => sends[101][<<s, x>>] > 0 /\ recvs[101][<<s, x>>] = "posted"
        BY <1>1
      <3> QED BY <3>1, <1>7, <1>8
    <2>1. PairInv(s, x) /\ round[s] \in Nat /\ round[x] \in Nat
          /\ sends[101][<<s, x>>] \in Nat /\ sends[102][<<s, x>>] \in Nat
          /\ sendBuffer[<<s, x>>].round \in Nat
      BY PairsOf DEF IInv, CommTypeOK, Tags
    <2>2. SenderInv(s, x)'
      BY <2>0, <1>4, <2>1 DEF PairInv, SenderInv
    <2>3. ReceiverInv(s, x)'
      BY <2>0, <1>2, <1>4, <2>1 DEF PairInv, ReceiverInv
    <2>4. CountInv(s, x)'
      <3>1. CASE this(s, x)
        BY <3>1, <2>0, <1>2, <1>4, <2>1 DEF PairInv, ReceiverInv, CountInv
      <3>2. CASE ~this(s, x)
        BY <3>2, <2>0, <1>2, <1>4, <2>1 DEF PairInv, CountInv
      <3> QED BY <3>1, <3>2
    <2>5. ContentInv(s, x)'
      <3>1. CASE this(s, x)
        BY <3>1, <2>0, <1>2, <1>3, <1>4, <2>1 DEF PairInv, ReceiverInv, ContentInv
      <3>2. CASE ~this(s, x)
        BY <3>2, <1>2, <1>3, <1>4, <2>1 DEF PairInv, ContentInv
      <3> QED BY <3>1, <3>2
    <2> QED BY <2>2, <2>3, <2>4, <2>5 DEF PairInv
  <1> QED BY <1>5, <1>6 DEF IInv

\* So are the contents: by the counts, the buffer is still of this round.
LEMMA DeliverDataIInv ==
    ASSUME IInv, NEW a \in Ranks, NEW b \in Ranks, DeliverData(<<a, b>>) PROVE IInv'
  <1> DEFINE this(s, x) == s = a /\ x = b
  <1>1. /\ sends \in [Tags -> [Pairs -> Nat]] /\ {101, 102} \subseteq Tags
        /\ sends[102][<<a, b>>] > 0 /\ recvs[102][<<a, b>>] = "posted"
        /\ sends' = [sends EXCEPT ![102][<<a, b>>] = @ - 1]
    BY DEF DeliverData, Deliver, IInv, CommTypeOK, Tags
  <1>7. \A s, x \in Ranks : sends'[101][<<s, x>>] = sends[101][<<s, x>>]
    BY <1>1
  <1>8. ASSUME NEW s \in Ranks, NEW x \in Ranks
        PROVE  sends'[102][<<s, x>>] =
                  IF this(s, x) THEN sends[102][<<s, x>>] - 1 ELSE sends[102][<<s, x>>]
    <2> DEFINE now == sends[102]
    <2>1. now \in [Pairs -> Nat] /\ sends'[102] = [now EXCEPT ![<<a, b>>] = now[<<a, b>>] - 1]
      BY <1>1
    <2>2. <<s, x>> \in Pairs /\ (<<s, x>> = <<a, b>> <=> this(s, x))
      BY PairsOf
    <2> HIDE DEF now
    <2>3. sends'[102][<<s, x>>] = IF <<s, x>> = <<a, b>> THEN now[<<a, b>>] - 1 ELSE now[<<s, x>>]
      BY <2>1, <2>2
    <2> QED BY <2>2, <2>3 DEF now
  <1>2. \A s, x \in Ranks :
            /\ recvs'[102][<<s, x>>] =
                    IF this(s, x) THEN "complete" ELSE recvs[102][<<s, x>>]
            /\ recvs'[101][<<s, x>>] = recvs[101][<<s, x>>]
    BY PairsOf DEF DeliverData, Deliver, IInv, CommTypeOK, Tags
  <1>3. \A s, x \in Ranks : recvBuffer'[<<s, x>>] =
            IF this(s, x) THEN sendBuffer[<<s, x>>] ELSE recvBuffer[<<s, x>>]
    BY PairsOf DEF DeliverData, IInv, CommTypeOK
  <1>4. /\ \A y \in Ranks : Neighbors(y)' = Neighbors(y)
        /\ round' = round /\ at' = at /\ todo' = todo
        /\ sendBuffer' = sendBuffer /\ recvSize' = recvSize
    BY DEF DeliverData, control, Neighbors
  <1>5. CommTypeOK' /\ StageInv'
    <2>1. sends' \in [Tags -> [Pairs -> Nat]]
      <3> DEFINE now   == sends[102]
                 after == [now EXCEPT ![<<a, b>>] = @ - 1]
      <3>1. now \in [Pairs -> Nat] /\ now[<<a, b>>] > 0
        BY <1>1
      <3>4. <<a, b>> \in Pairs
        BY PairsOf
      <3>5. now[<<a, b>>] - 1 \in Nat
        <4> HIDE DEF now
        <4> QED BY <3>1, <3>4
      <3>2. after \in [Pairs -> Nat]
        <4> HIDE DEF now
        <4> QED BY <3>1, <3>5
      <3>3. sends' = [sends EXCEPT ![102] = after]
        BY <1>1
      <3>6. sends \in [Tags -> [Pairs -> Nat]]
        BY <1>1
      <3> HIDE DEF after, now
      <3> QED BY <3>2, <3>3, <3>6
    <2>2. recvs' \in [Tags -> [Pairs -> Requests]]
      BY PairsOf DEF DeliverData, Deliver, IInv, CommTypeOK, Tags, Requests
    <2> QED BY <2>1, <2>2, <1>4 DEF DeliverData, IInv, CommTypeOK, StageInv
  <1>6. ASSUME NEW s \in Ranks, NEW x \in Ranks PROVE PairInv(s, x)'
    <2>0. /\ sends'[102][<<s, x>>] =
                IF this(s, x) THEN sends[102][<<s, x>>] - 1 ELSE sends[102][<<s, x>>]
          /\ sends'[101][<<s, x>>] = sends[101][<<s, x>>]
          /\ this(s, x) => sends[102][<<s, x>>] > 0 /\ recvs[102][<<s, x>>] = "posted"
      <3>1. this(s, x) => sends[102][<<s, x>>] > 0 /\ recvs[102][<<s, x>>] = "posted"
        BY <1>1
      <3> QED BY <3>1, <1>7, <1>8
    <2>1. PairInv(s, x) /\ round[s] \in Nat /\ round[x] \in Nat
          /\ sends[101][<<s, x>>] \in Nat /\ sends[102][<<s, x>>] \in Nat
          /\ sendBuffer[<<s, x>>].round \in Nat
      BY PairsOf DEF IInv, CommTypeOK, Tags
    <2>2. SenderInv(s, x)'
      BY <2>0, <1>4, <2>1 DEF PairInv, SenderInv
    <2>3. ReceiverInv(s, x)'
      BY <2>0, <1>2, <1>4, <2>1 DEF PairInv, ReceiverInv
    <2>4. CountInv(s, x)'
      <3>1. CASE this(s, x)
        <4>1. /\ at[x] \in {"sizes", "data", "error"} /\ s \in Neighbors(x)
              /\ recvs[101][<<s, x>>] # "posted"
              /\ recvs[102][<<s, x>>] = "posted"
          BY <3>1, <2>0, <2>1 DEF PairInv, ReceiverInv
        <4>2. /\ sendBuffer[<<s, x>>].round - sends[101][<<s, x>>] = round[x]
              /\ sendBuffer[<<s, x>>].round - sends[102][<<s, x>>] = round[x] - 1
          BY <4>1, <2>1 DEF PairInv, CountInv
        <4>3. /\ sends'[102][<<s, x>>] = sends[102][<<s, x>>] - 1
              /\ sends'[101][<<s, x>>] = sends[101][<<s, x>>]
              /\ recvs'[102][<<s, x>>] = "complete"
              /\ recvs'[101][<<s, x>>] # "posted"
          BY <4>1, <3>1, <2>0, <1>2
        <4>4. sendBuffer[<<s, x>>].round - sends'[102][<<s, x>>] = round[x]
          BY <4>2, <4>3, <2>1, OneLess
        <4> QED BY <4>1, <4>2, <4>3, <4>4, <1>4 DEF CountInv
      <3>2. CASE ~this(s, x)
        BY <3>2, <2>0, <1>2, <1>4, <2>1 DEF PairInv, CountInv
      <3> QED BY <3>1, <3>2
    <2>5. ContentInv(s, x)'
      <3>1. CASE this(s, x)
        <4>1. recvSize[<<s, x>>] = Len(sendBuffer[<<s, x>>].items)
          BY <3>1, <2>0, <2>1 DEF PairInv, ContentInv
        <4>2. sendBuffer[<<s, x>>].round = round[x]
          BY <3>1, <2>0, <2>1 DEF PairInv, SenderInv, ReceiverInv, CountInv
        <4> QED BY <4>1, <4>2, <3>1, <2>0, <1>2, <1>3, <1>4, <2>1
                DEF PairInv, ReceiverInv, ContentInv
      <3>2. CASE ~this(s, x)
        BY <3>2, <1>2, <1>3, <1>4, <2>1 DEF PairInv, ContentInv
      <3> QED BY <3>1, <3>2
    <2> QED BY <2>2, <2>3, <2>4, <2>5 DEF PairInv
  <1> QED BY <1>5, <1>6 DEF IInv

\* A size is there: the receive of the contents is posted.
LEMMA SizeArrivedIInv ==
    ASSUME IInv, NEW r \in Ranks, NEW q \in Neighbors(r), SizeArrived(r, q) PROVE IInv'
  <1> DEFINE this(s, x) == s = q /\ x = r
  <1>1. /\ at[r] = "sizes" /\ q \in todo[r] /\ recvs[101][<<q, r>>] = "complete"
        /\ recvs \in [Tags -> [Pairs -> Requests]] /\ {101, 102} \subseteq Tags
        /\ recvs' = [recvs EXCEPT ![101][<<q, r>>] = "null", ![102][<<q, r>>] = "posted"]
    BY DEF SizeArrived, Arrived, IInv, CommTypeOK, Tags
  <1>2. ASSUME NEW s \in Ranks, NEW x \in Ranks
        PROVE  /\ recvs'[101][<<s, x>>] = IF this(s, x) THEN "null" ELSE recvs[101][<<s, x>>]
               /\ recvs'[102][<<s, x>>] = IF this(s, x) THEN "posted" ELSE recvs[102][<<s, x>>]
    <2> DEFINE sizes == recvs[101]  contents == recvs[102]
    <2>1. /\ sizes \in [Pairs -> Requests] /\ contents \in [Pairs -> Requests]
          /\ recvs'[101] = [sizes EXCEPT ![<<q, r>>] = "null"]
          /\ recvs'[102] = [contents EXCEPT ![<<q, r>>] = "posted"]
      <3> DEFINE first == [recvs EXCEPT ![101][<<q, r>>] = "null"]
      <3>1. /\ first[101] = [sizes EXCEPT ![<<q, r>>] = "null"] /\ first[102] = contents
            /\ DOMAIN first = Tags
        BY <1>1
      <3>2. recvs' = [first EXCEPT ![102][<<q, r>>] = "posted"]
        BY <1>1
      <3> HIDE DEF first
      <3>3. recvs'[101] = first[101]
        BY <3>1, <3>2
      <3>4. recvs'[102] = [first[102] EXCEPT ![<<q, r>>] = "posted"]
        BY <3>1, <3>2 DEF Tags
      <3>5. sizes \in [Pairs -> Requests] /\ contents \in [Pairs -> Requests]
        BY <1>1
      <3> QED BY <3>1, <3>3, <3>4, <3>5
    <2>2. <<s, x>> \in Pairs /\ (<<s, x>> = <<q, r>> <=> this(s, x))
      BY PairsOf
    <2> HIDE DEF sizes, contents
    <2>3. /\ recvs'[101][<<s, x>>] = IF <<s, x>> = <<q, r>> THEN "null" ELSE sizes[<<s, x>>]
          /\ recvs'[102][<<s, x>>] = IF <<s, x>> = <<q, r>> THEN "posted" ELSE contents[<<s, x>>]
      BY <2>1, <2>2
    <2> QED BY <2>2, <2>3 DEF sizes, contents
  <1>3. /\ \A y \in Ranks : Neighbors(y)' = Neighbors(y)
        /\ round' = round /\ sends' = sends
        /\ sendBuffer' = sendBuffer /\ recvBuffer' = recvBuffer /\ recvSize' = recvSize
    BY DEF SizeArrived, Neighbors
  <1>4. /\ \/ at'[r] = "sizes" /\ todo'[r] = todo[r] \ {q}
           \/ at'[r] = "data" /\ todo'[r] = Neighbors(r) /\ todo[r] \subseteq {q}
        /\ \A y \in Ranks \ {r} : at'[y] = at[y] /\ todo'[y] = todo[y]
    BY <1>1 DEF SizeArrived, Unless, IInv, CommTypeOK
  <1>5. CommTypeOK' /\ StageInv'
    <2>1. recvs' \in [Tags -> [Pairs -> Requests]]
      BY ZenonT(40), <1>1 DEF Tags, Requests
    <2>2. /\ at' = [y \in Ranks |-> at'[y]] /\ todo' = [y \in Ranks |-> todo'[y]]
          /\ neighbors' = neighbors
      BY DEF SizeArrived, IInv, CommTypeOK
    <2>3. CommTypeOK'
      BY <2>1, <2>2, <1>3 DEF IInv, CommTypeOK
    <2> QED BY <2>3, <1>3, <1>4 DEF IInv, StageInv
  <1>6. ASSUME NEW s \in Ranks, NEW x \in Ranks PROVE PairInv(s, x)'
    <2>1. PairInv(s, x) /\ round[s] \in Nat /\ round[x] \in Nat
      BY DEF IInv, CommTypeOK
    <2>2. /\ recvs'[101][<<s, x>>] = IF this(s, x) THEN "null" ELSE recvs[101][<<s, x>>]
          /\ recvs'[102][<<s, x>>] = IF this(s, x) THEN "posted" ELSE recvs[102][<<s, x>>]
          /\ this(s, x) => recvs[101][<<s, x>>] = "complete"
      <3>1. this(s, x) => recvs[101][<<s, x>>] = "complete"
        BY <1>1
      <3> QED BY <3>1, <1>2
    <2>3. this(s, x) => /\ recvs[102][<<s, x>>] = "null" /\ at[x] = "sizes"
                        /\ s \in Neighbors(x) /\ at'[x] \in {"sizes", "data"}
      BY <1>1, <1>4, <2>1, <2>2 DEF PairInv, ReceiverInv
    <2>4. SenderInv(s, x)'
      BY <1>1, <1>3, <1>4, <2>1 DEF PairInv, SenderInv
    <2>5. ReceiverInv(s, x)'
      BY <1>1, <1>3, <1>4, <2>1, <2>2 DEF PairInv, ReceiverInv
    <2>6. CountInv(s, x)'
      <3>1. CASE this(s, x)
        <4>1. /\ sendBuffer[<<s, x>>].round - sends[101][<<s, x>>] = round[x]
              /\ sendBuffer[<<s, x>>].round - sends[102][<<s, x>>] = round[x] - 1
          BY <3>1, <2>1, <2>2, <2>3 DEF PairInv, CountInv
        <4>2. /\ recvs'[101][<<s, x>>] = "null" /\ recvs'[102][<<s, x>>] = "posted"
              /\ at'[x] \in {"sizes", "data"}
          BY <3>1, <2>2, <2>3
        <4> QED BY <4>1, <4>2, <1>3 DEF CountInv
      <3>2. CASE ~this(s, x)
        <4>1. recvs[102][<<s, x>>] \in Requests
          BY <1>1, PairsOf
        <4>2. CASE x = r
          BY <3>2, <4>1, <4>2, <1>1, <1>3, <1>4, <2>1, <2>2
             DEF PairInv, ReceiverInv, CountInv, Requests
        <4>3. CASE x # r
          BY <3>2, <4>3, <1>3, <1>4, <2>1, <2>2 DEF PairInv, CountInv
        <4> QED BY <4>2, <4>3
      <3> QED BY <3>1, <3>2
    <2>7. ContentInv(s, x)'
      BY <1>3, <2>1, <2>2 DEF PairInv, ContentInv
    <2> QED BY <2>4, <2>5, <2>6, <2>7 DEF PairInv
  <1> QED BY <1>5, <1>6 DEF IInv

\* The contents are there and unpacked.
LEMMA DataArrivedIInv ==
    ASSUME IInv, NEW r \in Ranks, NEW q \in Neighbors(r), NEW good, DataArrived(r, q, good)
    PROVE IInv'
  <1> DEFINE this(s, x) == s = q /\ x = r
  <1>1. /\ at[r] = "data" /\ q \in todo[r] /\ recvs[102][<<q, r>>] = "complete"
        /\ recvs \in [Tags -> [Pairs -> Requests]] /\ {101, 102} \subseteq Tags
        /\ recvs' = [recvs EXCEPT ![102][<<q, r>>] = "null"]
    BY DEF DataArrived, Arrived, IInv, CommTypeOK, Tags
  <1>2. ASSUME NEW s \in Ranks, NEW x \in Ranks
        PROVE  /\ recvs'[101][<<s, x>>] = recvs[101][<<s, x>>]
               /\ recvs'[102][<<s, x>>] = IF this(s, x) THEN "null" ELSE recvs[102][<<s, x>>]
    <2> DEFINE contents == recvs[102]
    <2>1. /\ contents \in [Pairs -> Requests] /\ recvs'[101] = recvs[101]
          /\ recvs'[102] = [contents EXCEPT ![<<q, r>>] = "null"]
      BY <1>1
    <2>2. <<s, x>> \in Pairs /\ (<<s, x>> = <<q, r>> <=> this(s, x))
      BY PairsOf
    <2> HIDE DEF contents
    <2>3. recvs'[102][<<s, x>>] = IF <<s, x>> = <<q, r>> THEN "null" ELSE contents[<<s, x>>]
      BY <2>1, <2>2
    <2> QED BY <2>1, <2>2, <2>3 DEF contents
  <1>3. /\ \A y \in Ranks : Neighbors(y)' = Neighbors(y)
        /\ round' = round /\ sends' = sends
        /\ sendBuffer' = sendBuffer /\ recvBuffer' = recvBuffer /\ recvSize' = recvSize
    BY DEF DataArrived, Neighbors
  <1>4. /\ todo'[r] = todo[r] \ {q}
        /\ at'[r] \in {"data", "error"} \/ (at'[r] = "wait" /\ todo[r] \subseteq {q})
        /\ \A y \in Ranks \ {r} : at'[y] = at[y] /\ todo'[y] = todo[y]
    BY <1>1 DEF DataArrived, Unless, IInv, CommTypeOK
  <1>5. CommTypeOK' /\ StageInv'
    <2>1. recvs' \in [Tags -> [Pairs -> Requests]]
      BY <1>1 DEF Tags, Requests
    <2>2. /\ at' = [y \in Ranks |-> at'[y]] /\ todo' = [y \in Ranks |-> todo'[y]]
          /\ neighbors' = neighbors
      BY DEF DataArrived, IInv, CommTypeOK
    <2>3. CommTypeOK'
      BY <2>1, <2>2, <1>3 DEF IInv, CommTypeOK
    <2> QED BY <2>3, <1>3, <1>4 DEF IInv, StageInv
  <1>6. ASSUME NEW s \in Ranks, NEW x \in Ranks PROVE PairInv(s, x)'
    <2>1. PairInv(s, x) /\ round[s] \in Nat /\ round[x] \in Nat
      BY DEF IInv, CommTypeOK
    <2>2. /\ recvs'[101][<<s, x>>] = recvs[101][<<s, x>>]
          /\ recvs'[102][<<s, x>>] = IF this(s, x) THEN "null" ELSE recvs[102][<<s, x>>]
          /\ this(s, x) => recvs[102][<<s, x>>] = "complete" /\ at[x] = "data"
      <3>1. this(s, x) => recvs[102][<<s, x>>] = "complete" /\ at[x] = "data"
        BY <1>1
      <3> QED BY <3>1, <1>2
    <2>3. SenderInv(s, x)'
      BY <1>1, <1>3, <1>4, <2>1 DEF PairInv, SenderInv
    <2>4. ReceiverInv(s, x)'
      BY <1>1, <1>3, <1>4, <2>1, <2>2 DEF PairInv, ReceiverInv
    <2>5. CountInv(s, x)'
      BY <1>1, <1>3, <1>4, <2>1, <2>2 DEF PairInv, ReceiverInv, CountInv
    <2>6. ContentInv(s, x)'
      BY <1>3, <2>1, <2>2 DEF PairInv, ContentInv
    <2> QED BY <2>3, <2>4, <2>5, <2>6 DEF PairInv
  <1> QED BY <1>5, <1>6 DEF IInv
-----------------------------------------------------------------------------
(* The steps of GhostExchange between the rounds.                            *)

\* Between two rounds a rank has no send left and no receive.
LEMMA MoveOnIInv ==
    ASSUME IInv, NEW r \in Ranks, NEW place, NEW n,
           at[r] \in {"wait", "fix", "fixed"},
           at[r] = "wait" => SendsComplete(r, {101, 102}),
           GoTo(r, place, n), n \in Nat,
           \/ place \in {"fix", "fixed", "error", "done"} /\ n = round[r]
           \/ place = "send" /\ n = round[r] + 1,
           place \in {"fix", "fixed"} => n = 2,
           sends' \in [Tags -> [Pairs -> Nat]],
           sends'[101] = sends[101], sends'[102] = sends[102],
           todo' = [y \in Ranks |-> todo'[y]],
           \A y \in Ranks \ {r} : todo'[y] = todo[y],
           neighbors' = [y \in Ranks |-> neighbors'[y]],
           \A y \in Ranks : neighbors'[y] = neighbors[y] \/ (y = r /\ place = "done"),
           UNCHANGED <<sendBuffer, recvs, recvSize, recvBuffer>>
    PROVE  IInv'
  <1>1. /\ at'[r] = place /\ round'[r] = n
        /\ \A y \in Ranks \ {r} : at'[y] = at[y] /\ round'[y] = round[y]
    BY DEF GoTo, IInv, CommTypeOK
  <1>2. \A y \in Ranks : Neighbors(y)' = Neighbors(y) \/ (y = r /\ place = "done")
    BY DEF Neighbors
  <1>3. ASSUME NEW x \in Ranks
        PROVE  sends[101][<<r, x>>] = 0 /\ sends[102][<<r, x>>] = 0
    <2>1. SenderInv(r, x) /\ sends[101][<<r, x>>] \in Nat /\ sends[102][<<r, x>>] \in Nat
      BY PairsOf DEF IInv, PairInv, CommTypeOK, Tags
    <2>2. CASE at[r] # "wait"
      BY <2>1, <2>2 DEF SenderInv
    <2>3. CASE at[r] = "wait" /\ x \in Neighbors(r)
      BY <2>3, PairsOf DEF SendsComplete
    <2>4. CASE at[r] = "wait" /\ x \notin Neighbors(r)
      BY <2>1, <2>4 DEF SenderInv
    <2> QED BY <2>2, <2>3, <2>4
  <1>4. CommTypeOK'
    <2>1. /\ round' \in [Ranks -> Nat] /\ at' = [y \in Ranks |-> at'[y]]
      BY ZenonT(40) DEF GoTo, IInv, CommTypeOK
    <2> QED BY <2>1 DEF IInv, CommTypeOK
  <1>5. StageInv'
    BY <1>1 DEF IInv, StageInv
  <1>6. ASSUME NEW s \in Ranks, NEW x \in Ranks PROVE PairInv(s, x)'
    <2>1. PairInv(s, x) /\ round[s] \in Nat /\ round[x] \in Nat
          /\ sends[101][<<s, x>>] \in Nat /\ sends[102][<<s, x>>] \in Nat
          /\ sendBuffer[<<s, x>>].round \in Nat
      BY PairsOf DEF IInv, CommTypeOK, Tags
    <2>2. x = r => recvs[101][<<s, x>>] = "null" /\ recvs[102][<<s, x>>] = "null"
      BY <2>1 DEF PairInv, ReceiverInv
    <2>3. SenderInv(s, x)'
      <3>1. CASE s = r
        BY <3>1, <1>1, <1>2, <1>3, <2>1 DEF PairInv, SenderInv
      <3>2. CASE s # r
        BY <3>2, <1>1, <1>2, <2>1 DEF PairInv, SenderInv
      <3> QED BY <3>1, <3>2
    <2>4. ReceiverInv(s, x)'
      BY <1>1, <1>2, <2>1, <2>2 DEF PairInv, ReceiverInv
    <2>5. CountInv(s, x)'
      <3>1. CASE x = r
        BY <3>1, <1>1, <1>2, <2>1, <2>2 DEF PairInv, CountInv
      <3>2. CASE x # r
        BY <3>2, <1>1, <1>2, <2>1 DEF PairInv, CountInv
      <3> QED BY <3>1, <3>2
    <2>6. ContentInv(s, x)'
      BY <1>1, <2>1, <2>2 DEF PairInv, ContentInv
    <2> QED BY <2>3, <2>4, <2>5, <2>6 DEF PairInv
  <1> QED BY <1>4, <1>5, <1>6 DEF IInv

\* The steps of a rank between rounds are such steps.
LEMMA SetReceiveListsIInv == ASSUME IInv, NEW r \in Ranks, SetReceiveLists(r) PROVE IInv'
  <1>1. at[r] = "wait" /\ round[r] = 1 /\ SendsComplete(r, {101, 102}) /\ GoTo(r, "send", 2)
    BY DEF SetReceiveLists, WaitSends
  <1>2. UNCHANGED <<neighbors, todo, sendBuffer, sends, recvs, recvSize, recvBuffer>>
    BY DEF SetReceiveLists, messages
  <1> QED BY <1>1, <1>2, MoveOnIInv DEF IInv, CommTypeOK

LEMMA SendNonLocalGhostsIInv ==
    ASSUME IInv, NEW r \in Ranks, SendNonLocalGhosts(r) PROVE IInv'
  <1> DEFINE place == Unless(Neighbors(r), "fix", "fixed")
  <1>1. /\ at[r] = "wait" /\ round[r] = 2 /\ SendsComplete(r, {101, 102})
        /\ GoTo(r, place, 2) /\ place \in {"fix", "fixed"}
    BY DEF SendNonLocalGhosts, WaitSends, Unless
  <1>2. UNCHANGED <<neighbors, sendBuffer, recvs, recvSize, recvBuffer>>
    BY DEF SendNonLocalGhosts
  <1>3. /\ sends' \in [Tags -> [Pairs -> Nat]]
        /\ sends'[101] = sends[101] /\ sends'[102] = sends[102]
    BY DEF SendNonLocalGhosts, Started, IInv, CommTypeOK, Tags
  <1>4. /\ todo' = [y \in Ranks |-> todo'[y]]
        /\ \A y \in Ranks \ {r} : todo'[y] = todo[y]
        /\ neighbors' = [y \in Ranks |-> neighbors'[y]]
    BY <1>2 DEF SendNonLocalGhosts, IInv, CommTypeOK
  <1> HIDE DEF place
  <1> QED BY <1>1, <1>2, <1>3, <1>4, MoveOnIInv

LEMMA FixReceiveListsIInv ==
    ASSUME IInv, NEW r \in Ranks, NEW q \in Neighbors(r), FixReceiveLists(r, q) PROVE IInv'
  <1>1. at[r] = "fix" /\ round[r] = 2
    BY DEF FixReceiveLists, IInv, StageInv
  <1>2. PICK place \in {"fix", "fixed", "error"} : GoTo(r, place, 2)
    BY DEF FixReceiveLists, Unless
  <1>3. UNCHANGED <<neighbors, sendBuffer, recvs, recvSize, recvBuffer>>
    BY DEF FixReceiveLists
  <1>4. /\ sends' \in [Tags -> [Pairs -> Nat]]
        /\ sends'[101] = sends[101] /\ sends'[102] = sends[102]
    <2>1. /\ sends[45][<<q, r>>] > 0 /\ sends \in [Tags -> [Pairs -> Nat]]
          /\ sends' = [sends EXCEPT ![45][<<q, r>>] = @ - 1]
      BY DEF FixReceiveLists, IInv, CommTypeOK
    <2> DEFINE now == [sends[45] EXCEPT ![<<q, r>>] = @ - 1]
    <2>2. sends' = [sends EXCEPT ![45] = now]
      BY <2>1
    <2>3. sends[45] \in [Pairs -> Nat] /\ 45 \in Tags /\ 101 \in Tags /\ 102 \in Tags
      BY <2>1 DEF Tags
    <2>4. now \in [Pairs -> Nat]
      <3>1. ASSUME NEW p \in Pairs PROVE now[p] \in Nat
        <4>1. CASE p = <<q, r>>
          <5>1. now[p] = sends[45][<<q, r>>] - 1 /\ sends[45][<<q, r>>] \in Nat
            BY <4>1, <2>3
          <5> QED BY <5>1, <2>1
        <4>2. CASE p # <<q, r>>
          BY <4>2, <2>3
        <4> QED BY <4>1, <4>2
      <3> QED BY <3>1, <2>3
    <2> HIDE DEF now
    <2>5. \A t \in Tags : sends'[t] = IF t = 45 THEN now ELSE sends[t]
      BY <2>1, <2>2
    <2>6. sends' = [t \in Tags |-> sends'[t]]
      BY <2>1, <2>2
    <2>7. \A t \in Tags : sends'[t] \in [Pairs -> Nat]
      BY <2>1, <2>4, <2>5
    <2>8. sends' \in [Tags -> [Pairs -> Nat]]
      BY <2>6, <2>7
    <2> QED BY <2>3, <2>5, <2>8
  <1>5. /\ todo' = [y \in Ranks |-> todo'[y]]
        /\ \A y \in Ranks \ {r} : todo'[y] = todo[y]
        /\ neighbors' = [y \in Ranks |-> neighbors'[y]]
    BY <1>3 DEF FixReceiveLists, IInv, CommTypeOK
  <1> QED BY <1>1, <1>2, <1>3, <1>4, <1>5, MoveOnIInv

LEMMA FixDoneIInv == ASSUME IInv, NEW r \in Ranks, FixDone(r) PROVE IInv'
  <1>1. at[r] = "fixed" /\ round[r] = 2 /\ GoTo(r, "send", 3)
    BY DEF FixDone, IInv, StageInv
  <1>2. UNCHANGED <<neighbors, todo, sendBuffer, sends, recvs, recvSize, recvBuffer>>
    BY DEF FixDone, messages
  <1>3. /\ sends' \in [Tags -> [Pairs -> Nat]]
        /\ todo' = [y \in Ranks |-> todo'[y]]
        /\ neighbors' = [y \in Ranks |-> neighbors'[y]]
    BY <1>2 DEF IInv, CommTypeOK
  <1> QED BY <1>1, <1>2, <1>3, MoveOnIInv

LEMMA FinishIInv == ASSUME IInv, NEW r \in Ranks, Finish(r) PROVE IInv'
  <1>1. at[r] = "wait" /\ round[r] = 3 /\ SendsComplete(r, {101, 102})
    BY DEF Finish, WaitSends
  <1>2. UNCHANGED <<todo, sendBuffer, sends, recvs, recvSize, recvBuffer>>
    BY DEF Finish, messages
  <1>3. /\ todo' = [y \in Ranks |-> todo'[y]]
        /\ \A y \in Ranks \ {r} : todo'[y] = todo[y]
        /\ sends' \in [Tags -> [Pairs -> Nat]]
    BY <1>2 DEF IInv, CommTypeOK
  <1>4. neighbors' = [y \in Ranks |-> neighbors'[y]]
    BY DEF Finish, IInv, CommTypeOK
  <1>5. CASE Consistent(r)
    <2>1. GoTo(r, "done", 3) /\ \A y \in Ranks : neighbors'[y] = neighbors[y] \/ y = r
      BY <1>5 DEF Finish, IInv, CommTypeOK
    <2> QED BY <2>1, <1>1, <1>2, <1>3, <1>4, MoveOnIInv
  <1>6. CASE ~Consistent(r)
    <2>1. GoTo(r, "error", 3) /\ neighbors' = neighbors
      BY <1>6 DEF Finish
    <2> QED BY <2>1, <1>1, <1>2, <1>3, <1>4, MoveOnIInv
  <1> QED BY <1>5, <1>6
-----------------------------------------------------------------------------
LEMMA RankIInv == ASSUME IInv, NEW r \in Ranks, Rank(r) PROVE IInv'
  <1>1. CASE Send(r)
    BY <1>1, SendToIInv DEF Send
  <1>2. ASSUME NEW q \in Neighbors(r), PostRecv(r, q) PROVE IInv'
    BY <1>2, SizeArrivedIInv DEF PostRecv
  <1>3. ASSUME NEW q \in Neighbors(r), UnpackGhosts(r, q) PROVE IInv'
    <2>1. PICK good : DataArrived(r, q, good)
      BY <1>3 DEF UnpackGhosts
    <2> QED BY <2>1, DataArrivedIInv
  <1>4. ASSUME NEW q \in Neighbors(r), RebuildSyncLists(r, q) PROVE IInv'
    <2>1. PICK good : DataArrived(r, q, good)
      BY <1>4 DEF RebuildSyncLists
    <2> QED BY <2>1, DataArrivedIInv
  <1>5. ASSUME NEW q \in Neighbors(r), FixReceiveLists(r, q) PROVE IInv'
    BY <1>5, FixReceiveListsIInv
  <1> QED BY <1>1, <1>2, <1>3, <1>4, <1>5, SetReceiveListsIInv, SendNonLocalGhostsIInv,
             FixDoneIInv, FinishIInv DEF Rank

LEMMA NextIInv == IInv /\ [Next]_vars => IInv'
  <1> SUFFICES ASSUME IInv, [Next]_vars PROVE IInv'
    OBVIOUS
  <1>1. ASSUME NEW r \in Ranks, Rank(r) PROVE IInv'
    BY <1>1, RankIInv
  <1>2. CASE MPIDelivers
    <2>1. PICK a \in Ranks, b \in Ranks : DeliverSize(<<a, b>>) \/ DeliverData(<<a, b>>)
      BY <1>2, RanksOf DEF MPIDelivers
    <2> QED BY <2>1, DeliverSizeIInv, DeliverDataIInv
  <1>3. CASE UNCHANGED vars
    <2>1. UNCHANGED <<neighbors, round, at, todo, sendBuffer, sends, recvs, recvSize, recvBuffer>>
      BY <1>3 DEF vars, control, messages
    <2>2. CommTypeOK' /\ StageInv'
      BY <2>1 DEF IInv, CommTypeOK, StageInv
    <2>3. ASSUME NEW s \in Ranks, NEW x \in Ranks PROVE PairInv(s, x)'
      <3>1. PairInv(s, x) /\ \A y \in Ranks : Neighbors(y)' = Neighbors(y)
        BY <2>1 DEF IInv, Neighbors
      <3> QED BY <3>1, <2>1 DEF PairInv, SenderInv, ReceiverInv, CountInv, ContentInv
    <2> QED BY <2>2, <2>3 DEF IInv
  <1> QED BY <1>1, <1>2, <1>3 DEF Next

\* setupGhosts(), "Adding the following waitAll methods ensures that the
\* underlying async MPI communication will not interfere with subsequent async
\* communication calls": for any number of ranks and any partition, what a rank
\* unpacks was packed for the round it is in and is as long as announced.
THEOREM RoundsAreAlwaysApart == Spec => []RoundsApart
  <1>1. Init => IInv
    BY InitIInv
  <1>2. IInv => RoundsApart
    <2> SUFFICES ASSUME IInv, NEW p \in Pairs, recvs[102][p] = "complete"
                 PROVE  /\ recvBuffer[p].round = round[p[2]]
                        /\ Len(recvBuffer[p].items) = recvSize[p]
      BY DEF RoundsApart
    <2>1. PICK s \in Ranks, x \in Ranks : p = <<s, x>>
      BY RanksOf
    <2> QED BY <2>1 DEF IInv, PairInv, ContentInv
  <1> QED BY <1>1, <1>2, NextIInv, PTL DEF Spec
-----------------------------------------------------------------------------
(* What the messages say, and what the ranks make of them.                   *)

\* A sequence of members of a set in which none is twice
IsList(s, S) == s \in Seq(S) /\ IsInjective(s)
-----------------------------------------------------------------------------
(* Sorted() and Among(): lists with the members they should have.            *)

LEMMA SortedSet ==
    ASSUME NEW S, IsFiniteSet(S), S \subseteq Int
    PROVE  IsList(Sorted(S), S) /\ ToSet(Sorted(S)) = S
  <1> DEFINE N        == Cardinality(S)
             under(x) == {y \in S : y < x}
             below    == [x \in S |-> Cardinality(under(x))]
  <1>1. N \in Nat
    BY FS_CardinalityType
  <1>2. ASSUME NEW x \in S PROVE IsFiniteSet(under(x)) /\ below[x] \in 0 .. N - 1
    <2>1. under(x) \in SUBSET S /\ x \notin under(x)
      OBVIOUS
    <2> HIDE DEF under
    <2>2. /\ IsFiniteSet(under(x)) /\ Cardinality(under(x)) <= N
          /\ N = Cardinality(under(x)) => S = under(x)
      BY <2>1, FS_Subset
    <2>3. Cardinality(under(x)) \in Nat
      BY <2>2, FS_CardinalityType
    <2> QED BY <1>1, <2>1, <2>2, <2>3
  <1>3. ASSUME NEW x \in S, NEW z \in S, x < z PROVE below[x] < below[z]
    <2>1. under(x) \in SUBSET under(z) /\ under(x) # under(z)
      <3>1. \A y \in S : y < x => y < z
        BY <1>3
      <3>2. ~(x < x)
        OBVIOUS
      <3>3. x \in under(z) /\ x \notin under(x)
        BY <1>3, <3>2
      <3>4. \A y \in under(x) : y \in under(z)
        BY <3>1
      <3> HIDE DEF under
      <3> QED BY <3>3, <3>4
    <2>2. /\ Cardinality(under(x)) <= Cardinality(under(z))
          /\ Cardinality(under(x)) # Cardinality(under(z))
      <3>1. IsFiniteSet(under(z))
        BY <1>2
      <3> HIDE DEF under
      <3>2. /\ Cardinality(under(x)) <= Cardinality(under(z))
            /\ Cardinality(under(z)) = Cardinality(under(x)) => under(z) = under(x)
        BY <2>1, <3>1, FS_Subset
      <3> QED BY <2>1, <3>2
    <2>3. below[x] <= below[z] /\ below[x] # below[z]
      <3> HIDE DEF under
      <3> QED BY <2>2
    <2>4. below[x] \in 0 .. N - 1 /\ below[z] \in 0 .. N - 1
      BY <1>2
    <2> HIDE DEF below
    <2> QED BY <2>3, <2>4
  <1>4. \A x, z \in S : below[x] = below[z] => x = z
    <2> SUFFICES ASSUME NEW x \in S, NEW z \in S, x # z PROVE below[x] # below[z]
      OBVIOUS
    <2>1. x < z \/ z < x
      OBVIOUS
    <2>2. below[x] < below[z] \/ below[z] < below[x]
      BY <2>1, <1>3
    <2>3. below[x] \in 0 .. N - 1 /\ below[z] \in 0 .. N - 1
      BY <1>2
    <2> HIDE DEF below
    <2> QED BY <2>2, <2>3
  <1>5. IsFiniteSet(0 .. N - 1) /\ Cardinality(0 .. N - 1) = N
    BY <1>1, FS_Interval
  <1>6. below \in Injection(S, 0 .. N - 1)
    <2>1. below \in [S -> 0 .. N - 1]
      BY <1>2
    <2> HIDE DEF below
    <2> QED BY <2>1, <1>4 DEF Injection, IsInjective
  <1>7. below \in Surjection(S, 0 .. N - 1)
    <2> HIDE DEF below
    <2> QED BY <1>5, <1>6, FS_Injection
  <1>8. ASSUME NEW i \in 1 .. N PROVE Sorted(S)[i] \in S /\ below[Sorted(S)[i]] = i - 1
    <2>1. PICK x \in S : below[x] = i - 1
      <3>1. i - 1 \in 0 .. N - 1
        BY <1>1
      <3> HIDE DEF below
      <3> QED BY <3>1, <1>7 DEF Surjection
    <2>2. Sorted(S)[i] = CHOOSE z \in S : Cardinality({y \in S : y < z}) = i - 1
      BY DEF Sorted
    <2>3. Sorted(S)[i] \in S /\ Cardinality({y \in S : y < Sorted(S)[i]}) = i - 1
      BY <2>1, <2>2
    <2> QED BY <2>3
  <1>9. Sorted(S) = [i \in 1 .. N |-> Sorted(S)[i]]
    <2> DEFINE place(i) == CHOOSE x \in S : Cardinality({y \in S : y < x}) = i - 1
    <2>1. Sorted(S) = [i \in 1 .. N |-> place(i)]
      BY DEF Sorted
    <2> HIDE DEF place
    <2> QED BY <2>1
  <1> HIDE DEF below
  <1>10. Sorted(S) \in Seq(S)
    BY <1>1, <1>8, <1>9, SeqDef
  <1>11. IsInjective(Sorted(S))
    <2> SUFFICES ASSUME NEW i \in 1 .. N, NEW j \in 1 .. N, Sorted(S)[i] = Sorted(S)[j]
                 PROVE  i = j
      BY <1>9 DEF IsInjective
    <2>1. i - 1 = j - 1
      BY <1>8
    <2> QED BY <2>1, <1>1
  <1>12. ASSUME NEW x \in S PROVE \E i \in 1 .. N : Sorted(S)[i] = x
    <2>1. below[x] + 1 \in 1 .. N /\ (below[x] + 1) - 1 = below[x]
      <3>1. below[x] \in 0 .. N - 1
        BY <1>2 DEF below
      <3> QED BY <3>1, <1>1
    <2>2. Sorted(S)[below[x] + 1] = x
      BY <2>1, <1>4, <1>8
    <2> QED BY <2>1, <2>2
  <1>13. ToSet(Sorted(S)) = S
    BY <1>8, <1>9, <1>12 DEF ToSet
  <1> QED BY <1>10, <1>11, <1>13 DEF IsList

LEMMA ListMembers ==
    ASSUME NEW S, NEW s, IsList(s, S)
    PROVE  /\ Len(s) \in Nat /\ DOMAIN s = 1 .. Len(s) /\ ToSet(s) \subseteq S
           /\ s = << >> <=> ToSet(s) = {}
           /\ \A i, j \in DOMAIN s : s[i] = s[j] => i = j
  <1>1. Len(s) \in Nat /\ DOMAIN s = 1 .. Len(s) /\ \A i \in 1 .. Len(s) : s[i] \in S
    BY LenProperties DEF IsList
  <1>2. s = << >> <=> Len(s) = 0
    BY EmptySeq DEF IsList
  <1>3. ToSet(s) \subseteq S /\ (ToSet(s) = {} <=> Len(s) = 0)
    <2>1. ToSet(s) = {s[i] : i \in 1 .. Len(s)}
      BY <1>1 DEF ToSet
    <2>2. 1 .. Len(s) = {} <=> Len(s) = 0
      BY <1>1
    <2> QED BY <2>1, <2>2, <1>1
  <1>4. \A i, j \in DOMAIN s : s[i] = s[j] => i = j
    BY DEF IsList, IsInjective
  <1> QED BY <1>1, <1>2, <1>3, <1>4

\* A list is no longer than the set.
LEMMA ListLength ==
    ASSUME NEW S, IsFiniteSet(S), NEW s, IsList(s, S)
    PROVE  Len(s) \in 0 .. Cardinality(S)
  <1>1. s \in Injection(1 .. Len(s), S)
    BY LenProperties DEF IsList, Injection
  <1>2. Len(s) \in Nat /\ Cardinality(S) \in Nat
    BY LenProperties, FS_CardinalityType DEF IsList
  <1>4. Cardinality(1 .. Len(s)) = Len(s)
    <2>1. \A n \in Nat : Cardinality(1 .. n) = IF 1 > n THEN 0 ELSE n - 1 + 1
      <3> TAKE n \in Nat
      <3>1. 1 \in Int /\ n \in Int
        OBVIOUS
      <3> QED BY <3>1, FS_Interval
    <2>2. \A n \in Nat : (IF 1 > n THEN 0 ELSE n - 1 + 1) = n
      OBVIOUS
    <2> QED BY <1>2, <2>1, <2>2
  <1>5. Cardinality(1 .. Len(s)) <= Cardinality(S)
    BY <1>1, FS_Injection
  <1> QED BY <1>2, <1>4, <1>5

LEMMA AmongList ==
    ASSUME NEW S, NEW s, IsList(s, S), NEW T
    PROVE  IsList(Among(s, T), S) /\ ToSet(Among(s, T)) = ToSet(s) \cap T
  <1> DEFINE kept   == {i \in DOMAIN s : s[i] \in T}
             places == Sorted(kept)
  <1>1. DOMAIN s = 1 .. Len(s) /\ Len(s) \in Nat /\ \A i \in 1 .. Len(s) : s[i] \in S
    BY LenProperties DEF IsList
  <1>2. IsFiniteSet(kept) /\ kept \subseteq Int
    <2>1. IsFiniteSet(1 .. Len(s))
      BY <1>1, FS_Interval
    <2>2. kept \in SUBSET (1 .. Len(s))
      BY <1>1
    <2>3. \A i \in kept : i \in Int
      BY <1>1
    <2> HIDE DEF kept
    <2>4. IsFiniteSet(kept)
      BY <2>1, <2>2, FS_Subset
    <2> QED BY <2>3, <2>4
  <1>3. IsList(places, kept) /\ ToSet(places) = kept
    <2> HIDE DEF kept
    <2> QED BY <1>2, SortedSet
  <1>4. Among(s, T) = [i \in DOMAIN places |-> s[places[i]]]
    BY DEF Among
  <1> HIDE DEF places
  <1>5. /\ DOMAIN places = 1 .. Len(places) /\ Len(places) \in Nat
        /\ \A i \in 1 .. Len(places) : places[i] \in kept
    <2> HIDE DEF kept
    <2> QED BY <1>3, LenProperties DEF IsList
  <1>6. \A i \in kept : i \in DOMAIN s /\ s[i] \in T /\ s[i] \in S
    BY <1>1
  <1>7. Among(s, T) \in Seq(S)
    <2>1. \A i \in 1 .. Len(places) : s[places[i]] \in S
      BY <1>5, <1>6
    <2> QED BY <2>1, <1>4, <1>5, SeqDef
  <1>8. IsInjective(Among(s, T))
    <2>1. IsInjective(places) /\ IsInjective(s)
      BY <1>3 DEF IsList
    <2> SUFFICES ASSUME NEW i \in DOMAIN places, NEW j \in DOMAIN places,
                        s[places[i]] = s[places[j]]
                 PROVE  i = j
      BY <1>4 DEF IsInjective
    <2>2. places[i] = places[j]
      BY <2>1, <1>5, <1>6 DEF IsInjective
    <2> QED BY <2>1, <2>2 DEF IsInjective
  <1>9. ToSet(Among(s, T)) = {s[i] : i \in kept}
    <2>1. {s[places[i]] : i \in DOMAIN places} = {s[i] : i \in {places[j] : j \in DOMAIN places}}
      OBVIOUS
    <2>2. {places[j] : j \in DOMAIN places} = kept
      BY <1>3 DEF ToSet
    <2>3. ToSet(Among(s, T)) = {s[places[i]] : i \in DOMAIN places}
      BY <1>4 DEF ToSet
    <2> QED BY <2>1, <2>2, <2>3
  <1>10. {s[i] : i \in kept} = ToSet(s) \cap T
    BY DEF ToSet
  <1> QED BY <1>7, <1>8, <1>9, <1>10 DEF IsList

\* Two lists without a common member, one after the other
LEMMA ConcatList ==
    ASSUME NEW S, NEW s, NEW t, IsList(s, S), IsList(t, S),
           \A x \in ToSet(s) : x \notin ToSet(t)
    PROVE  IsList(s \o t, S) /\ ToSet(s \o t) = ToSet(s) \cup ToSet(t)
  <1>1. s \in Seq(S) /\ t \in Seq(S) /\ IsInjective(s) /\ IsInjective(t)
    BY DEF IsList
  <1>2. /\ s \o t \in Seq(S) /\ Len(s \o t) = Len(s) + Len(t)
        /\ \A i \in 1 .. Len(s) + Len(t) : (s \o t)[i] =
                IF i <= Len(s) THEN s[i] ELSE t[i - Len(s)]
    BY <1>1, ConcatProperties
  <1>3. /\ DOMAIN s = 1 .. Len(s) /\ DOMAIN t = 1 .. Len(t)
        /\ Len(s) \in Nat /\ Len(t) \in Nat /\ DOMAIN (s \o t) = 1 .. Len(s) + Len(t)
    BY <1>1, <1>2, LenProperties
  <1> DEFINE st == s \o t
  <1>4. \A i \in DOMAIN st : \/ i \in DOMAIN s /\ st[i] = s[i]
                             \/ i - Len(s) \in DOMAIN t /\ st[i] = t[i - Len(s)]
    BY <1>2, <1>3
  <1>5. \A i \in DOMAIN s : i \in DOMAIN st /\ st[i] = s[i]
    BY <1>2, <1>3
  <1>6. \A i \in DOMAIN t : i + Len(s) \in DOMAIN st /\ st[i + Len(s)] = t[i]
    <2> SUFFICES ASSUME NEW i \in DOMAIN t
                 PROVE  i + Len(s) \in DOMAIN st /\ st[i + Len(s)] = t[i]
      OBVIOUS
    <2>1. /\ i + Len(s) \in 1 .. Len(s) + Len(t) /\ ~(i + Len(s) <= Len(s))
          /\ (i + Len(s)) - Len(s) = i
      BY <1>3
    <2> QED BY <2>1, <1>2, <1>3
  <1>7. ToSet(st) = ToSet(s) \cup ToSet(t)
    <2> HIDE DEF st
    <2> QED BY <1>4, <1>5, <1>6 DEF ToSet
  <1>8. IsInjective(st)
    <2> HIDE DEF st
    <2> SUFFICES ASSUME NEW i \in DOMAIN st, NEW j \in DOMAIN st, st[i] = st[j] PROVE i = j
      BY DEF IsInjective
    <2>1. i \in Int /\ j \in Int
      BY <1>3 DEF st
    <2>2. CASE i \in DOMAIN s /\ j \in DOMAIN s /\ st[i] = s[i] /\ st[j] = s[j]
      BY <2>2, <1>1 DEF IsInjective
    <2>3. CASE /\ i - Len(s) \in DOMAIN t /\ j - Len(s) \in DOMAIN t
               /\ st[i] = t[i - Len(s)] /\ st[j] = t[j - Len(s)]
      <3>1. i - Len(s) = j - Len(s)
        BY <2>3, <1>1 DEF IsInjective
      <3> QED BY <3>1, <2>1, <1>3
    <2>4. \A x \in DOMAIN s, y \in DOMAIN t : s[x] # t[y]
      BY DEF ToSet
    <2> QED BY <2>2, <2>3, <2>4, <1>4
  <1> QED BY <1>2, <1>7, <1>8 DEF IsList
-----------------------------------------------------------------------------
\* The neighbours of a rank before any is removed
Around(m, r) == Touching(m, r) \cup
    ((UNION {Touching(m, q) : q \in Touching(m, r)}) \ {r})

\* The nodes r knows when it has heard of some ranks, the ranks among them it may
\* take a node to belong to, and the ranks that have the node
Known(m, r, heard)     == Local(m, r) \cup UNION {Adjacent(m, q, r) : q \in heard}
Owners(m, r, n, heard) == {q \in heard : n \in Adjacent(m, q, r) /\ (n \in Local(m, r) => q < r)}
Holders(m, n)          == {q \in Ranks : n \in Local(m, q)}

Least(q, S) == q \in S /\ \A o \in S : q <= o

Unpacked(r, n) ==
    IF round[r] > n THEN Around(mesh, r)
    ELSE IF round[r] = n /\ at[r] = "data" THEN Around(mesh, r) \ todo[r]
    ELSE IF round[r] = n /\ at[r] \in {"wait", "fix", "fixed", "done"} THEN Around(mesh, r)
    ELSE {}

Corrected(r) ==
    IF round[r] = 3 \/ at[r] = "fixed" THEN Around(mesh, r)
    ELSE IF at[r] = "fix" THEN Around(mesh, r) \ todo[r]
    ELSE {}

IsGhostRank(m, r, n, heard, fixed, o) ==
    \/ Owners(m, r, n, heard) = {} /\ o \in {-2, -1}
    \/ \E g \in Ranks : /\ Least(g, Owners(m, r, n, heard))
                  /\ IF g \in fixed THEN Least(o, Holders(m, n)) ELSE o = g

Guessed(m, r, q) == {n \in Known(m, r, Around(m, r)) : Least(q, Owners(m, r, n, Around(m, r)))}
ThirdRank(m, r, q) == {x \in Nodes \X Ranks :
    x[1] \in Guessed(m, r, q) /\ x[2] # q /\ Least(x[2], Holders(m, x[1]))}

Owed(m, r, q) == {n \in Known(m, r, Around(m, r)) : q # r /\ Least(q, Holders(m, n))}
Exchanging(m, r, q) ==
    \/ Owed(m, r, q) # {} \/ Owed(m, q, r) # {}
    \/ Adjacent(m, r, q) # {} \/ Adjacent(m, q, r) # {}

ControlInv(r) ==
    /\ at[r] \in Places \ {"error"} /\ round[r] \in 1 .. 3
    /\ at[r] \in {"fix", "fixed"} => round[r] = 2
    /\ at[r] = "done" => round[r] = 3
    /\ todo[r] \subseteq Around(mesh, r)
    /\ IsList(neighbors[r], Around(mesh, r))
    /\ Neighbors(r) = IF at[r] = "done" THEN {q \in Around(mesh, r) : Exchanging(mesh, r, q)}
                      ELSE Around(mesh, r)

OwnInv(r) ==
    /\ IsList(localToGlobalMap[r], Nodes)
    /\ ToSet(localToGlobalMap[r]) = Known(mesh, r, Unpacked(r, 1))
    /\ round[r] = 1 /\ at[r] = "send" => localToGlobalMap[r] = Sorted(Local(mesh, r))
    /\ ghostRank[r] = [n \in Known(mesh, r, Unpacked(r, 1)) |-> ghostRank[r][n]]
    /\ \A n \in Known(mesh, r, Unpacked(r, 1)) :
            IsGhostRank(mesh, r, n, Unpacked(r, 1), Corrected(r), ghostRank[r][n])

ReceiveInv(r, q) ==
    /\ IsList(ghostsToReceive[r, q], Nodes)
    /\ round[r] > 1 => ToSet(ghostsToReceive[r, q]) =
            {n \in Known(mesh, r, Around(mesh, r)) : ghostRank[r][n] = q}

IsMessage(r, q, b) ==
    /\ b.round \in 0 .. 3 /\ IsList(b.items, Nodes)
    /\ b.round = 1 => ToSet(b.items) = Adjacent(mesh, r, q)
    /\ b.round = 2 => ToSet(b.items) = Guessed(mesh, r, q)
    /\ b.round = 3 => round[r] = 3 /\ b.items = ghostsToReceive[r, q]

SendInv(r, q) ==
    /\ IsList(ghostsToSend[r, q], Nodes)
    /\ nonLocalGhosts[r, q] \in Seq(Nodes \X Ranks) /\ IsInjective(nonLocalGhosts[r, q])
    /\ q \notin Around(mesh, r) => ghostsToSend[r, q] = << >>
    /\ q \in Unpacked(r, 2) \ Unpacked(r, 3) => ToSet(nonLocalGhosts[r, q]) = ThirdRank(mesh, q, r)
    /\ q \in Unpacked(r, 3) =>
            /\ round[q] = 3 /\ ghostsToSend[r, q] = ghostsToReceive[q, r]
            /\ nonLocalGhosts[r, q] = << >>
            /\ \A n \in ToSet(ghostsToSend[r, q]) : ghostRank[r][n] = -1
    /\ sends[45][<<r, q>>] \in {0, 1}
    /\ sends[45][<<r, q>>] > 0 => at[r] \in {"fix", "fixed"} /\ q \in Around(mesh, r)

\* What is a rank's own, and the messages it has packed
RankInv(r) == ControlInv(r) /\ OwnInv(r) /\ \A q \in Ranks :
    ReceiveInv(r, q) /\ SendInv(r, q) /\ IsMessage(r, q, sendBuffer[r, q])

ListTypeOK ==
    /\ localToGlobalMap = [r \in Ranks |-> localToGlobalMap[r]]
    /\ ghostRank = [r \in Ranks |-> ghostRank[r]]
    /\ ghostsToReceive = [p \in Pairs |-> ghostsToReceive[p]]
    /\ ghostsToSend = [p \in Pairs |-> ghostsToSend[p]]
    /\ nonLocalGhosts = [p \in Pairs |-> nonLocalGhosts[p]]

GInv ==
    /\ unordered \in BOOLEAN /\ mesh \in Meshes /\ ListTypeOK
    /\ \A r \in Ranks : RankInv(r)
    /\ \A r, q \in Ranks : IsMessage(r, q, recvBuffer[r, q])

\* What a step leaves of a rank and its lists
Kept(y) ==
    /\ at'[y] = at[y] /\ round'[y] = round[y] /\ todo'[y] = todo[y]
    /\ neighbors'[y] = neighbors[y]
    /\ localToGlobalMap'[y] = localToGlobalMap[y] /\ ghostRank'[y] = ghostRank[y]
    /\ \A q \in Ranks :
          /\ ghostsToReceive'[y, q] = ghostsToReceive[y, q]
          /\ ghostsToSend'[y, q] = ghostsToSend[y, q]
          /\ nonLocalGhosts'[y, q] = nonLocalGhosts[y, q]
          /\ sendBuffer'[y, q] = sendBuffer[y, q]
          /\ sends'[45][<<y, q>>] \in {0, sends[45][<<y, q>>]}

\* In round 3 it keeps the lists of what it receives.
ListsKept(y) == round[y] = 3 =>
    round'[y] = 3 /\ \A q \in Ranks : ghostsToReceive'[y, q] = ghostsToReceive[y, q]

\* A step of one rank
OnlyOf(r) ==
    /\ UNCHANGED <<mesh, unordered, recvBuffer>>
    /\ ListTypeOK' /\ ListsKept(r)
    /\ \A y \in Ranks \ {r} : Kept(y)
-----------------------------------------------------------------------------
(* The partition: which ranks are near another, and who has a node.          *)

LEMMA RanksAreFinite == IsFiniteSet(Ranks) /\ Ranks \subseteq Nat
  <1>1. 0 \in Int /\ RankCount - 1 \in Int
    BY RankCountAssumption
  <1> QED BY <1>1, FS_Interval DEF Ranks

\* -2 and -1 are no ranks.
LEMMA NoNegativeRank == \A a \in Ranks : a # -1 /\ a # -2 /\ ~(a < 0) /\ a >= 0
  BY RanksAreFinite

\* What is said of the rounds after the first holds in the third.
LEMMA ThirdIsLate == \A k : k = 3 => k > 1
  OBVIOUS

LEMMA MeshFacts ==
    ASSUME NEW m \in Meshes, NEW r \in Ranks, NEW q \in Ranks
    PROVE  /\ Local(m, r) \subseteq Nodes /\ IsFiniteSet(Local(m, r))
           /\ Adjacent(m, q, r) \subseteq Local(m, q)
           /\ \A n \in Local(m, q) : n \in Local(m, r) => n \in Adjacent(m, q, r)
           /\ q \in Touching(m, r) <=> (q # r /\ \E n : n \in Local(m, q) /\ n \in Local(m, r))
           /\ (q # r /\ Adjacent(m, q, r) # {}) => q \in Touching(m, r)
  <1>1. m[r] \subseteq SUBSET Nodes
    BY MeshAssumption
  <1>2. Local(m, r) \subseteq Nodes
    BY <1>1 DEF Local
  <1>3. IsFiniteSet(Local(m, r))
    BY <1>2, MeshAssumption, FS_Subset
  <1>4. Adjacent(m, q, r) \subseteq Local(m, q)
    BY DEF Adjacent, Local
  <1>5. ASSUME NEW n \in Local(m, q), n \in Local(m, r) PROVE n \in Adjacent(m, q, r)
    <2>1. PICK e \in m[q] : n \in e
      BY DEF Local
    <2>2. e \cap Local(m, r) # {}
      BY <2>1, <1>5
    <2> QED BY <2>1, <2>2 DEF Adjacent
  <1>6. q \in Touching(m, r) <=> (q # r /\ \E n : n \in Local(m, q) /\ n \in Local(m, r))
    BY DEF Touching
  <1>7. ASSUME q # r, Adjacent(m, q, r) # {} PROVE q \in Touching(m, r)
    <2>1. PICK e \in m[q] : e \cap Local(m, r) # {}
      BY <1>7 DEF Adjacent
    <2>2. PICK n \in e : n \in Local(m, r)
      BY <2>1
    <2>3. n \in Local(m, q)
      BY <2>2 DEF Local
    <2> QED BY <1>6, <1>7, <2>2, <2>3
  <1> QED BY <1>2, <1>3, <1>4, <1>5, <1>6, <1>7

\* To be around is mutual.
LEMMA AroundFacts ==
    ASSUME NEW m \in Meshes, NEW r \in Ranks, NEW q \in Ranks
    PROVE  /\ Around(m, r) \subseteq Ranks \ {r}
           /\ Touching(m, r) \subseteq Around(m, r)
           /\ q \in Touching(m, r) <=> r \in Touching(m, q)
           /\ \A p \in Ranks : q \in Touching(m, p) /\ p \in Touching(m, r) /\ q # r =>
                    q \in Around(m, r)
           /\ q \in Around(m, r) <=> r \in Around(m, q)
  <1>1. \A x, y \in Ranks : x \in Touching(m, y) <=> y \in Touching(m, x)
    BY MeshFacts
  <1>2. \A x \in Ranks : Touching(m, x) \subseteq Ranks \ {x}
    BY DEF Touching
  <1>3. \A x, y \in Ranks : x \in Around(m, y) <=>
            \/ x \in Touching(m, y)
            \/ x # y /\ \E p \in Ranks : x \in Touching(m, p) /\ p \in Touching(m, y)
    BY <1>2 DEF Around
  <1>4. Around(m, r) \subseteq Ranks \ {r}
    BY <1>2 DEF Around
  <1> QED BY <1>1, <1>3, <1>4 DEF Around

LEMMA AllNeighborsList ==
    ASSUME NEW m \in Meshes, NEW r \in Ranks
    PROVE  /\ IsList(AllNeighbors(m, r), Around(m, r))
           /\ ToSet(AllNeighbors(m, r)) = Around(m, r)
  <1> DEFINE first  == Touching(m, r)
             second == (UNION {Touching(m, q) : q \in Touching(m, r)})
                            \ (Touching(m, r) \cup {r})
  <1>1. /\ first \subseteq Ranks /\ second \subseteq Ranks /\ first \cap second = {}
        /\ r \notin first /\ first \cup second = Around(m, r)
    <2>1. \A x \in Ranks : Touching(m, x) \subseteq Ranks \ {x}
      BY DEF Touching
    <2>2. first \cup second = Around(m, r)
      BY <2>1 DEF Around
    <2> QED BY <2>1, <2>2
  <1>2. AllNeighbors(m, r) = Sorted(first) \o Sorted(second)
    BY DEF AllNeighbors
  <1> HIDE DEF first, second
  <1>3. \A S \in SUBSET Ranks : IsFiniteSet(S) /\ S \subseteq Int
    <2> TAKE S \in SUBSET Ranks
    <2>1. IsFiniteSet(S)
      BY RanksAreFinite, FS_Subset
    <2> QED BY <2>1, RanksAreFinite
  <1>4. /\ IsList(Sorted(first), first) /\ ToSet(Sorted(first)) = first
        /\ IsList(Sorted(second), second) /\ ToSet(Sorted(second)) = second
    BY <1>1, <1>3, SortedSet
  <1>5. IsList(Sorted(first), Around(m, r)) /\ IsList(Sorted(second), Around(m, r))
    BY <1>1, <1>4, SeqMonotonic DEF IsList
  <1>6. ToSet(Sorted(first)) \cap ToSet(Sorted(second)) = {}
    BY <1>1, <1>4
  <1>7. /\ IsList(Sorted(first) \o Sorted(second), Around(m, r))
        /\ ToSet(Sorted(first) \o Sorted(second)) = ToSet(Sorted(first)) \cup ToSet(Sorted(second))
    <2> DEFINE a == Sorted(first)
               b == Sorted(second)
               near == Around(m, r)
    <2>1. IsList(a, near) /\ IsList(b, near) /\ \A x \in ToSet(a) : x \notin ToSet(b)
      BY <1>5, <1>6
    <2> HIDE DEF a, b, near
    <2>2. IsList(a \o b, near) /\ ToSet(a \o b) = ToSet(a) \cup ToSet(b)
      BY <2>1, ConcatList
    <2> QED BY <2>2 DEF a, b, near
  <1> QED BY <1>1, <1>2, <1>4, <1>7

\* A local node belongs to the rank it is seen from first, if that is a lower one.
LEMMA LocalOwner ==
    ASSUME NEW m \in Meshes, NEW r \in Ranks, NEW n \in Local(m, r)
    PROVE  /\ \A o : Least(o, Owners(m, r, n, Around(m, r))) =>
                    Least(o, Holders(m, n)) /\ o < r
           /\ Owners(m, r, n, Around(m, r)) = {} => Least(r, Holders(m, n))
  <1>1. \A q \in Ranks : q \in Owners(m, r, n, Around(m, r)) <=> (n \in Local(m, q) /\ q < r)
    <2> TAKE q \in Ranks
    <2>1. ~(r < r)
      BY RanksAreFinite
    <2>2. n \in Local(m, q) /\ q # r => q \in Around(m, r)
      BY MeshFacts, AroundFacts
    <2>3. n \in Adjacent(m, q, r) <=> n \in Local(m, q)
      BY MeshFacts
    <2> QED BY <2>1, <2>2, <2>3 DEF Owners
  <1>2. Owners(m, r, n, Around(m, r)) \subseteq Ranks
    BY AroundFacts DEF Owners
  <1>3. r \in Holders(m, n) /\ Holders(m, n) \subseteq Ranks
        /\ \A q \in Ranks : q \in Holders(m, n) <=> n \in Local(m, q)
    BY DEF Holders
  <1>4. \A a, b, c \in Ranks : /\ a <= b \/ b < a
                               /\ a < b /\ b <= c => a <= c
    BY RanksAreFinite
  <1>5. ASSUME NEW o, Least(o, Owners(m, r, n, Around(m, r)))
        PROVE  Least(o, Holders(m, n)) /\ o < r
    <2>1. o \in Ranks /\ n \in Local(m, o) /\ o < r
          /\ \A q \in Owners(m, r, n, Around(m, r)) : o <= q
      BY <1>1, <1>2, <1>5 DEF Least
    <2>2. ASSUME NEW q \in Holders(m, n) PROVE o <= q
      <3>1. CASE q < r
        BY <3>1, <1>1, <1>3, <2>1
      <3>2. CASE r <= q
        BY <3>2, <1>3, <1>4, <2>1
      <3> QED BY <3>1, <3>2, <1>3, <1>4
    <2> QED BY <2>1, <2>2, <1>3 DEF Least
  <1>6. ASSUME Owners(m, r, n, Around(m, r)) = {} PROVE Least(r, Holders(m, n))
    BY <1>1, <1>3, <1>4, <1>6 DEF Least
  <1> QED BY <1>5, <1>6

\* The owner of a node a rank knows is around it.
LEMMA OwnerIsNear ==
    ASSUME NEW m \in Meshes, NEW r \in Ranks, NEW n \in Known(m, r, Around(m, r)),
           NEW o, Least(o, Holders(m, n)), o # r
    PROVE  o \in Around(m, r)
  <1>1. o \in Ranks /\ n \in Local(m, o)
    BY DEF Least, Holders
  <1>2. CASE n \in Local(m, r)
    BY <1>1, <1>2, MeshFacts, AroundFacts
  <1>3. CASE n \notin Local(m, r)
    <2>1. PICK q \in Around(m, r) : n \in Adjacent(m, q, r)
      BY <1>3 DEF Known
    <2>2. q \in Ranks /\ q # r
      BY <2>1, AroundFacts
    <2>3. q \in Touching(m, r) /\ n \in Local(m, q)
      BY <2>1, <2>2, MeshFacts
    <2>4. o = q \/ o \in Touching(m, q)
      BY <1>1, <2>2, <2>3, MeshFacts
    <2> QED BY <1>1, <2>2, <2>3, <2>4, AroundFacts
  <1> QED BY <1>2, <1>3

LEMMA KnownFacts ==
    ASSUME NEW m \in Meshes, NEW r \in Ranks, NEW H \in SUBSET Around(m, r)
    PROVE  Known(m, r, H) \subseteq Nodes /\ Known(m, r, {}) = Local(m, r)
  <1>1. \A q \in H : q \in Ranks
    BY AroundFacts
  <1>2. \A q \in H : Adjacent(m, q, r) \subseteq Nodes
    BY <1>1, MeshFacts
  <1>3. Local(m, r) \subseteq Nodes
    BY MeshFacts
  <1>4. Known(m, r, {}) = Local(m, r)
    BY DEF Known
  <1> QED BY <1>2, <1>3, <1>4 DEF Known

\* What r takes for q's is local to q.
LEMMA GuessedFacts ==
    ASSUME NEW m \in Meshes, NEW r \in Ranks, NEW q \in Ranks
    PROVE  Guessed(m, r, q) \subseteq Local(m, q) /\ Guessed(m, r, q) \subseteq Nodes
  <1>1. \A n \in Guessed(m, r, q) : n \in Adjacent(m, q, r)
    BY DEF Guessed, Least, Owners
  <1> QED BY <1>1, MeshFacts

-----------------------------------------------------------------------------
(* The initial state, and what a step does not touch.                        *)

LEMMA InitGInv == ASSUME Init PROVE GInv
  <1>1. mesh \in Meshes /\ unordered \in BOOLEAN
    BY DEF Init, CommInit
  <1>2. ListTypeOK
    BY DEF Init, ListTypeOK
  <1>3. ASSUME NEW S PROVE IsList(<< >>, S) /\ ToSet(<< >>) = {}
    BY EmptySeq DEF IsList, IsInjective, ToSet
  <1>4. ASSUME NEW r \in Ranks, NEW q \in Ranks PROVE IsMessage(r, q, Empty)
    BY <1>3 DEF IsMessage, Empty
  <1>5. ASSUME NEW r \in Ranks PROVE RankInv(r)
    <2>1. /\ at[r] = "send" /\ round[r] = 1 /\ todo[r] = {}
          /\ neighbors[r] = AllNeighbors(mesh, r)
          /\ localToGlobalMap[r] = Sorted(Local(mesh, r))
          /\ ghostRank[r] = [n \in Local(mesh, r) |-> -2]
      BY DEF Init, CommInit
    <2>2. Unpacked(r, 1) = {} /\ Unpacked(r, 2) = {} /\ Unpacked(r, 3) = {} /\ Corrected(r) = {}
      BY <2>1 DEF Unpacked, Corrected
    <2>3. ControlInv(r)
      BY <1>1, <2>1, AllNeighborsList DEF ControlInv, Places, Neighbors
    <2>4. OwnInv(r)
      <3>1. IsFiniteSet(Local(mesh, r)) /\ Local(mesh, r) \subseteq Nodes
            /\ Local(mesh, r) \subseteq Int
        <4>1. IsFiniteSet(Local(mesh, r)) /\ Local(mesh, r) \subseteq Nodes
          BY <1>1, MeshFacts
        <4>2. Nodes \subseteq Int
          BY MeshAssumption
        <4> QED BY <4>1, <4>2
      <3>2. /\ IsList(Sorted(Local(mesh, r)), Nodes)
            /\ ToSet(Sorted(Local(mesh, r))) = Local(mesh, r)
        BY <3>1, SortedSet, SeqMonotonic DEF IsList
      <3>3. Known(mesh, r, {}) = Local(mesh, r)
        BY DEF Known
      <3>4. \A n \in Local(mesh, r) : IsGhostRank(mesh, r, n, {}, {}, -2)
        BY DEF IsGhostRank, Owners
      <3> QED BY <2>1, <2>2, <3>2, <3>3, <3>4 DEF OwnInv
    <2>5. ASSUME NEW q \in Ranks
          PROVE  ReceiveInv(r, q) /\ SendInv(r, q) /\ IsMessage(r, q, sendBuffer[r, q])
      <3>1. <<r, q>> \in Pairs
        BY PairsOf
      <3>2. /\ ghostsToReceive[r, q] = << >> /\ ghostsToSend[r, q] = << >>
            /\ nonLocalGhosts[r, q] = << >> /\ sends[45][<<r, q>>] = 0
            /\ sendBuffer[r, q] = Empty
        BY <3>1 DEF Init, CommInit, Tags
      <3>5. /\ IsList(<< >>, Nodes) /\ IsList(<< >>, Nodes \X Ranks) /\ ToSet(<< >>) = {}
            /\ << >> \in Seq(Nodes \X Ranks) /\ IsInjective(<< >>)
        BY <1>3 DEF IsList
      <3>3. ReceiveInv(r, q)
        <4>1. ~(round[r] > 1)
          BY <2>1
        <4>2. IsList(ghostsToReceive[r, q], Nodes)
          BY <3>2, <3>5
        <4> QED BY <4>1, <4>2 DEF ReceiveInv
      <3>4. SendInv(r, q)
        <4>1. /\ IsList(ghostsToSend[r, q], Nodes)
              /\ nonLocalGhosts[r, q] \in Seq(Nodes \X Ranks) /\ IsInjective(nonLocalGhosts[r, q])
          BY <3>2, <3>5
        <4>2. sends[45][<<r, q>>] \in {0, 1} /\ ~(sends[45][<<r, q>>] > 0)
          <5> DEFINE count == sends[45][<<r, q>>]
          <5>1. count = 0
            BY <3>2
          <5> HIDE DEF count
          <5>2. count \in {0, 1} /\ ~(count > 0)
            BY <5>1
          <5> QED BY <5>2 DEF count
        <4> QED BY <2>2, <3>2, <4>1, <4>2 DEF SendInv
      <3> QED BY <3>2, <3>3, <3>4, <1>4
    <2> QED BY <2>3, <2>4, <2>5 DEF RankInv
  <1>6. ASSUME NEW r \in Ranks, NEW q \in Ranks PROVE IsMessage(r, q, recvBuffer[r, q])
    <2>1. recvBuffer[r, q] = Empty
      BY PairsOf DEF Init, CommInit
    <2> QED BY <2>1, <1>4
  <1> QED BY <1>1, <1>2, <1>5, <1>6 DEF GInv

\* A message stays one when its sender goes on.
LEMMA MessageStays ==
    ASSUME NEW y \in Ranks, NEW q \in Ranks, NEW b, IsMessage(y, q, b), mesh' = mesh,
           round[y] = 3 => round'[y] = 3 /\ ghostsToReceive'[y, q] = ghostsToReceive[y, q]
    PROVE  /\ b.round \in 0 .. 3 /\ IsList(b.items, Nodes)
           /\ b.round = 1 => ToSet(b.items) = Adjacent(mesh', y, q)
           /\ b.round = 2 => ToSet(b.items) = Guessed(mesh', y, q)
           /\ b.round = 3 => round'[y] = 3 /\ b.items = ghostsToReceive'[y, q]
  BY DEF IsMessage

LEMMA KeptRankInv ==
    ASSUME GInv, mesh' = mesh, \A x \in Ranks : ListsKept(x), NEW y \in Ranks, Kept(y)
    PROVE  RankInv(y)'
  <1>1. /\ at'[y] = at[y] /\ round'[y] = round[y] /\ todo'[y] = todo[y]
        /\ neighbors'[y] = neighbors[y] /\ mesh' = mesh
        /\ localToGlobalMap'[y] = localToGlobalMap[y] /\ ghostRank'[y] = ghostRank[y]
    BY DEF Kept
  <1>2. /\ Unpacked(y, 1)' = Unpacked(y, 1) /\ Unpacked(y, 2)' = Unpacked(y, 2)
        /\ Unpacked(y, 3)' = Unpacked(y, 3) /\ Corrected(y)' = Corrected(y)
        /\ Neighbors(y)' = Neighbors(y)
    BY <1>1 DEF Unpacked, Corrected, Neighbors
  <1>3. RankInv(y)
    BY DEF GInv
  <1>4. ControlInv(y)'
    BY <1>1, <1>2, <1>3 DEF RankInv, ControlInv
  <1>5. OwnInv(y)'
    <2> DEFINE K == Known(mesh, y, Unpacked(y, 1))
    <2>1. OwnInv(y) /\ K' = K
      BY <1>1, <1>2, <1>3 DEF RankInv
    <2>2. \A n \in K : IsGhostRank(mesh, y, n, Unpacked(y, 1), Corrected(y), ghostRank[y][n])'
      BY <1>1, <1>2, <2>1 DEF OwnInv
    <2>3. (ghostRank[y] = [n \in K |-> ghostRank[y][n]])'
      <3>1. ghostRank[y] = [n \in K |-> ghostRank[y][n]]
        BY <2>1 DEF OwnInv
      <3> QED BY <1>1, <2>1, <3>1
    <2>4. (round[y] = 1 /\ at[y] = "send" => localToGlobalMap[y] = Sorted(Local(mesh, y)))'
      BY <1>1, <2>1 DEF OwnInv
    <2>5. (IsList(localToGlobalMap[y], Nodes) /\ ToSet(localToGlobalMap[y]) = K)'
      BY <1>1, <2>1 DEF OwnInv
    <2> QED BY <2>1, <2>2, <2>3, <2>4, <2>5 DEF OwnInv
  <1>6. ASSUME NEW q \in Ranks
        PROVE  (ReceiveInv(y, q) /\ SendInv(y, q) /\ IsMessage(y, q, sendBuffer[y, q]))'
    <2>1. /\ ghostsToReceive'[y, q] = ghostsToReceive[y, q]
          /\ ghostsToSend'[y, q] = ghostsToSend[y, q]
          /\ nonLocalGhosts'[y, q] = nonLocalGhosts[y, q]
          /\ sendBuffer'[y, q] = sendBuffer[y, q]
          /\ sends'[45][<<y, q>>] \in {0, sends[45][<<y, q>>]}
      BY DEF Kept
    <2>2. ReceiveInv(y, q) /\ SendInv(y, q) /\ IsMessage(y, q, sendBuffer[y, q])
      BY <1>3 DEF RankInv
    <2>3. ReceiveInv(y, q)'
      BY <1>1, <2>1, <2>2 DEF ReceiveInv
    <2>4. round[q] = 3 => round'[q] = 3 /\ ghostsToReceive'[q, y] = ghostsToReceive[q, y]
      BY DEF ListsKept
    <2>5. SendInv(y, q)'
      <3>1. (q \in Unpacked(y, 3) =>
              /\ round[q] = 3 /\ ghostsToSend[y, q] = ghostsToReceive[q, y]
              /\ nonLocalGhosts[y, q] = << >>
              /\ \A n \in ToSet(ghostsToSend[y, q]) : ghostRank[y][n] = -1)'
        BY <1>1, <1>2, <2>1, <2>2, <2>4 DEF SendInv
      <3>2. (q \in Unpacked(y, 2) \ Unpacked(y, 3) =>
                  ToSet(nonLocalGhosts[y, q]) = ThirdRank(mesh, q, y))'
        BY <1>1, <1>2, <2>1, <2>2 DEF SendInv
      <3>3. (/\ IsList(ghostsToSend[y, q], Nodes)
             /\ nonLocalGhosts[y, q] \in Seq(Nodes \X Ranks) /\ IsInjective(nonLocalGhosts[y, q])
             /\ q \notin Around(mesh, y) => ghostsToSend[y, q] = << >>)'
        BY <1>1, <2>1, <2>2 DEF SendInv
      <3>4. (/\ sends[45][<<y, q>>] \in {0, 1}
             /\ sends[45][<<y, q>>] > 0 => at[y] \in {"fix", "fixed"} /\ q \in Around(mesh, y))'
        <4>1. /\ sends[45][<<y, q>>] \in {0, 1}
              /\ sends[45][<<y, q>>] > 0 => at[y] \in {"fix", "fixed"} /\ q \in Around(mesh, y)
          BY <2>2 DEF SendInv
        <4> DEFINE before == sends[45][<<y, q>>]
                   after  == sends'[45][<<y, q>>]
        <4>2. after \in {0, before} /\ before \in {0, 1}
          BY <2>1, <4>1
        <4>3. after \in {0, 1} /\ (after > 0 => before > 0)
          <5> HIDE DEF before, after
          <5> QED BY <4>2
        <4> QED BY <1>1, <4>1, <4>3
      <3> QED BY <3>1, <3>2, <3>3, <3>4 DEF SendInv
    <2>6. IsMessage(y, q, sendBuffer[y, q])'
      BY <1>1, <2>1, <2>2, MessageStays DEF IsMessage, ListsKept
    <2> QED BY <2>3, <2>5, <2>6
  <1> QED BY <1>4, <1>5, <1>6 DEF RankInv

LEMMA OnlyOfGInv == ASSUME GInv, NEW r \in Ranks, OnlyOf(r), RankInv(r)' PROVE GInv'
  <1>1. mesh' = mesh /\ unordered' = unordered /\ recvBuffer' = recvBuffer /\ ListTypeOK'
    BY DEF OnlyOf
  <1>2. \A y \in Ranks : ListsKept(y)
    BY ZenonT(40) DEF OnlyOf, Kept, ListsKept
  <1>3. ASSUME NEW y \in Ranks, NEW q \in Ranks PROVE IsMessage(y, q, recvBuffer[y, q])'
    <2>1. IsMessage(y, q, recvBuffer[y, q])
      BY DEF GInv
    <2> QED BY <1>1, <1>2, <2>1, MessageStays DEF IsMessage, ListsKept
  <1>4. ASSUME NEW y \in Ranks \ {r} PROVE RankInv(y)'
    BY <1>1, <1>2, KeptRankInv DEF OnlyOf
  <1> QED BY <1>1, <1>3, <1>4 DEF GInv

\* MPI changes the requests and the received buffers only.
LEMMA DeliveryGInv ==
    ASSUME GInv, UNCHANGED <<neighbors, unordered, control, sendBuffer, mesh, lists>>,
           sends'[45] = sends[45],
           \A y, q \in Ranks : recvBuffer'[y, q] \in {recvBuffer[y, q], sendBuffer[y, q]}
    PROVE  GInv'
  <1>1. UNCHANGED <<neighbors, unordered, round, at, todo, sendBuffer, mesh, localToGlobalMap,
                    ghostRank, ghostsToReceive, ghostsToSend, nonLocalGhosts>>
    BY DEF control, lists
  <1>2. \A y \in Ranks : Kept(y) /\ ListsKept(y)
    BY <1>1 DEF Kept, ListsKept
  <1>3. ASSUME NEW y \in Ranks PROVE RankInv(y)'
    BY <1>1, <1>2, KeptRankInv
  <1>4. ASSUME NEW y \in Ranks, NEW q \in Ranks PROVE IsMessage(y, q, recvBuffer[y, q])'
    <2>1. IsMessage(y, q, recvBuffer[y, q]) /\ IsMessage(y, q, sendBuffer[y, q])
      BY DEF GInv, RankInv
    <2>2. IsMessage(y, q, recvBuffer'[y, q])
      BY <2>1
    <2> QED BY <1>1, <1>2, <2>2, MessageStays DEF IsMessage, ListsKept
  <1>5. ListTypeOK'
    BY <1>1 DEF GInv, ListTypeOK
  <1> QED BY <1>1, <1>3, <1>4, <1>5 DEF GInv

-----------------------------------------------------------------------------
(* The steps that leave all lists alone.                                     *)

LEMMA ControlStepGInv ==
    ASSUME GInv, NEW r \in Ranks, UNCHANGED <<mesh, unordered, recvBuffer, lists>>,
           \A y \in Ranks \ {r} :
                /\ at'[y] = at[y] /\ round'[y] = round[y] /\ todo'[y] = todo[y]
                /\ neighbors'[y] = neighbors[y]
                /\ \A q \in Ranks : /\ sendBuffer'[y, q] = sendBuffer[y, q]
                                    /\ sends'[45][<<y, q>>] = sends[45][<<y, q>>],
           round[r] = 3 => round'[r] = 3, round'[r] > 1 => round[r] > 1,
           ~(round'[r] = 1 /\ at'[r] = "send"),
           Unpacked(r, 1)' = Unpacked(r, 1), Unpacked(r, 2)' = Unpacked(r, 2),
           Unpacked(r, 3)' = Unpacked(r, 3), Corrected(r)' = Corrected(r),
           ControlInv(r)',
           \A q \in Ranks :
                /\ IsMessage(r, q, sendBuffer[r, q])'
                /\ sends'[45][<<r, q>>] \in {0, 1}
                /\ sends'[45][<<r, q>>] > 0 => at'[r] \in {"fix", "fixed"} /\ q \in Around(mesh, r)
    PROVE  GInv'
  <1>1. UNCHANGED <<mesh, unordered, recvBuffer, localToGlobalMap, ghostRank, ghostsToReceive,
                    ghostsToSend, nonLocalGhosts>>
    BY DEF lists
  <1>2. \A y \in Ranks : ListsKept(y)
    BY <1>1 DEF ListsKept
  <1>3. ListTypeOK'
    BY <1>1 DEF GInv, ListTypeOK
  <1>4. \A y \in Ranks \ {r} : Kept(y)
    BY <1>1 DEF Kept
  <1>5. RankInv(r)
    BY DEF GInv
  <1>6. OwnInv(r)'
    <2> DEFINE K == Known(mesh, r, Unpacked(r, 1))
    <2>1. OwnInv(r) /\ K' = K
      BY <1>1, <1>5 DEF RankInv
    <2>2. \A n \in K : IsGhostRank(mesh, r, n, Unpacked(r, 1), Corrected(r), ghostRank[r][n])'
      BY <1>1, <2>1 DEF OwnInv
    <2>3. (ghostRank[r] = [n \in K |-> ghostRank[r][n]])'
      <3>1. ghostRank[r] = [n \in K |-> ghostRank[r][n]]
        BY <2>1 DEF OwnInv
      <3> QED BY <1>1, <2>1, <3>1
    <2>4. (IsList(localToGlobalMap[r], Nodes) /\ ToSet(localToGlobalMap[r]) = K)'
      BY <1>1, <2>1 DEF OwnInv
    <2> QED BY <2>1, <2>2, <2>3, <2>4 DEF OwnInv
  <1>7. ASSUME NEW q \in Ranks PROVE ReceiveInv(r, q)' /\ SendInv(r, q)'
    <2>1. ReceiveInv(r, q) /\ SendInv(r, q)
      BY <1>5 DEF RankInv
    <2>2. ReceiveInv(r, q)'
      BY <1>1, <2>1 DEF ReceiveInv
    <2>3. round[q] = 3 => round'[q] = 3
      BY <1>2 DEF ListsKept
    <2>4. (q \in Unpacked(r, 3) =>
            /\ round[q] = 3 /\ ghostsToSend[r, q] = ghostsToReceive[q, r]
            /\ nonLocalGhosts[r, q] = << >>
            /\ \A n \in ToSet(ghostsToSend[r, q]) : ghostRank[r][n] = -1)'
      BY <1>1, <2>1, <2>3 DEF SendInv
    <2>5. (q \in Unpacked(r, 2) \ Unpacked(r, 3) =>
                ToSet(nonLocalGhosts[r, q]) = ThirdRank(mesh, q, r))'
      BY <1>1, <2>1 DEF SendInv
    <2>6. (/\ IsList(ghostsToSend[r, q], Nodes)
           /\ nonLocalGhosts[r, q] \in Seq(Nodes \X Ranks) /\ IsInjective(nonLocalGhosts[r, q])
           /\ q \notin Around(mesh, r) => ghostsToSend[r, q] = << >>)'
      BY <1>1, <2>1 DEF SendInv
    <2>7. (/\ sends[45][<<r, q>>] \in {0, 1}
           /\ sends[45][<<r, q>>] > 0 => at[r] \in {"fix", "fixed"} /\ q \in Around(mesh, r))'
      BY <1>1
    <2> QED BY <2>2, <2>4, <2>5, <2>6, <2>7 DEF SendInv
  <1>8. OnlyOf(r)
    BY <1>1, <1>2, <1>3, <1>4 DEF OnlyOf
  <1>9. RankInv(r)'
    BY <1>6, <1>7 DEF RankInv
  <1> QED BY <1>8, <1>9, OnlyOfGInv

\* Where a rank is known to be, and what it has unpacked there
LEMMA StageFacts ==
    ASSUME GInv, NEW r \in Ranks
    PROVE  /\ at[r] \in Places \ {"error"} /\ round[r] \in {1, 2, 3}
           /\ todo[r] \subseteq Around(mesh, r)
           /\ at[r] # "done" => Neighbors(r) = Around(mesh, r)
           /\ Around(mesh, r) \subseteq Ranks \ {r}
           /\ at[r] = "send" \/ at[r] = "sizes" =>
                /\ Unpacked(r, 1) = IF round[r] = 1 THEN {} ELSE Around(mesh, r)
                /\ Unpacked(r, 2) = IF round[r] = 3 THEN Around(mesh, r) ELSE {}
                /\ Unpacked(r, 3) = {}
                /\ Corrected(r) = IF round[r] = 3 THEN Around(mesh, r) ELSE {}
           /\ \A n \in {1, 2, 3} : round[r] = n /\ at[r] = "data" =>
                    Unpacked(r, n) = Around(mesh, r) \ todo[r]
           /\ \A n \in {1, 2, 3} : round[r] = n /\ at[r] = "wait" =>
                    Unpacked(r, n) = Around(mesh, r)
           /\ round[r] > 1 => Unpacked(r, 1) = Around(mesh, r)
           /\ round[r] = 1 => Unpacked(r, 2) = {}
           /\ round[r] = 3 => Unpacked(r, 2) = Around(mesh, r)
           /\ round[r] # 3 => Unpacked(r, 3) = {}
  <1>1. RankInv(r) /\ mesh \in Meshes
    BY DEF GInv
  <1>2. ControlInv(r)
    BY <1>1 DEF RankInv
  <1>3. round[r] \in {1, 2, 3}
    BY <1>2 DEF ControlInv
  <1>4. Around(mesh, r) \subseteq Ranks \ {r}
    BY <1>1, AroundFacts
  <1>5. /\ at[r] \in Places \ {"error"} /\ todo[r] \subseteq Around(mesh, r)
        /\ at[r] # "done" => Neighbors(r) = Around(mesh, r)
        /\ at[r] \in {"fix", "fixed"} => round[r] = 2
    BY <1>2 DEF ControlInv
  <1>7. CASE round[r] = 1
    BY <1>4, <1>5, <1>7 DEF Unpacked, Corrected
  <1>8. CASE round[r] = 2
    BY <1>4, <1>5, <1>8 DEF Unpacked, Corrected
  <1>9. CASE round[r] = 3
    BY <1>4, <1>5, <1>9 DEF Unpacked, Corrected
  <1> QED BY <1>3, <1>7, <1>8, <1>9

\* The nodes a rank takes for another's, before any is corrected
LEMMA GuessedIs ==
    ASSUME GInv, NEW r \in Ranks, NEW q \in Ranks, round[r] > 1, Corrected(r) = {},
           Unpacked(r, 1) = Around(mesh, r)
    PROVE  {n \in Known(mesh, r, Around(mesh, r)) : ghostRank[r][n] = q} = Guessed(mesh, r, q)
  <1>1. OwnInv(r) /\ mesh \in Meshes
    BY DEF GInv, RankInv
  <1>2. ASSUME NEW n \in Known(mesh, r, Around(mesh, r))
        PROVE  ghostRank[r][n] = q <=> Least(q, Owners(mesh, r, n, Around(mesh, r)))
    <2> DEFINE owners == Owners(mesh, r, n, Around(mesh, r))
    <2>1. IsGhostRank(mesh, r, n, Around(mesh, r), {}, ghostRank[r][n])
      BY <1>1 DEF OwnInv
    <2>2. owners \subseteq Ranks
      BY <1>1, AroundFacts DEF Owners
    <2>3. q # -1 /\ q # -2
      BY RanksAreFinite
    <2>4. \A a, b \in Ranks : a <= b /\ b <= a => a = b
      BY RanksAreFinite
    <2>5. \/ owners = {} /\ ghostRank[r][n] \in {-2, -1}
          \/ \E g \in Ranks : Least(g, owners) /\ ghostRank[r][n] = g
      BY <2>1 DEF IsGhostRank
    <2> HIDE DEF owners
    <2> QED BY <2>2, <2>3, <2>4, <2>5 DEF Least, owners
  <1> QED BY <1>2 DEF Guessed

\* Packing a buffer: the nodes of the elements that touch the neighbour, then
\* what is taken for the neighbour's, then what is.
LEMMA PackedFacts ==
    ASSUME GInv, NEW r \in Ranks, at[r] = "send", NEW q \in Ranks
    PROVE  IsMessage(r, q, [round |-> round[r], items |-> Packed(r)[q]])
  <1> DEFINE items == Packed(r)[q]
             b     == [round |-> round[r], items |-> items]
  <1>1. OwnInv(r) /\ ReceiveInv(r, q) /\ mesh \in Meshes
    BY DEF GInv, RankInv
  <1>2. round[r] \in {1, 2, 3}
    BY StageFacts
  <1>3. CASE round[r] = 1
    <2>1. localToGlobalMap[r] = Sorted(Local(mesh, r)) /\ IsList(localToGlobalMap[r], Nodes)
          /\ ToSet(localToGlobalMap[r]) = Known(mesh, r, Unpacked(r, 1))
      BY <1>1, <1>3 DEF OwnInv
    <2>2. Known(mesh, r, Unpacked(r, 1)) = Local(mesh, r)
      BY <1>3, StageFacts DEF Known
    <2>3. items = Among(localToGlobalMap[r], Adjacent(mesh, r, q))
      BY <1>3 DEF Packed
    <2>4. IsList(items, Nodes) /\ ToSet(items) = Local(mesh, r) \cap Adjacent(mesh, r, q)
      BY <2>1, <2>2, <2>3, AmongList
    <2>5. ToSet(items) = Adjacent(mesh, r, q)
      BY <1>1, <2>4, MeshFacts
    <2> HIDE DEF items
    <2>6. b.round = 1 /\ b.items = items
      BY <1>3
    <2> HIDE DEF b
    <2>7. IsMessage(r, q, b)
      BY <2>4, <2>5, <2>6 DEF IsMessage
    <2> QED BY <2>7 DEF b, items
  <1>4. CASE round[r] # 1
    <2>1. items = ghostsToReceive[r, q]
      BY <1>4 DEF Packed
    <2>2. IsList(items, Nodes)
      BY <1>1, <2>1 DEF ReceiveInv
    <2>3. ASSUME round[r] = 2 PROVE ToSet(items) = Guessed(mesh, r, q)
      <3>1. Unpacked(r, 1) = Around(mesh, r) /\ Corrected(r) = {} /\ round[r] > 1
        BY <2>3, StageFacts
      <3>2. {n \in Known(mesh, r, Around(mesh, r)) : ghostRank[r][n] = q} = Guessed(mesh, r, q)
        BY <3>1, GuessedIs
      <3>3. ToSet(ghostsToReceive[r, q]) =
                {n \in Known(mesh, r, Around(mesh, r)) : ghostRank[r][n] = q}
        BY <1>1, <3>1 DEF ReceiveInv
      <3> QED BY <2>1, <3>2, <3>3
    <2> HIDE DEF items
    <2>4. b.round = round[r] /\ b.items = items
      OBVIOUS
    <2> HIDE DEF b
    <2>5. IsMessage(r, q, b)
      <3>1. b.round \in {2, 3} /\ b.round = round[r] /\ IsList(b.items, Nodes)
        BY <1>2, <1>4, <2>2, <2>4
      <3>2. b.round = 2 => ToSet(b.items) = Guessed(mesh, r, q)
        BY <2>3, <2>4
      <3>3. b.round = 3 => round[r] = 3 /\ b.items = ghostsToReceive[r, q]
        BY <2>1, <2>4
      <3>4. b.round \in 0 .. 3 /\ b.round # 1
        <4> DEFINE k == b.round
        <4>1. k \in {2, 3}
          BY <3>1
        <4> HIDE DEF k
        <4>2. k \in 0 .. 3 /\ k # 1
          BY <4>1
        <4> QED BY <4>2 DEF k
      <3> QED BY <3>1, <3>2, <3>3, <3>4 DEF IsMessage
    <2> QED BY <2>5 DEF b, items
  <1> QED BY <1>3, <1>4

LEMMA SendGInv == ASSUME IInv, GInv, NEW r \in Ranks, Send(r) PROVE GInv'
  <1>1. /\ at[r] = "send" /\ UNCHANGED <<mesh, lists, neighbors, unordered, round, recvBuffer>>
        /\ \A y \in Ranks \ {r} : at'[y] = at[y] /\ todo'[y] = todo[y]
        /\ todo'[r] = Neighbors(r) /\ at'[r] = Unless(Neighbors(r), "sizes", "wait")
    BY DEF Send, SendTo, IInv, CommTypeOK
  <1>2. sends'[45] = sends[45]
    BY DEF Send, SendTo, IInv, CommTypeOK, Tags
  <1>3. \A y, q \in Ranks : sendBuffer'[y, q] =
            IF y = r /\ q \in Neighbors(r)
            THEN [round |-> round[r], items |-> Packed(r)[q]] ELSE sendBuffer[y, q]
    <2>1. sendBuffer' = [p \in Pairs |-> IF p \in Out(r)
                            THEN [round |-> round[r], items |-> Packed(r)[p[2]]]
                            ELSE sendBuffer[p]]
      BY DEF Send, SendTo
    <2> TAKE y, q \in Ranks
    <2>2. <<y, q>> \in Pairs /\ (<<y, q>> \in Out(r) <=> y = r /\ q \in Neighbors(r))
      BY PairsOf
    <2> HIDE DEF Packed
    <2> QED BY <2>1, <2>2
  <1>4. /\ Neighbors(r) = Around(mesh, r) /\ Neighbors(r)' = Neighbors(r)
        /\ RankInv(r)
    BY <1>1, StageFacts DEF Neighbors, GInv
  <1>5. at'[r] = "sizes" \/ (at'[r] = "wait" /\ Around(mesh, r) = {})
    BY <1>1, <1>4 DEF Unless
  <1>6. /\ Unpacked(r, 1)' = Unpacked(r, 1) /\ Unpacked(r, 2)' = Unpacked(r, 2)
        /\ Unpacked(r, 3)' = Unpacked(r, 3) /\ Corrected(r)' = Corrected(r)
    BY <1>1, <1>5, StageFacts DEF Unpacked, Corrected
  <1>7. ControlInv(r)'
    BY <1>1, <1>4, <1>5 DEF ControlInv, RankInv, Places
  <1>8. ASSUME NEW q \in Ranks PROVE IsMessage(r, q, sendBuffer[r, q])'
    <2>1. IsMessage(r, q, sendBuffer'[r, q])
      BY <1>1, <1>3, <1>4, PackedFacts DEF RankInv
    <2>2. ghostsToReceive' = ghostsToReceive
      BY <1>1 DEF lists
    <2> QED BY <1>1, <2>1, <2>2 DEF IsMessage
  <1>9. ASSUME NEW q \in Ranks
        PROVE  /\ sends'[45][<<r, q>>] \in {0, 1}
               /\ sends'[45][<<r, q>>] > 0 => at'[r] \in {"fix", "fixed"} /\ q \in Around(mesh, r)
    <2>1. SendInv(r, q)
      BY <1>4 DEF RankInv
    <2>2. sends[45][<<r, q>>] \in {0, 1} /\ ~(sends[45][<<r, q>>] > 0)
      BY <1>1, <2>1 DEF SendInv
    <2> QED BY <1>2, <2>2
  <1>10. /\ round[r] = 3 => round'[r] = 3
         /\ round'[r] > 1 => round[r] > 1
         /\ ~(round'[r] = 1 /\ at'[r] = "send")
    BY <1>1, <1>5
  <1>11. \A y \in Ranks \ {r} :
                /\ at'[y] = at[y] /\ round'[y] = round[y] /\ todo'[y] = todo[y]
                /\ neighbors'[y] = neighbors[y]
                /\ \A q \in Ranks : /\ sendBuffer'[y, q] = sendBuffer[y, q]
                                    /\ sends'[45][<<y, q>>] = sends[45][<<y, q>>]
    BY <1>1, <1>2, <1>3
  <1> QED BY <1>1, <1>6, <1>7, <1>8, <1>9, <1>10, <1>11, ControlStepGInv

LEMMA PostRecvGInv ==
    ASSUME IInv, GInv, NEW r \in Ranks, NEW q \in Neighbors(r), PostRecv(r, q) PROVE GInv'
  <1>1. /\ at[r] = "sizes"
        /\ UNCHANGED <<mesh, lists, neighbors, unordered, round, sendBuffer, recvBuffer>>
        /\ UNCHANGED sends
        /\ \A y \in Ranks \ {r} : at'[y] = at[y] /\ todo'[y] = todo[y]
        /\ \/ at'[r] = "sizes" /\ todo'[r] = todo[r] \ {q}
           \/ at'[r] = "data" /\ todo'[r] = Neighbors(r)
    BY DEF PostRecv, SizeArrived, Unless, IInv, CommTypeOK
  <1>2. /\ Neighbors(r) = Around(mesh, r) /\ Neighbors(r)' = Neighbors(r)
        /\ RankInv(r)
    BY <1>1, StageFacts DEF Neighbors, GInv
  <1>3. /\ Unpacked(r, 1)' = Unpacked(r, 1) /\ Unpacked(r, 2)' = Unpacked(r, 2)
        /\ Unpacked(r, 3)' = Unpacked(r, 3) /\ Corrected(r)' = Corrected(r)
    BY <1>1, <1>2, StageFacts DEF Unpacked, Corrected
  <1>4. ControlInv(r)'
    BY <1>1, <1>2 DEF ControlInv, RankInv, Places
  <1>5. ASSUME NEW x \in Ranks PROVE IsMessage(r, x, sendBuffer[r, x])'
    <2>1. ghostsToReceive' = ghostsToReceive
      BY <1>1 DEF lists
    <2> QED BY <1>1, <1>2, <2>1 DEF IsMessage, RankInv
  <1>6. ASSUME NEW x \in Ranks
        PROVE  /\ sends'[45][<<r, x>>] \in {0, 1}
               /\ sends'[45][<<r, x>>] > 0 => at'[r] \in {"fix", "fixed"} /\ x \in Around(mesh, r)
    <2>1. SendInv(r, x)
      BY <1>2 DEF RankInv
    <2>2. sends[45][<<r, x>>] \in {0, 1} /\ ~(sends[45][<<r, x>>] > 0)
      BY <1>1, <2>1 DEF SendInv
    <2> QED BY <1>1, <2>2
  <1>7. /\ round[r] = 3 => round'[r] = 3
        /\ round'[r] > 1 => round[r] > 1
        /\ ~(round'[r] = 1 /\ at'[r] = "send")
    BY <1>1
  <1> QED BY <1>1, <1>3, <1>4, <1>5, <1>6, <1>7, ControlStepGInv

-----------------------------------------------------------------------------
(* Unpacking a message of round 1.                                           *)

\* The message that has arrived is one of the round, as long as announced, and
\* its sender is one not unpacked before.
LEMMA ArrivedFacts ==
    ASSUME IInv, GInv, NEW r \in Ranks, NEW q \in Neighbors(r), NEW good, DataArrived(r, q, good)
    PROVE  /\ q \in Ranks /\ q # r /\ q \in Around(mesh, r)
           /\ recvBuffer[q, r].round = round[r]
           /\ Len(recvBuffer[q, r].items) = recvSize[q, r]
           /\ IsMessage(q, r, recvBuffer[q, r])
           /\ at[r] = "data" /\ q \notin Unpacked(r, round[r])
  <1>1. at[r] = "data" /\ q \in todo[r] /\ recvs[102][<<q, r>>] = "complete"
    BY DEF DataArrived, Arrived
  <1>2. q \in Ranks /\ q # r /\ q \in Around(mesh, r)
    BY <1>1, StageFacts
  <1>3. ContentInv(q, r)
    BY <1>2 DEF IInv, PairInv
  <1>4. recvBuffer[q, r].round = round[r] /\ Len(recvBuffer[q, r].items) = recvSize[q, r]
    BY <1>1, <1>3 DEF ContentInv
  <1>5. IsMessage(q, r, recvBuffer[q, r])
    BY <1>2 DEF GInv
  <1>6. q \notin Unpacked(r, round[r])
    BY <1>1, StageFacts
  <1> QED BY <1>1, <1>2, <1>4, <1>5, <1>6

\* After it the sender is one that has been.
LEMMA UnpackedStep ==
    ASSUME IInv, GInv, NEW r \in Ranks, NEW q \in Neighbors(r), DataArrived(r, q, TRUE),
           mesh' = mesh
    PROVE  /\ ControlInv(r)' /\ at'[r] \in {"data", "wait"}
           /\ \A n \in {1, 2, 3} : Unpacked(r, n)' =
                    IF n = round[r] THEN Unpacked(r, n) \cup {q} ELSE Unpacked(r, n)
           /\ Corrected(r)' = Corrected(r)
  <1>1. /\ at[r] = "data" /\ q \in todo[r] /\ UNCHANGED <<neighbors, round>>
        /\ todo'[r] = todo[r] \ {q} /\ at'[r] = Unless(todo[r] \ {q}, "data", "wait")
    BY DEF DataArrived, Arrived, IInv, CommTypeOK
  <1>2. at'[r] = "data" \/ (at'[r] = "wait" /\ todo[r] \subseteq {q})
    BY <1>1 DEF Unless
  <1>3. RankInv(r) /\ Neighbors(r)' = Neighbors(r)
    BY <1>1 DEF GInv, Neighbors
  <1>4. ControlInv(r)'
    BY <1>1, <1>2, <1>3 DEF ControlInv, RankInv, Places
  <1>5. round[r] \in {1, 2, 3} /\ todo[r] \subseteq Around(mesh, r)
    BY StageFacts
  <1>6. \A n \in {1, 2, 3} : Unpacked(r, n)' =
            IF n = round[r] THEN Unpacked(r, n) \cup {q} ELSE Unpacked(r, n)
    <2>1. Around(mesh, r) \ (todo[r] \ {q}) = (Around(mesh, r) \ todo[r]) \cup {q}
      BY <1>1, <1>5
    <2>2. todo[r] \subseteq {q} => Around(mesh, r) = (Around(mesh, r) \ todo[r]) \cup {q}
      BY <1>1, <1>5
    <2>3. \A n \in {1, 2, 3} : n = round[r] => ~(round[r] > n)
      OBVIOUS
    <2> QED BY <1>1, <1>2, <2>1, <2>2, <2>3 DEF Unpacked
  <1>7. Corrected(r)' = Corrected(r)
    BY <1>1, <1>2 DEF Corrected
  <1> QED BY <1>2, <1>4, <1>6, <1>7

\* The owner a rank knows is the least of those it has heard of, when it hears
\* of one more.
LEMMA SeenOwnerFacts ==
    ASSUME NEW m \in Meshes, NEW r \in Ranks, NEW q \in Ranks, NEW H \in SUBSET Ranks,
           q \notin H, NEW n \in Known(m, r, H), NEW o, IsGhostRank(m, r, n, H, {}, o)
    PROVE  IsGhostRank(m, r, n, H \cup {q}, {},
                IF n \in Adjacent(m, q, r) THEN SeenOwner(r, q, o) ELSE o)
  <1> DEFINE owners == Owners(m, r, n, H)
             more   == Owners(m, r, n, H \cup {q})
  <1>1. more = owners \cup
            IF n \in Adjacent(m, q, r) /\ (n \in Local(m, r) => q < r) THEN {q} ELSE {}
    BY DEF Owners
  <1>2. \/ owners = {} /\ o \in {-2, -1}
        \/ o \in Ranks /\ Least(o, owners)
    BY DEF IsGhostRank
  <1>3. owners \subseteq H /\ \A x \in owners : n \in Local(m, r) => x < r
    BY DEF Owners
  <1>4. CASE n \notin Adjacent(m, q, r)
    BY <1>1, <1>4 DEF IsGhostRank
  <1>5. CASE n \in Adjacent(m, q, r) /\ owners = {} /\ o \in {-2, -1}
    <2>1. n \in Local(m, r)
      BY <1>5 DEF Known, Owners
    <2>2. o <= -1 /\ ~(q < o) /\ q <= q
      BY <1>5, RanksAreFinite
    <2>3. CASE q < r
      <3>1. more = {q} /\ SeenOwner(r, q, o) = q
        BY <1>1, <1>5, <2>1, <2>2, <2>3 DEF SeenOwner
      <3>2. Least(q, more)
        BY <2>2, <3>1 DEF Least
      <3> QED BY <1>5, <3>1, <3>2 DEF IsGhostRank
    <2>4. CASE ~(q < r)
      <3>1. more = {} /\ SeenOwner(r, q, o) = o
        BY <1>1, <1>5, <2>1, <2>2, <2>4 DEF SeenOwner
      <3> QED BY <1>5, <3>1 DEF IsGhostRank
    <2> QED BY <2>3, <2>4
  <1>6. CASE n \in Adjacent(m, q, r) /\ o \in Ranks /\ Least(o, owners)
    <2>1. o \in owners /\ o # q /\ \A x \in owners : o <= x
      BY <1>3, <1>6 DEF Least
    <2>2. ~(o <= -1) /\ q <= q /\ \A x \in Ranks : q < o /\ o <= x => q <= x
      BY <1>6, RanksAreFinite
    <2>3. CASE q < o
      <3>1. SeenOwner(r, q, o) = q
        BY <2>3 DEF SeenOwner
      <3>2. n \in Local(m, r) => q < r
        <4>1. n \in Local(m, r) => o < r
          BY <1>3, <2>1
        <4>2. o < r /\ q < o => q < r
          BY <1>6, RanksAreFinite
        <4> QED BY <4>1, <4>2, <2>3
      <3>3. more = owners \cup {q}
        BY <1>1, <1>6, <3>2
      <3>4. Least(q, more)
        BY <3>3, <2>1, <2>2, <2>3, <1>3 DEF Least
      <3> QED BY <1>6, <3>1, <3>4 DEF IsGhostRank
    <2>4. CASE ~(q < o)
      <3>1. SeenOwner(r, q, o) = o /\ o <= q
        BY <2>2, <2>4, <1>6, RanksAreFinite DEF SeenOwner
      <3>2. Least(o, more)
        BY <1>1, <2>1, <3>1 DEF Least
      <3> QED BY <1>6, <3>1, <3>2 DEF IsGhostRank
    <2> QED BY <2>3, <2>4
  <1> QED BY <1>2, <1>4, <1>5, <1>6

LEMMA UnpackGhostsGInv ==
    ASSUME IInv, GInv, NEW r \in Ranks, NEW q \in Neighbors(r), UnpackGhosts(r, q) PROVE GInv'
  <1> DEFINE items == recvBuffer[q, r].items
             known == ghostRank[r]
             new   == Among(items, ToSet(items) \ DOMAIN known)
             H     == Unpacked(r, 1)
             K     == Known(mesh, r, H)
             taken(n) == IF n \notin DOMAIN known THEN q
                         ELSE IF n \in ToSet(items) THEN SeenOwner(r, q, known[n])
                         ELSE known[n]
  <1>1. PICK good : DataArrived(r, q, good)
    BY DEF UnpackGhosts
  <1>0. round[r] = 1 /\ at[r] = "data"
    BY <1>1 DEF UnpackGhosts, DataArrived
  <1>2. /\ q \in Ranks /\ q # r /\ q \in Around(mesh, r) /\ q \notin H
        /\ Len(items) = recvSize[q, r]
        /\ IsList(items, Nodes) /\ ToSet(items) = Adjacent(mesh, q, r)
    BY <1>0, <1>1, ArrivedFacts DEF IsMessage
  <1>3. /\ DataArrived(r, q, TRUE) /\ mesh' = mesh
        /\ UNCHANGED <<ghostsToReceive, ghostsToSend, nonLocalGhosts>>
    BY <1>2 DEF UnpackGhosts
  <1>4. /\ ControlInv(r)' /\ at'[r] \in {"data", "wait"}
        /\ Unpacked(r, 1)' = H \cup {q} /\ Unpacked(r, 2)' = Unpacked(r, 2)
        /\ Unpacked(r, 3)' = Unpacked(r, 3)
    <2>1. /\ ControlInv(r)' /\ at'[r] \in {"data", "wait"}
          /\ \A n \in {1, 2, 3} : Unpacked(r, n)' =
                    IF n = round[r] THEN Unpacked(r, n) \cup {q} ELSE Unpacked(r, n)
      BY <1>3, UnpackedStep
    <2> QED BY <2>1, <1>0
  <1>5. /\ UNCHANGED <<unordered, round, neighbors, sendBuffer, recvBuffer, sends>>
        /\ \A y \in Ranks \ {r} : at'[y] = at[y] /\ todo'[y] = todo[y]
    BY <1>3 DEF DataArrived, IInv, CommTypeOK
  <1>6. /\ Corrected(r) = {} /\ Corrected(r)' = {}
        /\ Unpacked(r, 2) = {} /\ Unpacked(r, 3) = {}
    <2>1. Corrected(r) = {}
      BY <1>0 DEF Corrected
    <2>2. Corrected(r)' = {}
      BY <1>0, <1>4, <1>5 DEF Corrected
    <2>3. Unpacked(r, 2) = {} /\ Unpacked(r, 3) = {}
      BY <1>0, StageFacts
    <2> QED BY <2>1, <2>2, <2>3, <1>4
  <1>7. mesh \in Meshes /\ ListTypeOK /\ RankInv(r) /\ H \subseteq Ranks
    <2>1. H \subseteq Around(mesh, r)
      BY DEF Unpacked
    <2> QED BY <2>1, StageFacts DEF GInv
  <1>8. /\ IsList(localToGlobalMap[r], Nodes) /\ ToSet(localToGlobalMap[r]) = K
        /\ DOMAIN known = K
        /\ \A n \in K : IsGhostRank(mesh, r, n, H, {}, known[n])
    BY <1>6, <1>7 DEF RankInv, OwnInv
  <1>9. Known(mesh, r, H \cup {q}) = K \cup Adjacent(mesh, q, r)
    BY DEF Known
  <1>10. /\ localToGlobalMap' = [localToGlobalMap EXCEPT ![r] = localToGlobalMap[r] \o new]
         /\ ghostRank' = [ghostRank EXCEPT ![r] =
                [n \in DOMAIN known \cup ToSet(items) |-> taken(n)]]
    BY DEF UnpackGhosts
  <1> HIDE DEF items, new, taken
  <1>11. /\ localToGlobalMap'[r] = localToGlobalMap[r] \o new
         /\ ghostRank'[r] = [n \in K \cup Adjacent(mesh, q, r) |-> taken(n)]
         /\ \A y \in Ranks \ {r} : /\ localToGlobalMap'[y] = localToGlobalMap[y]
                                   /\ ghostRank'[y] = ghostRank[y]
         /\ localToGlobalMap' = [y \in Ranks |-> localToGlobalMap'[y]]
         /\ ghostRank' = [y \in Ranks |-> ghostRank'[y]]
    BY <1>2, <1>7, <1>8, <1>10 DEF ListTypeOK
  <1>12. /\ IsList(localToGlobalMap'[r], Nodes)
         /\ ToSet(localToGlobalMap'[r]) = K \cup Adjacent(mesh, q, r)
    <2>1. IsList(new, Nodes) /\ ToSet(new) = ToSet(items) \cap (ToSet(items) \ DOMAIN known)
      BY <1>2, AmongList DEF new
    <2>2. \A x \in ToSet(localToGlobalMap[r]) : x \notin ToSet(new)
      BY <2>1, <1>8
    <2>3. /\ IsList(localToGlobalMap[r] \o new, Nodes)
          /\ ToSet(localToGlobalMap[r] \o new) = ToSet(localToGlobalMap[r]) \cup ToSet(new)
      <3> DEFINE now == localToGlobalMap[r]
      <3>1. IsList(now, Nodes) /\ IsList(new, Nodes) /\ \A x \in ToSet(now) : x \notin ToSet(new)
        BY <2>1, <2>2, <1>8
      <3> HIDE DEF now
      <3>2. IsList(now \o new, Nodes) /\ ToSet(now \o new) = ToSet(now) \cup ToSet(new)
        BY <3>1, ConcatList
      <3> QED BY <3>2 DEF now
    <2>4. localToGlobalMap'[r] = localToGlobalMap[r] \o new
      BY <1>11
    <2>5. ToSet(new) = Adjacent(mesh, q, r) \ K
      BY <2>1, <1>2, <1>8
    <2>6. ToSet(localToGlobalMap[r]) \cup ToSet(new) = K \cup Adjacent(mesh, q, r)
      <3> HIDE DEF K
      <3> QED BY <2>5, <1>8
    <2> HIDE DEF K
    <2> QED BY <2>3, <2>4, <2>6
  <1>13. ASSUME NEW n \in K \cup Adjacent(mesh, q, r)
         PROVE  IsGhostRank(mesh, r, n, H \cup {q}, {}, taken(n))
    <2>1. CASE n \in K
      <3>1. taken(n) = IF n \in Adjacent(mesh, q, r) THEN SeenOwner(r, q, known[n]) ELSE known[n]
        BY <2>1, <1>2, <1>8 DEF taken
      <3> DEFINE o == known[n]
      <3>2. IsGhostRank(mesh, r, n, H, {}, o) /\ n \in Known(mesh, r, H) /\ H \in SUBSET Ranks
        BY <2>1, <1>7, <1>8
      <3>3. taken(n) = IF n \in Adjacent(mesh, q, r) THEN SeenOwner(r, q, o) ELSE o
        BY <3>1
      <3> HIDE DEF o, H
      <3> QED BY <3>2, <3>3, <1>2, <1>7, SeenOwnerFacts
    <2>2. CASE n \notin K
      <3>1. taken(n) = q
        BY <2>2, <1>8 DEF taken
      <3>2. n \in Adjacent(mesh, q, r) /\ n \notin Local(mesh, r)
            /\ \A p \in H : n \notin Adjacent(mesh, p, r)
        BY <2>2 DEF Known
      <3>3. Owners(mesh, r, n, H \cup {q}) = {q}
        BY <3>2 DEF Owners
      <3>4. q <= q
        <4>1. \A x \in Ranks : x <= x
          BY RanksAreFinite
        <4> QED BY <4>1, <1>2
      <3> QED BY <3>1, <3>3, <3>4, <1>2 DEF IsGhostRank, Least
    <2> QED BY <2>1, <2>2
  <1>14. OwnInv(r)'
    <2>1. Known(mesh, r, Unpacked(r, 1))' = K \cup Adjacent(mesh, q, r)
      BY <1>3, <1>4, <1>9
    <2>2. (\A n \in Known(mesh, r, Unpacked(r, 1)) :
                IsGhostRank(mesh, r, n, Unpacked(r, 1), Corrected(r), ghostRank[r][n]))'
      BY <2>1, <1>3, <1>4, <1>6, <1>11, <1>13
    <2>3. (ghostRank[r] = [n \in Known(mesh, r, Unpacked(r, 1)) |-> ghostRank[r][n]])'
      BY <2>1, <1>11
    <2> QED BY <2>1, <2>2, <2>3, <1>4, <1>12 DEF OwnInv
  <1>15. ASSUME NEW x \in Ranks
         PROVE  (ReceiveInv(r, x) /\ SendInv(r, x) /\ IsMessage(r, x, sendBuffer[r, x]))'
    <2>1. ReceiveInv(r, x) /\ SendInv(r, x) /\ IsMessage(r, x, sendBuffer[r, x])
      BY <1>7 DEF RankInv
    <2>2. ReceiveInv(r, x)'
      <3>1. ~(round'[r] > 1)
        BY <1>0, <1>5
      <3>2. IsList(ghostsToReceive'[r, x], Nodes)
        BY <2>1, <1>3 DEF ReceiveInv
      <3> QED BY <3>1, <3>2 DEF ReceiveInv
    <2>3. IsMessage(r, x, sendBuffer[r, x])'
      BY <2>1, <1>3, <1>5 DEF IsMessage
    <2>4. sends[45][<<r, x>>] \in {0, 1} /\ ~(sends[45][<<r, x>>] > 0)
      BY <2>1, <1>0 DEF SendInv
    <2>5. SendInv(r, x)'
      BY <2>1, <2>4, <1>3, <1>4, <1>5, <1>6 DEF SendInv
    <2> QED BY <2>2, <2>3, <2>5
  <1>16. RankInv(r)'
    BY <1>4, <1>14, <1>15 DEF RankInv
  <1>17. ListTypeOK'
    BY <1>3, <1>7, <1>11 DEF ListTypeOK
  <1>18. ListsKept(r) /\ \A y \in Ranks \ {r} : Kept(y)
    BY <1>0, <1>3, <1>5, <1>11 DEF ListsKept, Kept
  <1> QED BY <1>3, <1>5, <1>16, <1>17, <1>18, OnlyOfGInv DEF OnlyOf

-----------------------------------------------------------------------------
(* Unpacking a message of round 2 or 3.                                      *)

LEMMA LeastFacts ==
    ASSUME NEW S \in SUBSET Ranks
    PROVE  /\ \A a, b : Least(a, S) /\ Least(b, S) => a = b
           /\ \A a : Least(a, S) => a \in Ranks /\ a >= 0 /\ a # -1 /\ a # -2 /\ ~(a < 0)
  <1>1. \A a, b \in Ranks : a <= b /\ b <= a => a = b
    BY RanksAreFinite
  <1>2. \A a \in Ranks : a >= 0 /\ a # -1 /\ a # -2 /\ ~(a < 0)
    BY RanksAreFinite
  <1> QED BY <1>1, <1>2 DEF Least

\* What a rank has of its own nodes after round 1: the owner, if another.
LEMMA LocalRank ==
    ASSUME GInv, NEW r \in Ranks, round[r] > 1, NEW n \in Local(mesh, r)
    PROVE  /\ n \in Known(mesh, r, Around(mesh, r))
           /\ \/ ghostRank[r][n] \in {-2, -1} /\ Least(r, Holders(mesh, n))
              \/ ghostRank[r][n] # r /\ Least(ghostRank[r][n], Holders(mesh, n))
  <1> DEFINE owners == Owners(mesh, r, n, Around(mesh, r))
             o      == ghostRank[r][n]
  <1>1. mesh \in Meshes /\ OwnInv(r) /\ Unpacked(r, 1) = Around(mesh, r)
    BY StageFacts DEF GInv, RankInv
  <1>2. n \in Known(mesh, r, Around(mesh, r))
    BY DEF Known
  <1>3. IsGhostRank(mesh, r, n, Around(mesh, r), Corrected(r), o)
    BY <1>1, <1>2 DEF OwnInv
  <1>4. CASE owners = {} /\ o \in {-2, -1}
    BY <1>1, <1>2, <1>4, LocalOwner
  <1>5. ASSUME NEW g \in Ranks, Least(g, owners),
               IF g \in Corrected(r) THEN Least(o, Holders(mesh, n)) ELSE o = g
        PROVE  o # r /\ Least(o, Holders(mesh, n))
    <2>1. Least(g, Holders(mesh, n)) /\ g < r
      BY <1>1, <1>5, LocalOwner
    <2>2. Holders(mesh, n) \in SUBSET Ranks
      BY DEF Holders
    <2>3. o = g
      BY <1>5, <2>1, <2>2, LeastFacts
    <2>4. \A a, b \in Ranks : a < b => a # b
      BY RanksAreFinite
    <2> QED BY <2>1, <2>3, <2>4
  <1> QED BY <1>2, <1>3, <1>4, <1>5 DEF IsGhostRank

\* In round 3 a rank has the owners right.
LEMMA OwnersAreRight ==
    ASSUME GInv, NEW q \in Ranks, round[q] = 3, NEW n \in Known(mesh, q, Around(mesh, q))
    PROVE  \/ ghostRank[q][n] \in {-2, -1} /\ Least(q, Holders(mesh, n))
           \/ ghostRank[q][n] # q /\ Least(ghostRank[q][n], Holders(mesh, n))
  <1> DEFINE owners == Owners(mesh, q, n, Around(mesh, q))
             o      == ghostRank[q][n]
  <1>1. mesh \in Meshes /\ OwnInv(q) /\ Unpacked(q, 1) = Around(mesh, q)
        /\ Corrected(q) = Around(mesh, q) /\ round[q] > 1
    <2>1. round[q] > 1
      OBVIOUS
    <2>2. Corrected(q) = Around(mesh, q)
      BY DEF Corrected
    <2> QED BY <2>1, <2>2, StageFacts DEF GInv, RankInv
  <1>2. CASE n \in Local(mesh, q)
    BY <1>1, <1>2, LocalRank
  <1>3. CASE n \notin Local(mesh, q)
    <2>1. IsGhostRank(mesh, q, n, Around(mesh, q), Around(mesh, q), o)
      BY <1>1 DEF OwnInv
    <2>2. owners # {}
      BY <1>3 DEF Known, Owners
    <2>3. owners \subseteq Around(mesh, q)
      BY DEF Owners
    <2>4. Least(o, Holders(mesh, n))
      BY <2>1, <2>2, <2>3 DEF IsGhostRank, Least
    <2>5. o # q
      BY <1>3, <2>4 DEF Least, Holders
    <2> QED BY <2>4, <2>5
  <1> QED BY <1>2, <1>3

\* What r has been told of by q is local to r; in round 3 it is r's.
LEMMA ToldFacts ==
    ASSUME GInv, NEW r \in Ranks, NEW q \in Ranks, NEW b, IsMessage(q, r, b), b.round \in {2, 3}
    PROVE  /\ ToSet(b.items) \subseteq Local(mesh, r)
           /\ b.round = 3 => \A n \in ToSet(b.items) : Least(r, Holders(mesh, n))
  <1>1. mesh \in Meshes
    BY DEF GInv
  <1>2. CASE b.round = 2
    BY <1>1, <1>2, GuessedFacts DEF IsMessage
  <1>3. CASE b.round = 3
    <2>1. round[q] = 3 /\ b.items = ghostsToReceive[q, r] /\ ReceiveInv(q, r)
      BY <1>3 DEF IsMessage, GInv, RankInv
    <2>2. round[q] > 1
      <3>1. round[q] = 3
        BY <2>1
      <3> QED BY <3>1
    <2>3. \A n \in ToSet(b.items) : n \in Known(mesh, q, Around(mesh, q)) /\ ghostRank[q][n] = r
      BY <2>1, <2>2 DEF ReceiveInv
    <2>4. r # -1 /\ r # -2
      BY RanksAreFinite
    <2>5. \A n \in ToSet(b.items) : Least(r, Holders(mesh, n))
      BY <2>1, <2>3, <2>4, OwnersAreRight
    <2>6. \A n : Least(r, Holders(mesh, n)) => n \in Local(mesh, r)
      BY DEF Least, Holders
    <2> QED BY <2>5, <2>6
  <1> QED BY <1>2, <1>3

\* A list of nodes, each with a rank
LEMMA PairedList ==
    ASSUME NEW third, IsList(third, Nodes),
           NEW pairs, pairs \in [DOMAIN third -> Nodes \X Ranks],
           \A i \in DOMAIN third : pairs[i][1] = third[i]
    PROVE  IsList(pairs, Nodes \X Ranks)
  <1>1. /\ Len(third) \in Nat /\ DOMAIN third = 1 .. Len(third)
        /\ \A i, j \in DOMAIN third : third[i] = third[j] => i = j
    BY ListMembers
  <1>2. pairs \in Seq(Nodes \X Ranks)
    <2> DEFINE len == Len(third)
    <2>1. len \in Nat /\ pairs \in [1 .. len -> Nodes \X Ranks]
      BY <1>1
    <2> HIDE DEF len
    <2> QED BY <2>1, SeqDef
  <1>3. IsInjective(pairs)
    <2> SUFFICES ASSUME NEW i \in DOMAIN third, NEW j \in DOMAIN third, pairs[i] = pairs[j]
                 PROVE  i = j
      BY DEF IsInjective
    <2>1. third[i] = third[j]
      OBVIOUS
    <2> QED BY <2>1, <1>1
  <1> QED BY <1>2, <1>3 DEF IsList

\* The ranks a rank may hold
LEMMA RankOrNone ==
    ASSUME NEW m \in Meshes, NEW r \in Ranks, NEW n, NEW H, NEW F, NEW o,
           IsGhostRank(m, r, n, H, F, o)
    PROVE  /\ o \in Ranks \/ o \in {-2, -1}
           /\ o \in {-2, -1} => Owners(m, r, n, H) = {}
  <1>1. Holders(m, n) \in SUBSET Ranks
    BY DEF Holders
  <1>2. \A a \in Ranks : a # -1 /\ a # -2
    BY RanksAreFinite
  <1>3. CASE Owners(m, r, n, H) = {} /\ o \in {-2, -1}
    BY <1>3
  <1>4. ASSUME NEW g \in Ranks, IF g \in F THEN Least(o, Holders(m, n)) ELSE o = g
        PROVE  o \in Ranks
    BY <1>1, <1>4 DEF Least
  <1>5. o \in Ranks \/ (Owners(m, r, n, H) = {} /\ o \in {-2, -1})
    BY <1>4 DEF IsGhostRank
  <1> QED BY <1>2, <1>5

LEMMA RebuildSyncListsGInv ==
    ASSUME IInv, GInv, NEW r \in Ranks, NEW q \in Neighbors(r), RebuildSyncLists(r, q)
    PROVE  GInv'
  <1> DEFINE b     == recvBuffer[q, r]
             items == b.items
             f     == ghostRank[r]
             A     == Around(mesh, r)
             K     == Known(mesh, r, A)
             third == Among(items, {n \in ToSet(items) : f[n] >= 0})
             pairs == [i \in DOMAIN third |-> <<third[i], f[third[i]]>>]
             g(n)  == IF n \in ToSet(items) /\ f[n] < 0 THEN -1 ELSE f[n]
  <1>1. PICK good : DataArrived(r, q, good)
    BY DEF RebuildSyncLists
  <1>2. round[r] \in {2, 3} /\ round[r] > 1 /\ at[r] = "data"
    <2>1. round[r] > 1 /\ at[r] = "data"
      BY <1>1 DEF RebuildSyncLists, DataArrived
    <2>2. round[r] \in {1, 2, 3}
      BY StageFacts
    <2> QED BY <2>1, <2>2
  <1>3. /\ q \in Ranks /\ q # r /\ q \in A /\ b.round = round[r]
        /\ Len(items) = recvSize[q, r] /\ IsMessage(q, r, b)
        /\ q \notin Unpacked(r, round[r])
    BY <1>1, ArrivedFacts
  <1>4. mesh \in Meshes /\ ListTypeOK /\ RankInv(r) /\ A \subseteq Ranks \ {r}
        /\ Unpacked(r, 1) = A
    BY <1>2, StageFacts DEF GInv
  <1>5. /\ IsList(items, Nodes) /\ ToSet(items) \subseteq Local(mesh, r)
        /\ round[r] = 3 => \A n \in ToSet(items) : Least(r, Holders(mesh, n))
    <2>1. b.round \in {2, 3}
      BY <1>2, <1>3
    <2>2. IsList(items, Nodes)
      BY <1>3 DEF IsMessage
    <2> HIDE DEF b
    <2> QED BY <2>1, <2>2, <1>3, ToldFacts
  <1>6. /\ f = [n \in K |-> f[n]] /\ DOMAIN f = K /\ Local(mesh, r) \subseteq K
        /\ \A n \in K : IsGhostRank(mesh, r, n, A, Corrected(r), f[n])
        /\ \A n \in K : /\ f[n] \in Ranks \/ f[n] \in {-2, -1}
                        /\ f[n] \in {-2, -1} => Owners(mesh, r, n, A) = {}
    <2>1. OwnInv(r) /\ Local(mesh, r) \subseteq K
      BY <1>4 DEF RankInv, Known
    <2>2. f = [n \in K |-> f[n]]
      BY <2>1, <1>4 DEF OwnInv
    <2>3. \A n \in K : IsGhostRank(mesh, r, n, A, Corrected(r), f[n])
      BY <2>1, <1>4 DEF OwnInv
    <2> HIDE DEF f, K, A
    <2> QED BY <2>1, <2>2, <2>3, <1>4, RankOrNone
  <1>7. ToSet(items) \subseteq DOMAIN f /\ Len(items) <= recvSize[q, r]
    <2>1. Len(items) \in Nat
      <3> HIDE DEF items
      <3> QED BY <1>5, ListMembers
    <2>2. \A n \in Nat : n <= n
      OBVIOUS
    <2> QED BY <2>1, <2>2, <1>3, <1>5, <1>6
  <1>8. /\ DataArrived(r, q, TRUE) /\ UNCHANGED <<mesh, localToGlobalMap, ghostsToReceive>>
        /\ ghostsToSend' = [ghostsToSend EXCEPT ![<<r, q>>] = items]
        /\ nonLocalGhosts' = [nonLocalGhosts EXCEPT ![<<r, q>>] = pairs]
        /\ ghostRank' = [ghostRank EXCEPT ![r] = [n \in DOMAIN f |-> g(n)]]
    BY <1>7 DEF RebuildSyncLists
  <1>9. /\ ControlInv(r)' /\ at'[r] \in {"data", "wait"} /\ Corrected(r)' = Corrected(r)
        /\ Unpacked(r, 1)' = A
        /\ Unpacked(r, 2)' = IF round[r] = 2 THEN Unpacked(r, 2) \cup {q} ELSE Unpacked(r, 2)
        /\ Unpacked(r, 3)' = IF round[r] = 3 THEN Unpacked(r, 3) \cup {q} ELSE {}
    <2>1. /\ ControlInv(r)' /\ at'[r] \in {"data", "wait"} /\ Corrected(r)' = Corrected(r)
          /\ \A n \in {1, 2, 3} : Unpacked(r, n)' =
                    IF n = round[r] THEN Unpacked(r, n) \cup {q} ELSE Unpacked(r, n)
      BY <1>8, UnpackedStep
    <2>2. round[r] # 3 => Unpacked(r, 3) = {}
      BY StageFacts
    <2> QED BY <2>1, <2>2, <1>2, <1>4
  <1>10. /\ UNCHANGED <<unordered, round, neighbors, sendBuffer, recvBuffer, sends>>
         /\ \A y \in Ranks \ {r} : at'[y] = at[y] /\ todo'[y] = todo[y]
    BY <1>8 DEF DataArrived, IInv, CommTypeOK
  <1>11. /\ IsList(pairs, Nodes \X Ranks)
         /\ \A x : x \in ToSet(pairs) <=>
                \E n \in ToSet(items) : f[n] \in Ranks /\ x = <<n, f[n]>>
    <2> DEFINE late == {n \in ToSet(items) : f[n] >= 0}
    <2>1. \A n : n \in late <=> n \in ToSet(items) /\ f[n] \in Ranks
      <3>1. \A n \in ToSet(items) : f[n] \in Ranks \/ f[n] \in {-2, -1}
        BY <1>5, <1>6
      <3> HIDE DEF items, f
      <3> QED BY <3>1, NoNegativeRank
    <2>2. third = Among(items, late)
      OBVIOUS
    <2>3. /\ pairs = [i \in DOMAIN third |-> pairs[i]]
          /\ \A i \in DOMAIN third : pairs[i] = <<third[i], f[third[i]]>>
      <3> HIDE DEF third
      <3> QED OBVIOUS
    <2> HIDE DEF items, f, third, pairs, late
    <2>4. IsList(third, Nodes) /\ ToSet(third) = ToSet(items) \cap late
      BY <2>2, <1>5, AmongList
    <2>5. \A n : n \in ToSet(third) <=> n \in ToSet(items) /\ f[n] \in Ranks
      BY <2>1, <2>4
    <2>6. pairs \in [DOMAIN third -> Nodes \X Ranks]
      <3>1. \A i \in DOMAIN third : third[i] \in ToSet(third)
        BY DEF ToSet
      <3>2. ToSet(third) \subseteq Nodes
        BY <2>4, ListMembers
      <3> QED BY <3>1, <3>2, <2>3, <2>5
    <2>7. IsList(pairs, Nodes \X Ranks)
      <3>1. \A i \in DOMAIN third : pairs[i][1] = third[i]
        BY <2>3
      <3> QED BY <3>1, <2>4, <2>6, PairedList
    <2>8. ASSUME NEW x
          PROVE  x \in ToSet(pairs) <=> \E n \in ToSet(third) : x = <<n, f[n]>>
      <3>1. DOMAIN pairs = DOMAIN third
        BY <2>6
      <3> QED BY <3>1, <2>3 DEF ToSet
    <2> QED BY <2>5, <2>7, <2>8
  <1> HIDE DEF items, pairs, g
  <1>12. /\ \A y, x \in Ranks : /\ ghostsToSend'[y, x] =
                                      IF y = r /\ x = q THEN items ELSE ghostsToSend[y, x]
                                /\ nonLocalGhosts'[y, x] =
                                      IF y = r /\ x = q THEN pairs ELSE nonLocalGhosts[y, x]
         /\ ghostsToSend' = [p \in Pairs |-> ghostsToSend'[p]]
         /\ nonLocalGhosts' = [p \in Pairs |-> nonLocalGhosts'[p]]
    BY ZenonT(40), <1>3, <1>4, <1>8, PairsOf DEF ListTypeOK
  <1>13. /\ ghostRank'[r] = [n \in K |-> g(n)]
         /\ \A y \in Ranks \ {r} : ghostRank'[y] = ghostRank[y]
         /\ ghostRank' = [y \in Ranks |-> ghostRank'[y]]
    BY <1>4, <1>6, <1>8 DEF ListTypeOK
  <1>14. ASSUME NEW n \in K
         PROVE  /\ IsGhostRank(mesh, r, n, A, Corrected(r), g(n))
                /\ \A x \in Ranks : g(n) = x <=> f[n] = x
                /\ f[n] = -1 => g(n) = -1
                /\ n \in ToSet(items) /\ f[n] \in {-2, -1} => g(n) = -1
    <2>1. \A a \in Ranks : ~(a < 0) /\ a # -1 /\ a # -2
      BY NoNegativeRank
    <2>2. CASE f[n] \in Ranks
      <3>1. g(n) = f[n]
        BY <2>1, <2>2 DEF g
      <3> QED BY <3>1, <2>1, <2>2, <1>6
    <2>3. CASE f[n] \in {-2, -1}
      <3>1. g(n) \in {-2, -1} /\ (f[n] = -1 => g(n) = -1) /\ (n \in ToSet(items) => g(n) = -1)
        BY <2>3 DEF g
      <3>2. Owners(mesh, r, n, A) = {}
        BY <2>3, <1>6
      <3> QED BY <3>1, <3>2, <2>1, <2>3 DEF IsGhostRank
    <2> QED BY <2>2, <2>3, <1>6
  <1>15. OwnInv(r)'
    <2>1. OwnInv(r)
      BY <1>4 DEF RankInv
    <2>2. Known(mesh, r, Unpacked(r, 1))' = K
      BY <1>8, <1>9
    <2>3. (\A n \in Known(mesh, r, Unpacked(r, 1)) :
                IsGhostRank(mesh, r, n, Unpacked(r, 1), Corrected(r), ghostRank[r][n]))'
      BY <2>2, <1>8, <1>9, <1>13, <1>14
    <2>4. (ghostRank[r] = [n \in Known(mesh, r, Unpacked(r, 1)) |-> ghostRank[r][n]])'
      BY <2>2, <1>13
    <2>5. (IsList(localToGlobalMap[r], Nodes) /\ ToSet(localToGlobalMap[r]) = K)
      BY <2>1, <1>4 DEF OwnInv
    <2> QED BY <2>2, <2>3, <2>4, <2>5, <1>8, <1>9 DEF OwnInv
  <1>16. ASSUME NEW x \in Ranks PROVE ReceiveInv(r, x)'
    <2>1. ReceiveInv(r, x) /\ K' = K
      BY <1>4, <1>8 DEF RankInv
    <2>2. {n \in K : ghostRank'[r][n] = x} = {n \in K : f[n] = x}
      BY <1>13, <1>14
    <2> QED BY <2>1, <2>2, <1>2, <1>8, <1>10 DEF ReceiveInv
  <1>17. ASSUME NEW x \in Ranks PROVE IsMessage(r, x, sendBuffer[r, x])'
    BY <1>4, <1>8, <1>10 DEF RankInv, IsMessage
  <1>18. ASSUME NEW x \in Ranks PROVE SendInv(r, x)'
    <2>1. SendInv(r, x)
      BY <1>4 DEF RankInv
    <2>2. sends[45][<<r, x>>] \in {0, 1} /\ ~(sends[45][<<r, x>>] > 0)
      BY <2>1, <1>2 DEF SendInv
    <2>3. CASE x # q
      <3>1. ghostsToSend'[r, x] = ghostsToSend[r, x] /\ nonLocalGhosts'[r, x] = nonLocalGhosts[r, x]
        BY <2>3, <1>12
      <3>2. /\ x \in Unpacked(r, 3)' => x \in Unpacked(r, 3)
            /\ x \in (Unpacked(r, 2) \ Unpacked(r, 3))' => x \in Unpacked(r, 2) \ Unpacked(r, 3)
        <4>1. round[r] # 3 => Unpacked(r, 3) = {}
          BY StageFacts
        <4> QED BY <4>1, <2>3, <1>9
      <3>3. x \in Unpacked(r, 3)' => \A n \in ToSet(ghostsToSend'[r, x]) : ghostRank'[r][n] = -1
        <4> SUFFICES ASSUME x \in Unpacked(r, 3), NEW n \in ToSet(ghostsToSend[r, x])
                     PROVE  ghostRank'[r][n] = -1
          BY <3>1, <3>2
        <4>1. f[n] = -1 /\ ghostsToSend[r, x] = ghostsToReceive[x, r] /\ round[x] = 3
          BY <2>1 DEF SendInv
        <4>2. n \in K
          <5>1. ReceiveInv(x, r)
            BY DEF GInv, RankInv
          <5>2. round[x] > 1
            BY <4>1, ThirdIsLate
          <5>3. n \in Known(mesh, x, Around(mesh, x)) /\ ghostRank[x][n] = r
            BY <4>1, <5>1, <5>2 DEF ReceiveInv
          <5>4. r # -1 /\ r # -2
            BY NoNegativeRank
          <5>5. Least(r, Holders(mesh, n))
            BY <4>1, <5>3, <5>4, OwnersAreRight
          <5> QED BY <5>5, <1>6 DEF Least, Holders
        <4> QED BY ZenonT(40), <4>1, <4>2, <1>13, <1>14
      <3> QED BY <2>1, <2>2, <3>1, <3>2, <3>3, <1>8, <1>10 DEF SendInv
    <2>4. CASE x = q
      <3>1. ghostsToSend'[r, x] = items /\ nonLocalGhosts'[r, x] = pairs
        BY <2>4, <1>3, <1>12
      <3>2. pairs \in Seq(Nodes \X Ranks) /\ IsInjective(pairs)
        BY <1>11 DEF IsList
      <3>3. CASE round[r] = 2
        <4>1. x \notin Unpacked(r, 3)'
          BY <3>3, <1>9
        <4>2. ToSet(items) = Guessed(mesh, q, r)
          BY <3>3, <1>3 DEF IsMessage, items
        <4>3. \A z : z \in ToSet(pairs) <=> z \in ThirdRank(mesh, q, r)
          <5>1. Guessed(mesh, q, r) \subseteq Nodes
            BY <1>3, <1>4, GuessedFacts
          <5>2. ASSUME NEW n \in Guessed(mesh, q, r), NEW o
                PROVE  (f[n] \in Ranks /\ o = f[n])
                            <=> (o \in Ranks /\ o # r /\ Least(o, Holders(mesh, n)))
            <6>1. \/ f[n] \in {-2, -1} /\ Least(r, Holders(mesh, n))
                  \/ f[n] # r /\ Least(f[n], Holders(mesh, n))
              BY <4>2, <1>2, <1>5, LocalRank
            <6>2. Holders(mesh, n) \in SUBSET Ranks
              BY DEF Holders
            <6> QED BY <6>1, <6>2, LeastFacts, NoNegativeRank
          <5>3. ASSUME NEW z
                PROVE  z \in ThirdRank(mesh, q, r) <=>
                            \E n \in Guessed(mesh, q, r) : \E o \in Ranks :
                                z = <<n, o>> /\ o # r /\ Least(o, Holders(mesh, n))
            BY <5>1 DEF ThirdRank
          <5> QED BY <5>2, <5>3, <4>2, <1>11
        <4>4. ToSet(pairs) = ThirdRank(mesh, q, r)
          BY <4>3
        <4> QED BY <2>2, <2>4, <3>1, <3>2, <4>1, <4>4, <1>3, <1>5, <1>8, <1>10 DEF SendInv
      <3>4. CASE round[r] = 3
        <4>1. round[q] = 3 /\ items = ghostsToReceive[q, r]
          BY <3>4, <1>3 DEF IsMessage, items
        <4>2. \A n \in ToSet(items) : f[n] \in {-2, -1} /\ n \in K
          <5> TAKE n \in ToSet(items)
          <5>1. Least(r, Holders(mesh, n)) /\ n \in Local(mesh, r) /\ n \in K
            BY <3>4, <1>5, <1>6
          <5>2. \/ f[n] \in {-2, -1}
                \/ f[n] # r /\ Least(f[n], Holders(mesh, n))
            BY <5>1, <1>2, LocalRank
          <5>3. Holders(mesh, n) \in SUBSET Ranks
            BY DEF Holders
          <5> QED BY <5>1, <5>2, <5>3, LeastFacts
        <4>3. pairs = << >>
          <5>2. ToSet(pairs) = {}
            BY <4>2, NoNegativeRank, <1>11
          <5> QED BY <5>2, <1>11, ListMembers
        <4>4. \A n \in ToSet(items) : ghostRank'[r][n] = -1
          BY <4>2, <1>13, <1>14
        <4>5. x \in Unpacked(r, 3)'
          BY <2>4, <3>4, <1>9
        <4> QED BY <2>2, <2>4, <3>1, <3>2, <4>1, <4>3, <4>4, <4>5, <1>3, <1>5, <1>8, <1>10
               DEF SendInv
      <3> QED BY <3>3, <3>4, <1>2
    <2> QED BY <2>3, <2>4
  <1>19. RankInv(r)'
    BY <1>9, <1>15, <1>16, <1>17, <1>18 DEF RankInv
  <1>20. ListTypeOK'
    BY <1>4, <1>8, <1>12, <1>13 DEF ListTypeOK
  <1>21. ListsKept(r) /\ \A y \in Ranks \ {r} : Kept(y)
    <2>1. ListsKept(r)
      BY <1>8, <1>10 DEF ListsKept
    <2>2. ASSUME NEW y \in Ranks \ {r} PROVE Kept(y)
      <3>1. \A x \in Ranks : /\ ghostsToSend'[y, x] = ghostsToSend[y, x]
                             /\ nonLocalGhosts'[y, x] = nonLocalGhosts[y, x]
        BY <1>12
      <3> QED BY <3>1, <1>8, <1>10, <1>13 DEF Kept
    <2> QED BY <2>1, <2>2
  <1> QED BY <1>8, <1>10, <1>19, <1>20, <1>21, OnlyOfGInv DEF OnlyOf

-----------------------------------------------------------------------------
(* The steps between the rounds.                                             *)

\* A rank has nothing sent with tag 45 outside fixReceiveLists().
LEMMA NotTold ==
    ASSUME GInv, NEW r \in Ranks, NEW q \in Ranks, at[r] \notin {"fix", "fixed"}
    PROVE  /\ sends[45][<<r, q>>] \in {0, 1} /\ ~(sends[45][<<r, q>>] > 0)
           /\ sends[45][<<r, q>>] = 0
  <1>1. SendInv(r, q)
    BY DEF GInv, RankInv
  <1>2. sends[45][<<r, q>>] \in {0, 1} /\ ~(sends[45][<<r, q>>] > 0)
    BY <1>1 DEF SendInv
  <1>3. \A k : k \in {0, 1} /\ ~(k > 0) => k = 0
    OBVIOUS
  <1> QED BY <1>2, <1>3

LEMMA RoundNumbers == 2 \in 1 .. 3 /\ 3 \in 1 .. 3
  OBVIOUS

LEMMA SetReceiveListsGInv ==
    ASSUME IInv, GInv, NEW r \in Ranks, SetReceiveLists(r) PROVE GInv'
  <1> DEFINE A     == Around(mesh, r)
             K     == Known(mesh, r, A)
             of(q) == {n \in DOMAIN ghostRank[r] : ghostRank[r][n] = q}
  <1>1. /\ at[r] = "wait" /\ round[r] = 1 /\ ~(round[r] > 1) /\ round[r] # 3
        /\ UNCHANGED <<neighbors, unordered, todo, messages, mesh, localToGlobalMap, ghostRank,
                       ghostsToSend, nonLocalGhosts>>
        /\ ghostsToReceive' = [p \in Pairs |-> IF p[1] # r THEN ghostsToReceive[p]
                                    ELSE Among(localToGlobalMap[r], of(p[2]))]
    BY DEF SetReceiveLists, WaitSends
  <1>2. /\ at'[r] = "send" /\ round'[r] = 2
        /\ \A y \in Ranks \ {r} : at'[y] = at[y] /\ round'[y] = round[y]
    BY DEF SetReceiveLists, GoTo, IInv, CommTypeOK
  <1>3. UNCHANGED <<sendBuffer, sends, recvBuffer>>
    BY <1>1 DEF messages
  <1>4. round'[r] > 1 /\ round'[r] # 3 /\ round'[r] # 1
    BY <1>2
  <1>5. mesh \in Meshes /\ ListTypeOK /\ RankInv(r)
    BY DEF GInv
  <1>6. /\ Unpacked(r, 1) = A /\ Unpacked(r, 2) = {} /\ Unpacked(r, 3) = {} /\ Corrected(r) = {}
        /\ Neighbors(r) = A /\ A \subseteq Ranks \ {r}
    BY <1>1, StageFacts DEF Corrected
  <1>7. /\ Unpacked(r, 1)' = A /\ Unpacked(r, 2)' = {} /\ Unpacked(r, 3)' = {}
        /\ Corrected(r)' = {} /\ Neighbors(r)' = A
    BY <1>1, <1>2, <1>6 DEF Unpacked, Corrected, Neighbors
  <1>8. ControlInv(r)'
    <2>1. ControlInv(r) /\ round'[r] \in 1 .. 3
      BY <1>2, <1>5, RoundNumbers DEF RankInv
    <2>2. at'[r] \in Places \ {"error"} /\ at'[r] \notin {"fix", "fixed", "done"}
      BY <1>2 DEF Places
    <2> QED BY <2>1, <2>2, <1>1, <1>6, <1>7 DEF ControlInv
  <1>9. /\ IsList(localToGlobalMap[r], Nodes) /\ ToSet(localToGlobalMap[r]) = K
        /\ ghostRank[r] = [n \in K |-> ghostRank[r][n]]
        /\ \A n \in K : IsGhostRank(mesh, r, n, A, {}, ghostRank[r][n])
    BY <1>5, <1>6 DEF RankInv, OwnInv
  <1>10. OwnInv(r)'
    <2>1. Known(mesh, r, Unpacked(r, 1))' = K
      BY <1>1, <1>7
    <2>2. (\A n \in Known(mesh, r, Unpacked(r, 1)) :
                IsGhostRank(mesh, r, n, Unpacked(r, 1), Corrected(r), ghostRank[r][n]))'
      BY <2>1, <1>1, <1>7, <1>9
    <2>3. (ghostRank[r] = [n \in Known(mesh, r, Unpacked(r, 1)) |-> ghostRank[r][n]])'
      BY <2>1, <1>1, <1>9
    <2> QED BY <2>1, <2>2, <2>3, <1>1, <1>4, <1>9 DEF OwnInv
  <1>11. \A y, q \in Ranks : ghostsToReceive'[y, q] =
            IF y # r THEN ghostsToReceive[y, q] ELSE Among(localToGlobalMap[r], of(q))
    <2> HIDE DEF of
    <2> QED BY <1>1, PairsOf
  <1>12. ASSUME NEW q \in Ranks PROVE ReceiveInv(r, q)'
    <2>1. /\ IsList(ghostsToReceive'[r, q], Nodes)
          /\ ToSet(ghostsToReceive'[r, q]) = K \cap of(q)
      <3> DEFINE now == localToGlobalMap[r]
                 S   == of(q)
      <3>1. IsList(now, Nodes) /\ ToSet(now) = K /\ ghostsToReceive'[r, q] = Among(now, S)
        BY <1>9, <1>11
      <3> HIDE DEF now, S, K
      <3>2. IsList(Among(now, S), Nodes) /\ ToSet(Among(now, S)) = ToSet(now) \cap S
        BY <3>1, AmongList
      <3> QED BY <3>1, <3>2 DEF S
    <2>2. K \cap of(q) = {n \in K : ghostRank[r][n] = q}
      BY <1>9
    <2>3. {n \in K : ghostRank[r][n] = q}' = {n \in K : ghostRank[r][n] = q}
      BY <1>1
    <2> QED BY <2>1, <2>2, <2>3 DEF ReceiveInv
  <1>13. ASSUME NEW q \in Ranks PROVE SendInv(r, q)'
    <2>1. SendInv(r, q)
      BY <1>5 DEF RankInv
    <2>2. sends[45][<<r, q>>] \in {0, 1} /\ ~(sends[45][<<r, q>>] > 0)
      BY <1>1, NotTold
    <2> QED BY <2>1, <2>2, <1>1, <1>3, <1>7 DEF SendInv
  <1>14. ASSUME NEW q \in Ranks PROVE IsMessage(r, q, sendBuffer[r, q])'
    <2>1. IsMessage(r, q, sendBuffer[r, q])
      BY <1>5 DEF RankInv
    <2> QED BY <2>1, <1>1, <1>3, MessageStays DEF IsMessage
  <1>15. RankInv(r)'
    BY <1>8, <1>10, <1>12, <1>13, <1>14 DEF RankInv
  <1>16. ListTypeOK'
    <2>1. ghostsToReceive' = [p \in Pairs |-> ghostsToReceive'[p]]
      <3> HIDE DEF of
      <3> QED BY <1>1
    <2> QED BY <2>1, <1>1, <1>5 DEF ListTypeOK
  <1>17. ListsKept(r) /\ \A y \in Ranks \ {r} : Kept(y)
    <2>1. ListsKept(r)
      BY <1>1 DEF ListsKept
    <2>2. ASSUME NEW y \in Ranks \ {r} PROVE Kept(y)
      <3>1. \A q \in Ranks : ghostsToReceive'[y, q] = ghostsToReceive[y, q]
        <4> HIDE DEF of
        <4> QED BY <1>11
      <3> HIDE DEF of
      <3> QED BY <3>1, <1>1, <1>2, <1>3 DEF Kept
    <2> QED BY <2>1, <2>2
  <1> QED BY <1>1, <1>3, <1>15, <1>16, <1>17, OnlyOfGInv DEF OnlyOf

LEMMA SendNonLocalGhostsGInv ==
    ASSUME IInv, GInv, NEW r \in Ranks, SendNonLocalGhosts(r) PROVE GInv'
  <1> DEFINE A == Around(mesh, r)
  <1>1. /\ at[r] = "wait" /\ round[r] = 2 /\ round[r] > 1 /\ round[r] # 3
        /\ sends' = [sends EXCEPT ![45] = Started(45, Out(r))]
        /\ UNCHANGED <<neighbors, unordered, sendBuffer, recvBuffer, mesh, lists>>
    BY DEF SendNonLocalGhosts, WaitSends, Told
  <1>2. /\ RankInv(r) /\ Neighbors(r) = A /\ A \subseteq Ranks \ {r} /\ Neighbors(r)' = A
        /\ Unpacked(r, 1) = A /\ Unpacked(r, 2) = A /\ Unpacked(r, 3) = {} /\ Corrected(r) = {}
    BY <1>1, StageFacts DEF Corrected, GInv, Neighbors
  <1>3. /\ todo'[r] = A /\ round'[r] = 2
        /\ at'[r] = "fix" \/ (at'[r] = "fixed" /\ A = {})
        /\ \A y \in Ranks \ {r} : at'[y] = at[y] /\ round'[y] = round[y] /\ todo'[y] = todo[y]
    BY <1>2 DEF SendNonLocalGhosts, GoTo, Unless, IInv, CommTypeOK
  <1>4. round'[r] > 1 /\ round'[r] # 3 /\ round'[r] # 1
    BY <1>3
  <1>5. /\ Unpacked(r, 1)' = A /\ Unpacked(r, 2)' = A /\ Unpacked(r, 3)' = {}
        /\ Corrected(r)' = {}
    BY <1>1, <1>3 DEF Unpacked, Corrected
  <1>6. ControlInv(r)'
    BY <1>1, <1>2, <1>3 DEF ControlInv, RankInv, Places
  <1>7. \A y, q \in Ranks : sends'[45][<<y, q>>] =
            sends[45][<<y, q>>] + IF y = r /\ q \in Neighbors(r) THEN 1 ELSE 0
    BY <1>1, PairsOf DEF Started, IInv, CommTypeOK, Tags
  <1>8. ASSUME NEW q \in Ranks
        PROVE  /\ sends'[45][<<r, q>>] \in {0, 1}
               /\ sends'[45][<<r, q>>] > 0 => at'[r] \in {"fix", "fixed"} /\ q \in Around(mesh, r)
    <2> DEFINE before == sends[45][<<r, q>>]
               after  == sends'[45][<<r, q>>]
    <2>1. before = 0
      BY <1>1, NotTold
    <2>2. after = before + IF q \in Neighbors(r) THEN 1 ELSE 0
      BY <1>7
    <2> HIDE DEF before, after
    <2>3. after \in {0, 1} /\ (after > 0 => q \in Neighbors(r))
      BY <2>1, <2>2
    <2> QED BY <2>3, <1>2, <1>3 DEF after
  <1>9. \A y \in Ranks \ {r}, q \in Ranks : sends'[45][<<y, q>>] = sends[45][<<y, q>>]
    <2> TAKE y \in Ranks \ {r}, q \in Ranks
    <2> DEFINE before == sends[45][<<y, q>>]
    <2>1. before \in Int /\ sends'[45][<<y, q>>] = before + 0
      BY <1>7, PairsOf DEF IInv, CommTypeOK, Tags
    <2> HIDE DEF before
    <2>2. before + 0 = before
      BY <2>1
    <2> QED BY <2>1, <2>2 DEF before
  <1>10. ASSUME NEW q \in Ranks PROVE IsMessage(r, q, sendBuffer[r, q])'
    <2>1. IsMessage(r, q, sendBuffer[r, q])
      BY <1>2 DEF RankInv
    <2> QED BY <2>1, <1>1, <1>3, MessageStays DEF IsMessage
  <1>11. /\ round[r] = 3 => round'[r] = 3
         /\ round'[r] > 1 => round[r] > 1
         /\ ~(round'[r] = 1 /\ at'[r] = "send")
    BY <1>1, <1>3, <1>4
  <1>12. \A y \in Ranks \ {r} :
            /\ at'[y] = at[y] /\ round'[y] = round[y] /\ todo'[y] = todo[y]
            /\ neighbors'[y] = neighbors[y]
            /\ \A q \in Ranks : /\ sendBuffer'[y, q] = sendBuffer[y, q]
                                /\ sends'[45][<<y, q>>] = sends[45][<<y, q>>]
    BY <1>1, <1>3, <1>9
  <1> QED BY <1>1, <1>2, <1>5, <1>6, <1>8, <1>10, <1>11, <1>12, ControlStepGInv

LEMMA FixDoneGInv == ASSUME IInv, GInv, NEW r \in Ranks, FixDone(r) PROVE GInv'
  <1> DEFINE A == Around(mesh, r)
  <1>1. /\ at[r] = "fixed" /\ SendsComplete(r, {45})
        /\ UNCHANGED <<neighbors, unordered, todo, messages, mesh, lists>>
    BY DEF FixDone
  <1>2. UNCHANGED <<sendBuffer, sends, recvBuffer>>
    BY <1>1 DEF messages
  <1>3. round[r] = 2 /\ RankInv(r)
    BY <1>1 DEF GInv, RankInv, ControlInv
  <1>4. round[r] > 1 /\ round[r] # 3
    BY <1>3
  <1>5. /\ at'[r] = "send" /\ round'[r] = 3
        /\ \A y \in Ranks \ {r} : at'[y] = at[y] /\ round'[y] = round[y]
    BY DEF FixDone, GoTo, IInv, CommTypeOK
  <1>6. round'[r] # 1
    BY <1>5
  <1>7. /\ Neighbors(r) = A /\ A \subseteq Ranks \ {r} /\ Neighbors(r)' = A
        /\ Unpacked(r, 1) = A /\ Unpacked(r, 2) = A /\ Unpacked(r, 3) = {} /\ Corrected(r) = A
    BY <1>1, <1>3, <1>4, StageFacts DEF Corrected, Unpacked, Neighbors
  <1>8. /\ Unpacked(r, 1)' = A /\ Unpacked(r, 2)' = A /\ Unpacked(r, 3)' = {}
        /\ Corrected(r)' = A
    BY <1>1, <1>5 DEF Unpacked, Corrected
  <1>9. ControlInv(r)'
    <2>1. ControlInv(r) /\ round'[r] \in 1 .. 3
      BY <1>3, <1>5, RoundNumbers DEF RankInv
    <2>2. at'[r] \in Places \ {"error"} /\ at'[r] \notin {"fix", "fixed", "done"}
      BY <1>5 DEF Places
    <2> QED BY <2>1, <2>2, <1>1, <1>7 DEF ControlInv
  <1>10. ASSUME NEW q \in Ranks
         PROVE  /\ sends'[45][<<r, q>>] \in {0, 1}
                /\ sends'[45][<<r, q>>] > 0 => at'[r] \in {"fix", "fixed"} /\ q \in Around(mesh, r)
    <2>1. SendInv(r, q)
      BY <1>3 DEF RankInv
    <2>2. q \in A => sends[45][<<r, q>>] = 0
      BY <1>1, <1>7 DEF SendsComplete, Out
    <2>3. \A k : k = 0 => ~(k > 0)
      OBVIOUS
    <2>4. sends[45][<<r, q>>] \in {0, 1} /\ ~(sends[45][<<r, q>>] > 0)
      BY <2>1, <2>2, <2>3 DEF SendInv
    <2> QED BY <2>4, <1>2
  <1>11. ASSUME NEW q \in Ranks PROVE IsMessage(r, q, sendBuffer[r, q])'
    <2>1. IsMessage(r, q, sendBuffer[r, q])
      BY <1>3 DEF RankInv
    <2> QED BY <2>1, <1>1, <1>2, <1>4, MessageStays DEF IsMessage
  <1>12. /\ round[r] = 3 => round'[r] = 3
         /\ round'[r] > 1 => round[r] > 1
         /\ ~(round'[r] = 1 /\ at'[r] = "send")
    BY <1>4, <1>5, <1>6
  <1>13. \A y \in Ranks \ {r} :
            /\ at'[y] = at[y] /\ round'[y] = round[y] /\ todo'[y] = todo[y]
            /\ neighbors'[y] = neighbors[y]
            /\ \A q \in Ranks : /\ sendBuffer'[y, q] = sendBuffer[y, q]
                                /\ sends'[45][<<y, q>>] = sends[45][<<y, q>>]
    BY <1>1, <1>2, <1>5
  <1> QED BY <1>1, <1>2, <1>7, <1>8, <1>9, <1>10, <1>11, <1>12, <1>13, ControlStepGInv

-----------------------------------------------------------------------------
(* What a rank is told in fixReceiveLists().                                 *)

LEMMA LeastExists == ASSUME NEW S \in SUBSET Ranks, S # {} PROVE \E o \in Ranks : Least(o, S)
  <1>1. S \subseteq Nat
    BY RanksAreFinite
  <1>2. PICK o \in S : \A p \in S : <<p, o>> \notin OpToRel(<, Nat)
    BY <1>1, NatLessThanWellFounded, WFMin
  <1>3. \A p \in S : ~(p < o)
    BY <1>1, <1>2 DEF OpToRel
  <1>4. \A a, b \in Nat : ~(a < b) => b <= a
    OBVIOUS
  <1> QED BY <1>1, <1>3, <1>4 DEF Least

\* A list of nodes of one rank, without the rank
LEMMA FirstsList ==
    ASSUME NEW add, IsList(add, Nodes \X Ranks), NEW t, \A x \in ToSet(add) : x[2] = t,
           NEW firsts, firsts \in [DOMAIN add -> Nodes],
           \A i \in DOMAIN add : firsts[i] = add[i][1]
    PROVE  /\ IsList(firsts, Nodes)
           /\ \A n : n \in ToSet(firsts) <=> <<n, t>> \in ToSet(add)
  <1>1. /\ Len(add) \in Nat /\ DOMAIN add = 1 .. Len(add) /\ ToSet(add) \subseteq Nodes \X Ranks
        /\ \A i, j \in DOMAIN add : add[i] = add[j] => i = j
    BY ListMembers
  <1>2. \A i \in DOMAIN add : add[i] = <<firsts[i], t>>
    <2> TAKE i \in DOMAIN add
    <2>1. add[i] \in ToSet(add)
      BY DEF ToSet
    <2>2. add[i] = <<add[i][1], add[i][2]>> /\ add[i][2] = t
      BY <2>1, <1>1
    <2> QED BY <2>2
  <1>3. firsts \in Seq(Nodes)
    <2> DEFINE len == Len(add)
    <2>1. len \in Nat /\ firsts \in [1 .. len -> Nodes]
      BY <1>1
    <2> HIDE DEF len
    <2> QED BY <2>1, SeqDef
  <1>4. IsInjective(firsts)
    <2> SUFFICES ASSUME NEW i \in DOMAIN add, NEW j \in DOMAIN add, firsts[i] = firsts[j]
                 PROVE  i = j
      BY DEF IsInjective
    <2> QED BY <1>1, <1>2
  <1>5. ASSUME NEW n PROVE n \in ToSet(firsts) <=> <<n, t>> \in ToSet(add)
    <2>1. DOMAIN firsts = DOMAIN add
      OBVIOUS
    <2> QED BY <2>1, <1>2 DEF ToSet
  <1> QED BY <1>3, <1>4, <1>5 DEF IsList

\* The owner of a node a rank is told of is near, and not the one it was taken
\* to be, which had not told it before.
LEMMA ThirdFacts ==
    ASSUME GInv, NEW r \in Ranks, NEW q \in Ranks, round[r] > 1, q \notin Corrected(r),
           NEW n, NEW o, <<n, o>> \in ThirdRank(mesh, r, q)
    PROVE  /\ n \in Known(mesh, r, Around(mesh, r)) /\ ghostRank[r][n] = q
           /\ n \in Guessed(mesh, r, q) /\ n \in ToSet(ghostsToReceive[r, q])
           /\ o \in Ranks /\ o # q /\ Least(o, Holders(mesh, n)) /\ o \in Around(mesh, r)
  <1> DEFINE A      == Around(mesh, r)
             owners == Owners(mesh, r, n, A)
  <1>1. mesh \in Meshes /\ OwnInv(r) /\ ReceiveInv(r, q) /\ Unpacked(r, 1) = A
    BY StageFacts DEF GInv, RankInv
  <1>2. /\ n \in Guessed(mesh, r, q) /\ o \in Ranks /\ o # q /\ Least(o, Holders(mesh, n))
    BY DEF ThirdRank
  <1>3. n \in Known(mesh, r, A) /\ Least(q, owners)
    BY <1>2 DEF Guessed
  <1>4. owners \in SUBSET Ranks /\ owners # {} /\ Holders(mesh, n) \in SUBSET Ranks
    BY <1>1, <1>3, AroundFacts DEF Owners, Holders, Least
  <1>5. ghostRank[r][n] = q
    <2>1. IsGhostRank(mesh, r, n, A, Corrected(r), ghostRank[r][n])
      BY <1>1, <1>3 DEF OwnInv
    <2>2. PICK g \in Ranks : /\ Least(g, owners)
                             /\ g \notin Corrected(r) => ghostRank[r][n] = g
      BY <2>1, <1>4 DEF IsGhostRank
    <2>3. g = q
      <3> HIDE DEF owners
      <3> QED BY <2>2, <1>3, <1>4, LeastFacts
    <2> QED BY <2>2, <2>3
  <1>6. n \in ToSet(ghostsToReceive[r, q])
    BY <1>1, <1>3, <1>5 DEF ReceiveInv
  <1>7. n \notin Local(mesh, r)
    <2> SUFFICES ASSUME n \in Local(mesh, r) PROVE FALSE
      OBVIOUS
    <2>1. Least(q, Holders(mesh, n))
      BY <1>1, <1>3, LocalOwner
    <2> QED BY <2>1, <1>2, <1>4, LeastFacts
  <1>8. o # r
    BY <1>2, <1>7 DEF Least, Holders
  <1>9. o \in A
    BY <1>1, <1>2, <1>3, <1>8, OwnerIsNear
  <1> QED BY <1>2, <1>3, <1>5, <1>6, <1>9

\* Who tells a rank has not gone on, and what it tells is as it was returned.
LEMMA TellerFacts ==
    ASSUME GInv, NEW r \in Ranks, NEW q \in Ranks, sends[45][<<q, r>>] > 0
    PROVE  /\ IsList(nonLocalGhosts[q, r], Nodes \X Ranks)
           /\ ToSet(nonLocalGhosts[q, r]) = ThirdRank(mesh, r, q)
  <1>1. SendInv(q, r) /\ ControlInv(q)
    BY DEF GInv, RankInv
  <1>2. at[q] \in {"fix", "fixed"} /\ r \in Around(mesh, q)
    BY <1>1 DEF SendInv
  <1>3. round[q] = 2
    BY <1>1, <1>2 DEF ControlInv
  <1>4. Unpacked(q, 2) = Around(mesh, q)
    BY <1>2, <1>3 DEF Unpacked
  <1>5. Unpacked(q, 3) = {}
    <2>1. round[q] # 3
      BY <1>3
    <2> QED BY <2>1, StageFacts
  <1> QED BY <1>1, <1>2, <1>4, <1>5 DEF SendInv, IsList

LEMMA FixReceiveListsGInv ==
    ASSUME IInv, GInv, NEW r \in Ranks, NEW q \in Neighbors(r), FixReceiveLists(r, q)
    PROVE  GInv'
  <1> DEFINE A     == Around(mesh, r)
             K     == Known(mesh, r, A)
             f     == ghostRank[r]
             told  == nonLocalGhosts[q, r]
             third == ThirdRank(mesh, r, q)
             fixed == {x[1] : x \in ToSet(told)}
             owner(n) == (CHOOSE x \in ToSet(told) : x[1] = n)[2]
             new(n)   == IF n \in fixed THEN owner(n) ELSE f[n]
             of(t)    == Among(told, {x \in ToSet(told) : x[2] = t})
             first(t) == [i \in DOMAIN of(t) |-> of(t)[i][1]]
             left  == todo[r] \ {q}
             keep(p) == IF p = <<r, q>>
                        THEN Among(ghostsToReceive[p], ToSet(ghostsToReceive[p]) \ fixed)
                        ELSE ghostsToReceive[p]
             add(p)  == IF p[1] = r THEN of(p[2]) ELSE << >>
  <1>1. /\ at[r] = "fix" /\ q \in todo[r] /\ sends[45][<<q, r>>] > 0
        /\ sends' = [sends EXCEPT ![45][<<q, r>>] = @ - 1]
        /\ todo' = [todo EXCEPT ![r] = left]
        /\ UNCHANGED <<neighbors, unordered, sendBuffer, recvs, recvSize, recvBuffer, mesh,
                       localToGlobalMap, ghostsToSend, nonLocalGhosts>>
    BY DEF FixReceiveLists
  <1>2. mesh \in Meshes /\ ListTypeOK /\ RankInv(r) /\ round[r] = 2
    BY <1>1 DEF GInv, RankInv, ControlInv
  <1>3. round[r] > 1 /\ round[r] # 3 /\ round[r] # 1
    BY <1>2
  <1>4. /\ Neighbors(r) = A /\ A \subseteq Ranks \ {r} /\ todo[r] \subseteq A
        /\ Unpacked(r, 1) = A /\ Unpacked(r, 2) = A /\ Unpacked(r, 3) = {}
        /\ Corrected(r) = A \ todo[r] /\ q \in Ranks /\ q # r /\ q \in A /\ q \notin Corrected(r)
    BY <1>1, <1>2, <1>3, StageFacts DEF Corrected, Unpacked
  <1>5. IsList(told, Nodes \X Ranks) /\ ToSet(told) = third
    BY <1>1, <1>4, TellerFacts
  <1>6. \A x \in third : x = <<x[1], x[2]>>
    BY DEF ThirdRank
  <1>7. \A n, o : <<n, o>> \in third =>
            /\ n \in K /\ f[n] = q /\ n \in Guessed(mesh, r, q) /\ n \in ToSet(ghostsToReceive[r, q])
            /\ o \in Ranks /\ o # q /\ Least(o, Holders(mesh, n)) /\ o \in A
    BY <1>3, <1>4, ThirdFacts
  <1> HIDE DEF third
  <1>8. \A n : n \in fixed <=> \E o : <<n, o>> \in third
    BY ZenonT(40), <1>5, <1>6
  <1>9. \A n \in fixed : <<n, owner(n)>> \in third
    <2> TAKE n \in fixed
    <2>1. \E x \in third : x[1] = n
      BY <1>5
    <2>2. PICK x \in third : x[1] = n /\ x = CHOOSE y \in ToSet(told) : y[1] = n
      BY <2>1, <1>5
    <2> QED BY <2>2, <1>6
  <1>10. \A n, o : <<n, o>> \in third <=> n \in fixed /\ owner(n) = o
    <2> TAKE n, o
    <2>1. Holders(mesh, n) \in SUBSET Ranks
      BY DEF Holders
    <2>2. <<n, o>> \in third => n \in fixed
      BY <1>8
    <2> HIDE DEF owner, fixed
    <2>3. n \in fixed => <<n, owner(n)>> \in third
      BY <1>9
    <2>4. <<n, o>> \in third => Least(o, Holders(mesh, n)) /\ Least(owner(n), Holders(mesh, n))
      BY <2>2, <2>3, <1>7
    <2> QED BY <2>1, <2>2, <2>3, <2>4, LeastFacts
  <1>11. /\ fixed \subseteq ToSet(ghostsToReceive[r, q])
         /\ \A x \in ToSet(told) : x[2] \in Neighbors(r)
    <2>1. fixed \subseteq ToSet(ghostsToReceive[r, q])
      BY <1>7, <1>8
    <2>2. \A x \in third : x[2] \in A
      BY <1>6, <1>7
    <2> QED BY <2>1, <2>2, <1>4, <1>5
  <1>12. /\ GoTo(r, Unless(left, "fix", "fixed"), 2)
         /\ ghostRank' = [ghostRank EXCEPT ![r] = [n \in DOMAIN f |-> new(n)]]
         /\ ghostsToReceive' = [p \in Pairs |->
                keep(p) \o [i \in DOMAIN add(p) |-> add(p)[i][1]]]
    BY <1>11 DEF FixReceiveLists

  <1> HIDE DEF fixed, owner
  <1>13. /\ at'[r] = "fix" \/ (at'[r] = "fixed" /\ left = {})
         /\ round'[r] = 2 /\ todo'[r] = left
         /\ \A y \in Ranks \ {r} : at'[y] = at[y] /\ round'[y] = round[y] /\ todo'[y] = todo[y]
    BY <1>1, <1>12 DEF GoTo, Unless, IInv, CommTypeOK
  <1>14. round'[r] > 1 /\ round'[r] # 3 /\ round'[r] # 1
    BY <1>13
  <1>15. /\ Unpacked(r, 1)' = A /\ Unpacked(r, 2)' = A /\ Unpacked(r, 3)' = {}
         /\ Corrected(r)' = Corrected(r) \cup {q} /\ Neighbors(r)' = A
    <2>1. Unpacked(r, 1)' = A /\ Unpacked(r, 2)' = A /\ Unpacked(r, 3)' = {} /\ Neighbors(r)' = A
      BY <1>1, <1>4, <1>13, <1>14 DEF Unpacked, Neighbors
    <2>2. A \ left = (A \ todo[r]) \cup {q} /\ (left = {} => A = (A \ todo[r]) \cup {q})
      BY <1>1, <1>4
    <2>3. Corrected(r)' = IF at'[r] = "fixed" THEN A ELSE A \ left
      BY <1>1, <1>13, <1>14 DEF Corrected
    <2> QED BY <2>1, <2>2, <2>3, <1>4, <1>13
  <1>16. ControlInv(r)'
    <2>1. ControlInv(r) /\ round'[r] \in 1 .. 3
      BY <1>2, <1>13, RoundNumbers DEF RankInv
    <2>2. at'[r] \in Places \ {"error"} /\ at'[r] \in {"fix", "fixed"} /\ at'[r] # "done"
      BY <1>13 DEF Places
    <2> QED BY <2>1, <2>2, <1>1, <1>4, <1>13, <1>15 DEF ControlInv
  <1>17. /\ IsList(localToGlobalMap[r], Nodes) /\ ToSet(localToGlobalMap[r]) = K
         /\ f = [n \in K |-> f[n]] /\ DOMAIN f = K
         /\ \A n \in K : IsGhostRank(mesh, r, n, A, Corrected(r), f[n])
    BY <1>2, <1>4 DEF RankInv, OwnInv
  <1>18. /\ ghostRank'[r] = [n \in K |-> new(n)]
         /\ \A y \in Ranks \ {r} : ghostRank'[y] = ghostRank[y]
         /\ ghostRank' = [y \in Ranks |-> ghostRank'[y]]
    BY <1>2, <1>12, <1>17 DEF ListTypeOK
  <1>19. ASSUME NEW n \in K
         PROVE  IsGhostRank(mesh, r, n, A, Corrected(r) \cup {q}, new(n))
    <2> DEFINE owners == Owners(mesh, r, n, A)
    <2>1. CASE n \in fixed
      <3>1. <<n, owner(n)>> \in third /\ new(n) = owner(n)
        BY <2>1, <1>9
      <3>2. n \in Guessed(mesh, r, q) /\ Least(new(n), Holders(mesh, n))
        BY <3>1, <1>7
      <3>3. Least(q, owners)
        BY <3>2 DEF Guessed
      <3> QED BY <3>2, <3>3, <1>4 DEF IsGhostRank
    <2>2. CASE n \notin fixed
      <3>1. new(n) = f[n]
        BY <2>2
      <3>2. IsGhostRank(mesh, r, n, A, Corrected(r), f[n])
        BY <1>17
      <3>3. CASE owners = {} /\ f[n] \in {-2, -1}
        BY <3>1, <3>3 DEF IsGhostRank
      <3>4. ASSUME NEW g \in Ranks, Least(g, owners),
                   IF g \in Corrected(r) THEN Least(f[n], Holders(mesh, n)) ELSE f[n] = g
            PROVE  IsGhostRank(mesh, r, n, A, Corrected(r) \cup {q}, new(n))
        <4>1. CASE g # q
          BY <3>1, <3>4, <4>1 DEF IsGhostRank
        <4>2. CASE g = q
          <5>1. n \in Guessed(mesh, r, q) /\ f[n] = q
            BY <3>4, <4>2, <1>4 DEF Guessed
          <5>2. n \in Nodes /\ q \in Holders(mesh, n) /\ Holders(mesh, n) \in SUBSET Ranks
            BY <5>1, <1>2, <1>4, GuessedFacts DEF Holders
          <5>3. PICK o \in Ranks : Least(o, Holders(mesh, n))
            BY <5>2, LeastExists
          <5>4. o = q
            <6>1. o # q => <<n, o>> \in third
              BY <5>1, <5>2, <5>3 DEF third, ThirdRank
            <6> QED BY <6>1, <2>2, <1>8
          <5> QED BY <3>1, <3>4, <4>2, <5>1, <5>3, <5>4 DEF IsGhostRank
        <4> QED BY <4>1, <4>2
      <3> QED BY <3>2, <3>3, <3>4 DEF IsGhostRank
    <2> QED BY <2>1, <2>2
  <1>20. OwnInv(r)'
    <2>1. Known(mesh, r, Unpacked(r, 1))' = K
      BY <1>1, <1>15
    <2>2. (\A n \in Known(mesh, r, Unpacked(r, 1)) :
                IsGhostRank(mesh, r, n, Unpacked(r, 1), Corrected(r), ghostRank[r][n]))'
      BY <2>1, <1>1, <1>15, <1>18, <1>19
    <2>3. (ghostRank[r] = [n \in Known(mesh, r, Unpacked(r, 1)) |-> ghostRank[r][n]])'
      BY <2>1, <1>18
    <2> QED BY <2>1, <2>2, <2>3, <1>1, <1>14, <1>17 DEF OwnInv

  <1>21. ASSUME NEW t \in Ranks
         PROVE  /\ IsList(first(t), Nodes)
                /\ \A n : n \in ToSet(first(t)) <=> <<n, t>> \in third
    <2> DEFINE here == {x \in ToSet(told) : x[2] = t}
               ofT  == of(t)
               firstT == first(t)
    <2>1. ofT = Among(told, here) /\ firstT = [i \in DOMAIN ofT |-> ofT[i][1]]
      OBVIOUS
    <2>2. \A x : x \in here <=> x \in ToSet(told) /\ x[2] = t
      OBVIOUS
    <2> HIDE DEF here, ofT, firstT, told
    <2>3. IsList(ofT, Nodes \X Ranks) /\ ToSet(ofT) = ToSet(told) \cap here
      BY <2>1, <1>5, AmongList
    <2>4. \A x \in ToSet(ofT) : x[2] = t
      BY <2>2, <2>3
    <2>5. firstT \in [DOMAIN ofT -> Nodes] /\ \A i \in DOMAIN ofT : firstT[i] = ofT[i][1]
      <3>1. ToSet(ofT) \subseteq Nodes \X Ranks
        BY <2>3, ListMembers
      <3>2. \A i \in DOMAIN ofT : ofT[i] \in ToSet(ofT)
        BY DEF ToSet
      <3>3. \A i \in DOMAIN ofT : ofT[i][1] \in Nodes
        BY <3>1, <3>2
      <3> QED BY <3>3, <2>1
    <2>6. IsList(firstT, Nodes) /\ \A n : n \in ToSet(firstT) <=> <<n, t>> \in ToSet(ofT)
      BY <2>3, <2>4, <2>5, FirstsList
    <2>7. \A n : <<n, t>> \in ToSet(ofT) <=> <<n, t>> \in third
      BY <2>2, <2>3, <1>5
    <2>8. IsList(firstT, Nodes) /\ \A n : n \in ToSet(firstT) <=> <<n, t>> \in third
      BY <2>6, <2>7
    <2> QED BY <2>8 DEF firstT
  <1>22. ASSUME NEW t \in Ranks
         PROVE  /\ ghostsToReceive'[r, t] = keep(<<r, t>>) \o first(t)
                /\ \A y \in Ranks \ {r} : ghostsToReceive'[y, t] = ghostsToReceive[y, t]
    <2>1. ghostsToReceive'[r, t] = keep(<<r, t>>) \o first(t)
      <3> DEFINE p == <<r, t>>
      <3>1. p \in Pairs /\ add(p) = of(t)
        BY PairsOf
      <3> HIDE DEF keep, of, p, add
      <3>2. ghostsToReceive'[p] = keep(p) \o [i \in DOMAIN add(p) |-> add(p)[i][1]]
        BY <3>1, <1>12
      <3>3. [i \in DOMAIN add(p) |-> add(p)[i][1]] = first(t)
        BY <3>1
      <3> QED BY <3>2, <3>3 DEF p
    <2>2. ASSUME NEW y \in Ranks \ {r} PROVE ghostsToReceive'[y, t] = ghostsToReceive[y, t]
      <3> DEFINE p    == <<y, t>>
                 list == ghostsToReceive[p]
                 none == [i \in DOMAIN add(p) |-> add(p)[i][1]]
      <3>1. p \in Pairs /\ add(p) = << >> /\ keep(p) = list
        BY <1>4, PairsOf
      <3>2. IsList(list, Nodes)
        BY DEF GInv, RankInv, ReceiveInv
      <3>3. DOMAIN none = {}
        <4>1. DOMAIN << >> = {}
          OBVIOUS
        <4> HIDE DEF add
        <4> QED BY <4>1, <3>1
      <3>4. ghostsToReceive'[p] = keep(p) \o none
        <4> HIDE DEF add, keep
        <4> QED BY <3>1, <1>12
      <3>5. none = << >>
        <4>1. none = [i \in {} |-> add(p)[i][1]]
          BY <3>3
        <4> HIDE DEF none
        <4> QED BY <4>1
      <3> HIDE DEF add, keep, none, list
      <3>6. list \o << >> = list
        BY <3>2, ConcatEmptySeq DEF IsList
      <3> QED BY <3>1, <3>4, <3>5, <3>6 DEF list
    <2> QED BY <2>1, <2>2

  <1>23. ASSUME NEW t \in Ranks PROVE ReceiveInv(r, t)'
    <2> DEFINE list   == ghostsToReceive[r, t]
               kept   == keep(<<r, t>>)
               firstT == first(t)
    <2>1. IsList(list, Nodes) /\ ToSet(list) = {n \in K : f[n] = t}
      BY <1>2, <1>3 DEF RankInv, ReceiveInv
    <2>2. kept = IF t = q THEN Among(list, ToSet(list) \ fixed) ELSE list
      BY <1>4
    <2>3. /\ IsList(firstT, Nodes) /\ \A n : n \in ToSet(firstT) <=> <<n, t>> \in third
          /\ ghostsToReceive'[r, t] = kept \o firstT
      BY <1>21, <1>22
    <2>4. IsList(kept, Nodes) /\ \A n : n \in ToSet(kept) <=>
                n \in ToSet(list) /\ (t = q => n \notin fixed)
      <3> HIDE DEF kept, list
      <3>1. CASE t = q
        <4> DEFINE rest == ToSet(list) \ fixed
        <4>1. kept = Among(list, rest)
          BY <2>2, <3>1
        <4> HIDE DEF rest
        <4>2. IsList(kept, Nodes) /\ ToSet(kept) = ToSet(list) \cap rest
          BY <4>1, <2>1, AmongList
        <4> QED BY <4>2, <3>1 DEF rest
      <3> QED BY <3>1, <2>1, <2>2
    <2>5. \A n \in K : new(n) = t <=> (n \in ToSet(kept) \/ n \in ToSet(firstT))
      <3> TAKE n \in K
      <3>1. n \in fixed => <<n, owner(n)>> \in third /\ f[n] = q /\ owner(n) # q
        BY <1>7, <1>9
      <3>2. n \in ToSet(firstT) <=> n \in fixed /\ owner(n) = t
        BY <2>3, <1>10
      <3>3. n \in ToSet(kept) <=> f[n] = t /\ (t = q => n \notin fixed)
        BY <2>1, <2>4
      <3> HIDE DEF kept, firstT, list, f
      <3> QED BY <3>1, <3>2, <3>3
    <2>6. \A n : n \in ToSet(kept) \/ n \in ToSet(firstT) => n \in K
      BY <2>1, <2>3, <2>4, <1>7
    <2>7. \A n \in ToSet(kept) : n \notin ToSet(firstT)
      <3> TAKE n \in ToSet(kept)
      <3>1. f[n] = t /\ (t = q => n \notin fixed)
        BY <2>1, <2>4
      <3>2. n \in ToSet(firstT) => n \in fixed /\ f[n] = q /\ t # q
        BY <2>3, <1>7, <1>10
      <3> HIDE DEF kept, firstT, list, f
      <3> QED BY <3>1, <3>2
    <2>8. IsList(kept \o firstT, Nodes) /\ ToSet(kept \o firstT) = ToSet(kept) \cup ToSet(firstT)
      <3> HIDE DEF kept, firstT, list
      <3>1. /\ IsList(kept, Nodes) /\ IsList(firstT, Nodes)
            /\ \A x \in ToSet(kept) : x \notin ToSet(firstT)
        BY <2>3, <2>4, <2>7
      <3> HIDE DEF f, K, A, told, new, of, first, left, keep, add
      <3>2. IsList(kept \o firstT, Nodes)
        BY <3>1, ConcatList
      <3>3. ToSet(kept \o firstT) = ToSet(kept) \cup ToSet(firstT)
        BY SMT, ZenonT(60), <3>1, ConcatList
      <3> QED BY <3>2, <3>3
    <2>9. {n \in Known(mesh, r, Around(mesh, r)) : ghostRank[r][n] = t}' = {n \in K : new(n) = t}
      <3> HIDE DEF new
      <3> QED BY <1>1, <1>18
    <2>10. ToSet(ghostsToReceive'[r, t]) = {n \in K : new(n) = t}
      <3> HIDE DEF kept, firstT, new, K
      <3> QED BY <2>3, <2>5, <2>6, <2>8
    <2>11. IsList(ghostsToReceive'[r, t], Nodes)
      BY <2>3, <2>8
    <2> QED BY <2>9, <2>10, <2>11 DEF ReceiveInv
  <1>24. /\ \A y \in Ranks \ {q}, x \in Ranks : sends'[45][<<y, x>>] = sends[45][<<y, x>>]
         /\ \A x \in Ranks : sends'[45][<<q, x>>] \in {0, sends[45][<<q, x>>]}
    <2>1. sends \in [Tags -> [Pairs -> Nat]] /\ 45 \in Tags
      BY DEF IInv, CommTypeOK, Tags
    <2>2. \A y, x \in Ranks : sends'[45][<<y, x>>] =
            IF y = q /\ x = r THEN sends[45][<<q, r>>] - 1 ELSE sends[45][<<y, x>>]
      <3> TAKE y, x \in Ranks
      <3>1. <<y, x>> \in Pairs
        BY PairsOf
      <3> QED BY <2>1, <3>1, <1>1
    <2>3. sends[45][<<q, r>>] - 1 = 0
      <3>1. sends[45][<<q, r>>] \in {0, 1} /\ sends[45][<<q, r>>] > 0
        BY <1>1, <1>4 DEF GInv, RankInv, SendInv
      <3>2. \A k : k \in {0, 1} /\ k > 0 => k - 1 = 0
        OBVIOUS
      <3> QED BY <3>1, <3>2
    <2>4. \A y \in Ranks \ {q}, x \in Ranks : sends'[45][<<y, x>>] = sends[45][<<y, x>>]
      BY <2>2
    <2>5. ASSUME NEW x \in Ranks
          PROVE  sends'[45][<<q, x>>] = 0 \/ sends'[45][<<q, x>>] = sends[45][<<q, x>>]
      <3>1. CASE x = r
        <4>1. sends'[45][<<q, x>>] = sends[45][<<q, r>>] - 1
          BY <2>2, <3>1, <1>4
        <4> QED BY <4>1, <2>3
      <3>2. CASE x # r
        BY <2>2, <3>2, <1>4
      <3> QED BY <3>1, <3>2
    <2> QED BY <2>4, <2>5
  <1>25. ASSUME NEW x \in Ranks PROVE SendInv(r, x)'
    <2>1. SendInv(r, x)
      BY <1>2 DEF RankInv
    <2>2. sends'[45][<<r, x>>] = sends[45][<<r, x>>]
      BY <1>4, <1>24
    <2>3. (/\ sends[45][<<r, x>>] \in {0, 1}
           /\ sends[45][<<r, x>>] > 0 => at[r] \in {"fix", "fixed"} /\ x \in Around(mesh, r))'
      BY <2>1, <2>2, <1>1, <1>13 DEF SendInv
    <2>4. (x \in Unpacked(r, 2) \ Unpacked(r, 3) =>
                ToSet(nonLocalGhosts[r, x]) = ThirdRank(mesh, x, r))'
      BY <2>1, <1>1, <1>4, <1>15 DEF SendInv
    <2>5. (/\ IsList(ghostsToSend[r, x], Nodes)
           /\ nonLocalGhosts[r, x] \in Seq(Nodes \X Ranks) /\ IsInjective(nonLocalGhosts[r, x])
           /\ x \notin Around(mesh, r) => ghostsToSend[r, x] = << >>)'
      BY <2>1, <1>1 DEF SendInv
    <2>6. x \notin Unpacked(r, 3)'
      BY <1>15
    <2> QED BY <2>3, <2>4, <2>5, <2>6 DEF SendInv
  <1>26. ASSUME NEW x \in Ranks PROVE IsMessage(r, x, sendBuffer[r, x])'
    <2>1. IsMessage(r, x, sendBuffer[r, x])
      BY <1>2 DEF RankInv
    <2> QED BY <2>1, <1>1, <1>3, MessageStays DEF IsMessage
  <1>27. RankInv(r)'
    BY <1>16, <1>20, <1>23, <1>25, <1>26 DEF RankInv
  <1>28. ListTypeOK'
    <2>1. ghostsToReceive' = [p \in Pairs |-> ghostsToReceive'[p]]
      <3> HIDE DEF keep, add
      <3> QED BY <1>12
    <2> QED BY <2>1, <1>1, <1>2, <1>18 DEF ListTypeOK
  <1>29. ListsKept(r)
    BY <1>3 DEF ListsKept
  <1>30. ASSUME NEW y \in Ranks \ {r} PROVE Kept(y)
    <2>1. \A x \in Ranks : ghostsToReceive'[y, x] = ghostsToReceive[y, x]
      BY <1>22
    <2>2. \A x \in Ranks : sends'[45][<<y, x>>] \in {0, sends[45][<<y, x>>]}
      BY <1>24
    <2> QED BY <2>1, <2>2, <1>1, <1>13, <1>18 DEF Kept
  <1> QED BY <1>1, <1>27, <1>28, <1>29, <1>30, OnlyOfGInv DEF OnlyOf

-----------------------------------------------------------------------------
(* The end.                                                                  *)

\* In round 3 a rank receives from another what is that one's.
LEMMA OwedIs ==
    ASSUME GInv, NEW r \in Ranks, NEW q \in Ranks, q # r, round[r] = 3
    PROVE  ToSet(ghostsToReceive[r, q]) = Owed(mesh, r, q)
  <1>1. ReceiveInv(r, q) /\ round[r] > 1
    BY ThirdIsLate DEF GInv, RankInv
  <1>2. ToSet(ghostsToReceive[r, q]) =
            {n \in Known(mesh, r, Around(mesh, r)) : ghostRank[r][n] = q}
    BY <1>1 DEF ReceiveInv
  <1>3. ASSUME NEW n \in Known(mesh, r, Around(mesh, r))
        PROVE  ghostRank[r][n] = q <=> Least(q, Holders(mesh, n))
    <2>1. \/ ghostRank[r][n] \in {-2, -1} /\ Least(r, Holders(mesh, n))
          \/ ghostRank[r][n] # r /\ Least(ghostRank[r][n], Holders(mesh, n))
      BY OwnersAreRight
    <2>2. Holders(mesh, n) \in SUBSET Ranks
      BY DEF Holders
    <2> QED BY <2>1, <2>2, LeastFacts, NoNegativeRank
  <1> QED BY <1>2, <1>3 DEF Owed

\* verifyGhostingConsistency() finds nothing, and removeUnusedNeighbors() leaves
\* those with which something is exchanged.
LEMMA FinishFacts ==
    ASSUME GInv, NEW r \in Ranks, at[r] = "wait", round[r] = 3
    PROVE  /\ Consistent(r)
           /\ \A q \in Around(mesh, r) : Used(r, q) <=> Exchanging(mesh, r, q)
  <1>1. /\ RankInv(r) /\ Unpacked(r, 3) = Around(mesh, r) /\ Neighbors(r) = Around(mesh, r)
        /\ Around(mesh, r) \subseteq Ranks \ {r} /\ round[r] > 1
    BY StageFacts, ThirdIsLate DEF GInv
  <1>2. ASSUME NEW q \in Around(mesh, r)
        PROVE  /\ \A n \in ToSet(ghostsToReceive[r, q]) : ghostRank[r][n] = q
               /\ \A n \in ToSet(ghostsToSend[r, q]) : ghostRank[r][n] = -1
               /\ nonLocalGhosts[r, q] = << >>
               /\ round[q] = 3 /\ ghostsToSend[r, q] = ghostsToReceive[q, r]
    <2>1. q \in Ranks /\ ReceiveInv(r, q) /\ SendInv(r, q)
      BY <1>1 DEF RankInv
    <2>2. \A n \in ToSet(ghostsToReceive[r, q]) : ghostRank[r][n] = q
      BY <2>1, <1>1 DEF ReceiveInv
    <2> QED BY <2>1, <2>2, <1>1 DEF SendInv
  <1>3. Consistent(r)
    BY <1>1, <1>2 DEF Consistent
  <1>4. ASSUME NEW q \in Around(mesh, r) PROVE Used(r, q) <=> Exchanging(mesh, r, q)
    <2>1. q \in Ranks /\ q # r
      BY <1>1
    <2>2. /\ ToSet(ghostsToReceive[r, q]) = Owed(mesh, r, q)
          /\ ToSet(ghostsToReceive[q, r]) = Owed(mesh, q, r)
      BY <1>2, <2>1, OwedIs
    <2>3. IsList(ghostsToReceive[r, q], Nodes) /\ IsList(ghostsToReceive[q, r], Nodes)
      BY <2>1 DEF GInv, RankInv, ReceiveInv
    <2>4. /\ ghostsToReceive[r, q] = << >> <=> ToSet(ghostsToReceive[r, q]) = {}
          /\ ghostsToReceive[q, r] = << >> <=> ToSet(ghostsToReceive[q, r]) = {}
      BY <2>3, ListMembers
    <2> QED BY <1>2, <2>2, <2>4 DEF Used, Exchanging
  <1> QED BY <1>3, <1>4

LEMMA FinishGInv == ASSUME IInv, GInv, NEW r \in Ranks, Finish(r) PROVE GInv'
  <1> DEFINE A    == Around(mesh, r)
             used == {q \in ToSet(neighbors[r]) : Used(r, q)}
  <1>1. /\ at[r] = "wait" /\ round[r] = 3 /\ round[r] > 1 /\ round[r] # 1
        /\ UNCHANGED <<unordered, todo, messages, mesh, lists>>
    BY DEF Finish, WaitSends
  <1>2. Consistent(r) /\ \A q \in A : Used(r, q) <=> Exchanging(mesh, r, q)
    BY <1>1, FinishFacts
  <1>3. /\ RankInv(r) /\ mesh \in Meshes /\ A \subseteq Ranks \ {r} /\ Neighbors(r) = A
        /\ Unpacked(r, 1) = A /\ Unpacked(r, 2) = A /\ Unpacked(r, 3) = A /\ Corrected(r) = A
    BY <1>1, StageFacts DEF GInv, Corrected
  <1>4. /\ at'[r] = "done" /\ round'[r] = 3
        /\ \A y \in Ranks \ {r} : at'[y] = at[y] /\ round'[y] = round[y]
    BY <1>2 DEF Finish, GoTo, IInv, CommTypeOK
  <1>5. /\ neighbors'[r] = Among(neighbors[r], used)
        /\ \A y \in Ranks \ {r} : neighbors'[y] = neighbors[y]
    BY <1>2 DEF Finish, IInv, CommTypeOK
  <1>6. UNCHANGED <<sendBuffer, sends, recvBuffer>>
    BY <1>1 DEF messages
  <1>7. round'[r] > 1 /\ round'[r] # 1
    BY <1>4
  <1>8. /\ Unpacked(r, 1)' = A /\ Unpacked(r, 2)' = A /\ Unpacked(r, 3)' = A /\ Corrected(r)' = A
    BY <1>1, <1>4 DEF Unpacked, Corrected
  <1>9. /\ IsList(neighbors'[r], A)
        /\ Neighbors(r)' = {q \in A : Exchanging(mesh, r, q)}
    <2>1. IsList(neighbors[r], A) /\ ToSet(neighbors[r]) = A
      BY <1>3 DEF RankInv, ControlInv, Neighbors
    <2>2. used = {q \in A : Exchanging(mesh, r, q)}
      BY <1>2, <2>1
    <2> HIDE DEF used, A
    <2>3. IsList(neighbors'[r], A) /\ ToSet(neighbors'[r]) = ToSet(neighbors[r]) \cap used
      BY <1>5, <2>1, AmongList
    <2> QED BY <2>1, <2>2, <2>3 DEF Neighbors
  <1>10. ControlInv(r)'
    <2>1. ControlInv(r) /\ round'[r] \in 1 .. 3
      BY <1>3, <1>4, RoundNumbers DEF RankInv
    <2>2. at'[r] \in Places \ {"error"} /\ at'[r] \notin {"fix", "fixed"} /\ at'[r] = "done"
      BY <1>4 DEF Places
    <2>3. {q \in Around(mesh, r) : Exchanging(mesh, r, q)}' = {q \in A : Exchanging(mesh, r, q)}
      BY <1>1
    <2> QED BY <2>1, <2>2, <2>3, <1>1, <1>4, <1>9 DEF ControlInv
  <1>11. ASSUME NEW q \in Ranks
         PROVE  /\ sends'[45][<<r, q>>] \in {0, 1}
                /\ sends'[45][<<r, q>>] > 0 => at'[r] \in {"fix", "fixed"} /\ q \in Around(mesh, r)
    BY <1>1, <1>6, NotTold
  <1>12. ASSUME NEW q \in Ranks PROVE IsMessage(r, q, sendBuffer[r, q])'
    <2>1. IsMessage(r, q, sendBuffer[r, q])
      BY <1>3 DEF RankInv
    <2>2. ghostsToReceive' = ghostsToReceive
      BY <1>1 DEF lists
    <2> QED BY <2>1, <2>2, <1>1, <1>4, <1>6, MessageStays DEF IsMessage
  <1>13. /\ round[r] = 3 => round'[r] = 3
         /\ round'[r] > 1 => round[r] > 1
         /\ ~(round'[r] = 1 /\ at'[r] = "send")
    BY <1>1, <1>4, <1>7
  <1>14. \A y \in Ranks \ {r} :
            /\ at'[y] = at[y] /\ round'[y] = round[y] /\ todo'[y] = todo[y]
            /\ neighbors'[y] = neighbors[y]
            /\ \A q \in Ranks : /\ sendBuffer'[y, q] = sendBuffer[y, q]
                                /\ sends'[45][<<y, q>>] = sends[45][<<y, q>>]
    BY <1>1, <1>4, <1>5, <1>6
  <1> QED BY <1>1, <1>3, <1>6, <1>8, <1>10, <1>11, <1>12, <1>13, <1>14, ControlStepGInv

-----------------------------------------------------------------------------
(* The invariant of all steps.                                               *)

\* No size is announced that is not one of a list of nodes.
SizeInv == /\ recvSize = [p \in Pairs |-> recvSize[p]]
           /\ \A p \in Pairs : recvSize[p] \in 0 .. Cardinality(Nodes)

GhostInv == IInv /\ GInv /\ SizeInv

LEMMA RankGInv == ASSUME IInv, GInv, NEW r \in Ranks, Rank(r) PROVE GInv' /\ UNCHANGED recvSize
  <1>1. GInv'
    BY SendGInv, PostRecvGInv, UnpackGhostsGInv, RebuildSyncListsGInv, FixReceiveListsGInv,
       SetReceiveListsGInv, SendNonLocalGhostsGInv, FixDoneGInv, FinishGInv DEF Rank
  <1>2. UNCHANGED recvSize
    BY DEF Rank, Send, SendTo, PostRecv, SizeArrived, UnpackGhosts, RebuildSyncLists, DataArrived,
           FixReceiveLists, SetReceiveLists, SendNonLocalGhosts, FixDone, Finish, messages
  <1> QED BY <1>1, <1>2

LEMMA DeliverSizeGInv ==
    ASSUME GhostInv, NEW a \in Ranks, NEW b \in Ranks, DeliverSize(<<a, b>>),
           UNCHANGED <<mesh, lists>>
    PROVE  GInv' /\ SizeInv'
  <1>1. /\ UNCHANGED <<neighbors, unordered, sendBuffer, recvBuffer, control, mesh, lists>>
        /\ sends' = [sends EXCEPT ![101][<<a, b>>] = @ - 1]
        /\ recvSize' = [recvSize EXCEPT ![<<a, b>>] = Len(sendBuffer[<<a, b>>].items)]
    BY DEF DeliverSize, Deliver
  <1>2. sends'[45] = sends[45]
    BY <1>1 DEF GhostInv, IInv, CommTypeOK, Tags
  <1>3. GInv'
    BY <1>1, <1>2, DeliveryGInv DEF GhostInv
  <1>4. Len(sendBuffer[<<a, b>>].items) \in 0 .. Cardinality(Nodes)
    <2>1. IsList(sendBuffer[<<a, b>>].items, Nodes)
      BY DEF GhostInv, GInv, RankInv, IsMessage
    <2> QED BY <2>1, MeshAssumption, ListLength
  <1>5. SizeInv'
    BY <1>1, <1>4 DEF GhostInv, SizeInv
  <1> QED BY <1>3, <1>5

LEMMA DeliverDataGInv ==
    ASSUME GhostInv, NEW a \in Ranks, NEW b \in Ranks, DeliverData(<<a, b>>),
           UNCHANGED <<mesh, lists>>
    PROVE  GInv' /\ UNCHANGED recvSize
  <1>1. /\ UNCHANGED <<neighbors, unordered, sendBuffer, recvSize, control, mesh, lists>>
        /\ sends' = [sends EXCEPT ![102][<<a, b>>] = @ - 1]
        /\ recvBuffer' = [recvBuffer EXCEPT ![<<a, b>>] = sendBuffer[<<a, b>>]]
    BY DEF DeliverData, Deliver
  <1>2. sends'[45] = sends[45]
    BY <1>1 DEF GhostInv, IInv, CommTypeOK, Tags
  <1>3. \A y, q \in Ranks : recvBuffer'[y, q] \in {recvBuffer[y, q], sendBuffer[y, q]}
    BY <1>1, PairsOf DEF GhostInv, IInv, CommTypeOK
  <1> QED BY <1>1, <1>2, <1>3, DeliveryGInv DEF GhostInv

LEMMA InitGhostInv == Init => GhostInv
  <1> SUFFICES ASSUME Init PROVE SizeInv
    BY InitIInv, InitGInv DEF GhostInv
  <1>1. Cardinality(Nodes) \in Nat
    BY MeshAssumption, FS_CardinalityType
  <1>2. 0 \in 0 .. Cardinality(Nodes)
    BY <1>1
  <1> QED BY <1>2 DEF Init, CommInit, SizeInv

LEMMA NextGhostInv == GhostInv /\ [Next]_vars => GhostInv'
  <1> SUFFICES ASSUME GhostInv, [Next]_vars PROVE GhostInv'
    OBVIOUS
  <1>1. IInv'
    BY NextIInv DEF GhostInv
  <1>2. UNCHANGED recvSize => SizeInv'
    BY DEF GhostInv, SizeInv
  <1>3. ASSUME NEW r \in Ranks, Rank(r) PROVE GInv' /\ SizeInv'
    BY <1>2, <1>3, RankGInv DEF GhostInv
  <1>4. CASE MPIDelivers
    <2>1. PICK a \in Ranks, b \in Ranks : /\ DeliverSize(<<a, b>>) \/ DeliverData(<<a, b>>)
                                          /\ UNCHANGED <<mesh, lists>>
      BY <1>4, RanksOf DEF MPIDelivers
    <2>2. GInv' /\ SizeInv'
      BY <2>1, <1>2, DeliverSizeGInv, DeliverDataGInv
    <2> QED BY <2>2, <1>1 DEF GhostInv
  <1>5. CASE UNCHANGED vars
    <2>1. /\ UNCHANGED <<neighbors, unordered, control, sendBuffer, mesh, lists>>
          /\ UNCHANGED <<sends, recvSize, recvBuffer>>
      BY <1>5 DEF vars, messages
    <2>2. GInv'
      BY <2>1, DeliveryGInv DEF GhostInv
    <2> QED BY <2>1, <2>2, <1>1, <1>2 DEF GhostInv
  <1> QED BY <1>1, <1>3, <1>4, <1>5 DEF Next, GhostInv

THEOREM GhostInvariant == Spec => []GhostInv
  BY InitGhostInv, NextGhostInv, PTL DEF Spec

-----------------------------------------------------------------------------
(* The theorems.                                                             *)

\* verifyGhostingConsistency() never fails, no rank is told of a node it does not
\* have, and fixReceiveLists() never meets an owner that is not a neighbour: of
\* any number of ranks and for any partition, setupGhosts() ends in no error.
THEOREM NoGhostingErrorEver == Spec => []NoGhostingError
  <1>1. GhostInv => NoGhostingError
    BY DEF GhostInv, GInv, RankInv, ControlInv, NoGhostingError
  <1> QED BY <1>1, GhostInvariant, PTL

\* What a rank that is done has: the nodes of all elements that touch its own
LEMMA KnownIsExpected ==
    ASSUME NEW m \in Meshes, NEW r \in Ranks
    PROVE  Known(m, r, Around(m, r)) =
                Local(m, r) \cup UNION {Adjacent(m, q, r) : q \in Ranks \ {r}}
  <1>1. \A q \in Ranks \ {r} : Adjacent(m, q, r) # {} => q \in Around(m, r)
    BY MeshFacts, AroundFacts
  <1>2. Around(m, r) \subseteq Ranks \ {r}
    BY AroundFacts
  <1> QED BY <1>1, <1>2 DEF Known

\* setupGhosts() gives every rank the nodes of the elements that touch its own,
\* and each node to the lowest rank that has it, as unpackGlobalMaps() and
\* fixReceiveLists() are to find out between them.
THEOREM LowestRankAlwaysOwns == Spec => []LowestRankOwns
  <1>1. ASSUME GhostInv, NEW r \in Ranks, at[r] = "done"
        PROVE  /\ DOMAIN ghostRank[r] = Expected(r)
               /\ \A n \in Expected(r) :
                     IF OwnerOf(n) = r THEN ghostRank[r][n] < 0 ELSE ghostRank[r][n] = OwnerOf(n)
    <2>1. GInv /\ mesh \in Meshes /\ OwnInv(r) /\ round[r] = 3
      BY <1>1 DEF GhostInv, GInv, RankInv, ControlInv
    <2>2. Unpacked(r, 1) = Around(mesh, r)
      BY <2>1, StageFacts, ThirdIsLate
    <2>3. Expected(r) = Known(mesh, r, Around(mesh, r))
      BY <2>1, KnownIsExpected DEF Expected
    <2>4. DOMAIN ghostRank[r] = Expected(r)
      BY <2>1, <2>2, <2>3 DEF OwnInv
    <2>5. ASSUME NEW n \in Expected(r)
          PROVE  IF OwnerOf(n) = r THEN ghostRank[r][n] < 0 ELSE ghostRank[r][n] = OwnerOf(n)
      <3> DEFINE o == ghostRank[r][n]
      <3>1. \/ o \in {-2, -1} /\ Least(r, Holders(mesh, n))
            \/ o # r /\ Least(o, Holders(mesh, n))
        BY <2>1, <2>3, OwnersAreRight
      <3>2. OwnerOf(n) = CHOOSE x \in Holders(mesh, n) : \A y \in Holders(mesh, n) : x <= y
        BY DEF OwnerOf, Min, Holders
      <3>3. Holders(mesh, n) \in SUBSET Ranks
        BY DEF Holders
      <3>4. \A x : Least(x, Holders(mesh, n)) => OwnerOf(n) = x
        <4> SUFFICES ASSUME NEW x, Least(x, Holders(mesh, n)) PROVE OwnerOf(n) = x
          OBVIOUS
        <4>1. Least(OwnerOf(n), Holders(mesh, n))
          BY <3>2 DEF Least
        <4> QED BY <4>1, <3>3, LeastFacts
      <3>5. \A k \in {-2, -1} : k < 0
        OBVIOUS
      <3> HIDE DEF o
      <3>6. IF OwnerOf(n) = r THEN o < 0 ELSE o = OwnerOf(n)
        BY <3>1, <3>4, <3>5
      <3> QED BY <3>6 DEF o
    <2> QED BY <2>4, <2>5
  <1>2. GhostInv => LowestRankOwns
    BY <1>1 DEF LowestRankOwns
  <1> QED BY <1>2, GhostInvariant, PTL

\* Two ranks that are done have each other as neighbours or neither has, and what
\* one packs is, in that order, what the other unpacks: the ghostsToSend of the
\* one are the ghostsToReceive of the other.
THEOREM PairsAlwaysAgree == Spec => []PairsAgree
  <1>1. ASSUME GhostInv, NEW r \in Ranks, NEW q \in Ranks, at[r] = "done", at[q] = "done", r # q
        PROVE  /\ (q \in Neighbors(r)) = (r \in Neighbors(q))
               /\ ghostsToSend[r, q] = ghostsToReceive[q, r]
               /\ ToSet(ghostsToReceive[q, r]) =
                        {n \in DOMAIN ghostRank[q] : ghostRank[q][n] = r}
    <2>1. /\ GInv /\ mesh \in Meshes /\ RankInv(r) /\ RankInv(q)
          /\ round[r] = 3 /\ round[q] = 3
      BY <1>1 DEF GhostInv, GInv, RankInv, ControlInv
    <2>2. q \in Around(mesh, r) <=> r \in Around(mesh, q)
      BY <2>1, AroundFacts
    <2>3. q \in Neighbors(r) <=> r \in Neighbors(q)
      BY <1>1, <2>1, <2>2 DEF RankInv, ControlInv, Exchanging
    <2>4. IsList(ghostsToReceive[q, r], Nodes) /\ SendInv(r, q) /\ ReceiveInv(q, r)
      BY <2>1 DEF RankInv, ReceiveInv
    <2>5. ghostsToSend[r, q] = ghostsToReceive[q, r]
      <3>1. CASE q \in Around(mesh, r)
        <4>1. q \in Unpacked(r, 3)
          BY <1>1, <2>1, <3>1 DEF Unpacked
        <4> QED BY <4>1, <2>4 DEF SendInv
      <3>2. CASE q \notin Around(mesh, r)
        <4>1. Owed(mesh, q, r) = {}
          BY <1>1, <2>1, <2>2, <3>2, OwnerIsNear DEF Owed
        <4>2. ToSet(ghostsToReceive[q, r]) = {}
          BY <1>1, <2>1, <4>1, OwedIs
        <4>3. ghostsToReceive[q, r] = << >>
          BY <2>4, <4>2, ListMembers
        <4> QED BY <2>4, <3>2, <4>3 DEF SendInv
      <3> QED BY <3>1, <3>2
    <2>6. ToSet(ghostsToReceive[q, r]) = {n \in DOMAIN ghostRank[q] : ghostRank[q][n] = r}
      <3>1. round[q] > 1 /\ Unpacked(q, 1) = Around(mesh, q)
        BY <2>1, StageFacts, ThirdIsLate
      <3>2. DOMAIN ghostRank[q] = Known(mesh, q, Around(mesh, q))
        BY <2>1, <3>1 DEF RankInv, OwnInv
      <3> QED BY <2>4, <3>1, <3>2 DEF ReceiveInv
    <2>7. (q \in Neighbors(r)) = (r \in Neighbors(q))
      BY <2>3
    <2> QED BY <2>5, <2>6, <2>7
  <1>2. GhostInv => PairsAgree
    BY <1>1 DEF PairsAgree
  <1> QED BY <1>2, GhostInvariant, PTL

\* The types of all variables; in particular no list of local indices has one
\* twice, and MpiWrapper never starts a send while the one before it on the same
\* tag, to the same rank, has not completed.
THEOREM GhostTypesAreOK == Spec => []GhostTypeOK
  <1>1. ASSUME GhostInv, NEW r \in Ranks
        PROVE  /\ round[r] \in 1 .. 3 /\ at[r] \in Places
               /\ neighbors[r] \in Seq(Ranks \ {r}) /\ todo[r] \subseteq Ranks
               /\ IsInjective(localToGlobalMap[r]) /\ ToSet(localToGlobalMap[r]) \subseteq Nodes
               /\ ghostRank[r] \in [ToSet(localToGlobalMap[r]) -> -2 .. RankCount - 1]
    <2>1. GInv /\ mesh \in Meshes /\ ControlInv(r) /\ OwnInv(r)
      BY <1>1 DEF GhostInv, GInv, RankInv
    <2>2. Around(mesh, r) \subseteq Ranks \ {r}
      BY <2>1, StageFacts
    <2>3. neighbors[r] \in Seq(Ranks \ {r})
      BY <2>1, <2>2, SeqMonotonic DEF ControlInv, IsList
    <2>4. IsInjective(localToGlobalMap[r]) /\ ToSet(localToGlobalMap[r]) \subseteq Nodes
      BY <2>1, ListMembers DEF OwnInv, IsList
    <2>5. \A n \in Known(mesh, r, Unpacked(r, 1)) : ghostRank[r][n] \in -2 .. RankCount - 1
      <3>1. \A a : a \in Ranks \/ a \in {-2, -1} => a \in -2 .. RankCount - 1
        BY RankCountAssumption DEF Ranks
      <3>2. \A n \in Known(mesh, r, Unpacked(r, 1)) :
                ghostRank[r][n] \in Ranks \/ ghostRank[r][n] \in {-2, -1}
        BY <2>1, RankOrNone DEF OwnInv
      <3> QED BY <3>1, <3>2
    <2>6. ghostRank[r] \in [ToSet(localToGlobalMap[r]) -> -2 .. RankCount - 1]
      BY <2>1, <2>5 DEF OwnInv
    <2> QED BY <2>1, <2>2, <2>3, <2>4, <2>6 DEF ControlInv
  <1>2. ASSUME GhostInv, NEW p \in Pairs
        PROVE  /\ \A list \in {ghostsToReceive[p], ghostsToSend[p], recvBuffer[p].items} :
                        IsInjective(list) /\ ToSet(list) \subseteq Nodes
               /\ IsInjective(nonLocalGhosts[p]) /\ recvSize[p] \in 0 .. Cardinality(Nodes)
    <2>1. PICK s \in Ranks, x \in Ranks : p = <<s, x>>
      BY RanksOf
    <2>2. /\ IsList(ghostsToReceive[p], Nodes) /\ IsList(ghostsToSend[p], Nodes)
          /\ IsList(recvBuffer[p].items, Nodes) /\ IsInjective(nonLocalGhosts[p])
      BY <1>2, <2>1 DEF GhostInv, GInv, RankInv, ReceiveInv, SendInv, IsMessage
    <2>3. \A list : IsList(list, Nodes) => IsInjective(list) /\ ToSet(list) \subseteq Nodes
      BY ListMembers DEF IsList
    <2> QED BY <1>2, <2>2, <2>3 DEF GhostInv, SizeInv
  <1>3. ASSUME GhostInv PROVE sends \in [Tags -> [Pairs -> {0, 1}]]
    <2>1. sends \in [Tags -> [Pairs -> Nat]]
      BY <1>3 DEF GhostInv, IInv, CommTypeOK
    <2>2. ASSUME NEW t \in Tags, NEW p \in Pairs PROVE sends[t][p] \in {0, 1}
      <3>1. PICK s \in Ranks, x \in Ranks : p = <<s, x>>
        BY RanksOf
      <3>2. CASE t = 45
        BY <1>3, <3>1, <3>2 DEF GhostInv, GInv, RankInv, SendInv
      <3>3. CASE t # 45
        <4>1. sends[101][p] <= 1 /\ sends[102][p] <= 1
          BY <1>3, <3>1 DEF GhostInv, IInv, PairInv, SenderInv
        <4>2. sends[t][p] \in Nat /\ sends[t][p] <= 1
          BY <2>1, <3>3, <4>1 DEF Tags
        <4>3. \A k \in Nat : k <= 1 => k \in {0, 1}
          OBVIOUS
        <4> QED BY <4>2, <4>3
      <3> QED BY <3>2, <3>3
    <2> QED BY <2>1, <2>2
  <1>4. ASSUME GhostInv
        PROVE  /\ unordered \in BOOLEAN /\ mesh \in Meshes
               /\ recvs \in [Tags -> [Pairs -> {"null", "posted", "complete"}]]
    BY <1>4 DEF GhostInv, GInv, IInv, CommTypeOK, Requests
  <1>5. GhostInv => GhostTypeOK
    BY <1>1, <1>2, <1>3, <1>4 DEF GhostTypeOK
  <1> QED BY <1>5, GhostInvariant, PTL
=============================================================================
