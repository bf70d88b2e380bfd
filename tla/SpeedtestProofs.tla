--------------------------- MODULE SpeedtestProofs ---------------------------
(***************************************************************************)
(* Proofs about speedtest (Speedtest), for every file length and window:  *)
(* the passive peer P calls IOEX_session_start only after its stream is   *)
(* transport_ready, although unchanged_streams is updated without a lock  *)
(* by the carrier and the ICE thread (StartAfterTransportReady).          *)
(***************************************************************************)
EXTENDS Speedtest, TLAPS

(* Appending x to a queue adds x and keeps what was there. *)
LEMMA InQueueAppend ==
  ASSUME NEW S, NEW q \in Seq(S), NEW x \in S, NEW m
  PROVE  InQueue(Append(q, x), m) <=> InQueue(q, m) \/ x = m
<1>1. ASSUME NEW i \in DOMAIN Append(q, x), Append(q, x)[i] = m
      PROVE  InQueue(q, m) \/ x = m
  <2>1. CASE i = Len(q) + 1
    BY <1>1, <2>1
  <2>2. CASE i # Len(q) + 1
    <3>1. i \in DOMAIN q /\ q[i] = m
      BY <1>1, <2>2
    <3>2. QED
      BY <3>1 DEF InQueue
  <2>3. QED
    BY <2>1, <2>2
<1>2. ASSUME NEW i \in DOMAIN q, q[i] = m
      PROVE  InQueue(Append(q, x), m)
  <2>1. i \in DOMAIN Append(q, x) /\ Append(q, x)[i] = m
    BY <1>2
  <2>2. QED
    BY <2>1 DEF InQueue
<1>3. x = m => InQueue(Append(q, x), m)
  <2>1. Len(q) + 1 \in DOMAIN Append(q, x) /\ Append(q, x)[Len(q) + 1] = x
    OBVIOUS
  <2>2. QED
    BY <2>1 DEF InQueue
<1>4. QED
  BY <1>1, <1>2, <1>3 DEF InQueue

(* Taking the head off a queue adds nothing. *)
LEMMA InQueueTail ==
  ASSUME NEW S, NEW q \in Seq(S), q # <<>>, NEW m
  PROVE  InQueue(Tail(q), m) => InQueue(q, m)
<1> SUFFICES ASSUME NEW i \in DOMAIN Tail(q), Tail(q)[i] = m
             PROVE  InQueue(q, m)
  BY DEF InQueue
<1>1. i + 1 \in DOMAIN q /\ q[i + 1] = m
  OBVIOUS
<1>2. QED
  BY <1>1 DEF InQueue

(* A message held at most once by a queue is gone once it was its head. *)
LEMMA UniqueTail ==
  ASSUME NEW S, NEW q \in Seq(S), q # <<>>, NEW m,
         \A i, j \in DOMAIN q : q[i] = m /\ q[j] = m => i = j
  PROVE  /\ \A i, j \in DOMAIN Tail(q) : Tail(q)[i] = m /\ Tail(q)[j] = m => i = j
         /\ Head(q) = m => ~InQueue(Tail(q), m)
<1>1. \A i, j \in DOMAIN Tail(q) : Tail(q)[i] = m /\ Tail(q)[j] = m => i = j
  <2> SUFFICES ASSUME NEW i \in DOMAIN Tail(q), NEW j \in DOMAIN Tail(q),
                      Tail(q)[i] = m, Tail(q)[j] = m
               PROVE  i = j
    OBVIOUS
  <2>1. i + 1 \in DOMAIN q /\ j + 1 \in DOMAIN q /\ q[i + 1] = m /\ q[j + 1] = m
    OBVIOUS
  <2>2. QED
    BY <2>1
<1>2. Head(q) = m => ~InQueue(Tail(q), m)
  <2> SUFFICES ASSUME Head(q) = m, NEW i \in DOMAIN Tail(q), Tail(q)[i] = m
               PROVE  FALSE
    BY DEF InQueue
  <2>1. 1 \in DOMAIN q /\ i + 1 \in DOMAIN q /\ q[1] = m /\ q[i + 1] = m
    OBVIOUS
  <2>2. QED
    BY <2>1
<1>3. QED
  BY <1>1, <1>2

(* Appending anything but m keeps m unique. *)
LEMMA UniqueAppend ==
  ASSUME NEW S, NEW q \in Seq(S), NEW x \in S, NEW m,
         \A i, j \in DOMAIN q : q[i] = m /\ q[j] = m => i = j,
         x # m \/ ~InQueue(q, m)
  PROVE  \A i, j \in DOMAIN Append(q, x) :
           Append(q, x)[i] = m /\ Append(q, x)[j] = m => i = j
  BY DEF InQueue

(* Initially no message is queued and the counter is untouched. *)
LEMMA InitIInv == Init => IInv
<1> SUFFICES ASSUME Init PROVE IInv
  OBVIOUS
<1>1. toP = <<>> /\ toA = <<>> /\ toP \in Seq(Msgs) /\ toA \in Seq(Msgs)
  BY DEF Init
<1>2. \A m : ~InQueue(toP, m) /\ ~InQueue(toA, m)
  BY <1>1 DEF InQueue
<1>3. \A i, j \in DOMAIN toP : toP[i] = "invite" /\ toP[j] = "invite" => i = j
  BY <1>1
<1>4. pSt \in {Raw, Initialized, TransportReady, Connecting, Connected, Failed}
  BY DEF Init
<1>5. pCnt = 0 /\ pTmpC = 0 /\ pTmpI = 0 /\ pStartEarly = FALSE
  BY DEF Init
<1>9. pCnt \in Int /\ pTmpC \in Int /\ pTmpI \in Int
  BY <1>5
<1>10. pStartEarly \in BOOLEAN
  BY <1>5, Zenon
<1>6. pCpc = "idle" /\ pIpc = "idle" /\ pSt = Raw /\ aReq = "none" /\ ~pStartEarly
  BY DEF Init
<1>7. pSt # Initialized
  BY <1>6 DEF Raw, Initialized
<1>8. QED
  BY <1>1, <1>2, <1>3, <1>4, <1>6, <1>7, <1>9, <1>10 DEF IInv

(***************************************************************************)
(* Every step keeps the inductive invariant.  The steps that touch        *)
(* neither P's counter and stream nor the queues, the invite or A's       *)
(* request are taken together.                                            *)
(***************************************************************************)
LEMMA NextIInv == IInv /\ [Next]_vars => IInv'
<1> SUFFICES ASSUME IInv, [Next]_vars PROVE IInv'
  OBVIOUS
<1> USE DEF IInv, Raw, Initialized, TransportReady, Connecting, Connected,
        Failed
<1>0. /\ \A m : InQueue(toP, m) => InQueue(toP, m)
      /\ "invite" \in Msgs /\ "invite_reply" \in Msgs /\ "request" \in Msgs
      /\ "reply" \in Msgs /\ "len" \in Msgs /\ "md5" \in Msgs
  BY DEF Msgs
<1>1. ASSUME UNCHANGED <<pSt, toP, toA, pCnt, pTmpC, pTmpI, pCpc, pIpc,
                         pStartEarly, invited, aReq>>
      PROVE  IInv'
  BY <1>1 DEF InQueue
<1>2. CASE a_friend_online
  <2>1. /\ ~invited /\ invited' = TRUE /\ toP' = Append(toP, "invite")
        /\ UNCHANGED <<pSt, toA, pCnt, pTmpC, pTmpI, pCpc, pIpc, pStartEarly, aReq>>
    BY <1>2 DEF a_friend_online, pVars
  <2>2. pSt = Raw /\ ~InQueue(toP, "invite")
    BY <2>1
  <2>3. \A m : InQueue(toP', m) <=> InQueue(toP, m) \/ m = "invite"
    BY <1>0, <2>1, InQueueAppend
  <2>4. \A i, j \in DOMAIN toP' : toP'[i] = "invite" /\ toP'[j] = "invite" => i = j
    BY <1>0, <2>1, <2>2, UniqueAppend
  <2>5. toP' \in Seq(Msgs)
    BY <1>0, <2>1
  <2>6. QED
    BY <2>1, <2>2, <2>3, <2>4, <2>5
<1>3. CASE a_invite_response
  <2>1. /\ Receive(toA, "invite_reply") /\ toA' = Tail(toA) /\ aReq' = "pending"
        /\ UNCHANGED <<pSt, toP, pCnt, pTmpC, pTmpI, pCpc, pIpc, pStartEarly, invited>>
    BY <1>3 DEF a_invite_response, pVars
  <2>2. pSt # Raw
    <3>1. InQueue(toA, "invite_reply")
      BY <2>1 DEF Receive, InQueue
    <3>2. QED
      BY <3>1
  <2>3. \A m : InQueue(toA', m) => InQueue(toA, m)
    BY <2>1, InQueueTail DEF Receive
  <2>4. toA' \in Seq(Msgs)
    BY <2>1 DEF Receive
  <2>5. QED
    BY <2>1, <2>2, <2>3, <2>4
<1>4. ASSUME NEW m0, Receive(toA, m0), toA' = Tail(toA),
             UNCHANGED <<pSt, toP, pCnt, pTmpC, pTmpI, pCpc, pIpc, pStartEarly,
                         invited, aReq>>
      PROVE  IInv'
  <2>1. \A m : InQueue(toA', m) => InQueue(toA, m)
    BY <1>4, InQueueTail DEF Receive
  <2>2. toA' \in Seq(Msgs)
    BY <1>4 DEF Receive
  <2>3. QED
    BY <1>4, <2>1, <2>2
<1>5. ASSUME NEW x \in Msgs, x # "invite", x # "request",
             toP' = Append(toP, x),
             UNCHANGED <<pSt, toA, pCnt, pTmpC, pTmpI, pCpc, pIpc, pStartEarly,
                         invited, aReq>>
      PROVE  IInv'
  <2>1. \A m : InQueue(toP', m) <=> InQueue(toP, m) \/ m = x
    BY <1>5, InQueueAppend
  <2>2. \A i, j \in DOMAIN toP' : toP'[i] = "invite" /\ toP'[j] = "invite" => i = j
    BY <1>0, <1>5, UniqueAppend
  <2>3. toP' \in Seq(Msgs)
    BY <1>5
  <2>4. QED
    BY <1>5, <2>1, <2>2, <2>3
<1>6. ASSUME NEW x \in Msgs, x # "invite_reply", toA' = Append(toA, x),
             UNCHANGED <<pSt, toP, pCnt, pTmpC, pTmpI, pCpc, pIpc, pStartEarly,
                         invited, aReq>>
      PROVE  IInv'
  <2>1. \A m : InQueue(toA', m) <=> InQueue(toA, m) \/ m = x
    BY <1>6, InQueueAppend
  <2>2. toA' \in Seq(Msgs)
    BY <1>6
  <2>3. QED
    BY <1>6, <2>1, <2>2
<1>7. ASSUME NEW m0, Receive(toP, m0), m0 # "invite", toP' = Tail(toP),
             UNCHANGED <<pSt, toA, pCnt, pTmpC, pTmpI, pIpc, pStartEarly,
                         invited, aReq>>,
             pCpc = "idle", pCpc' \in {"idle", "wait"},
             m0 = "request" \/ pCpc' = "idle"
      PROVE  IInv'
  <2>1. \A m : InQueue(toP', m) => InQueue(toP, m)
    BY <1>7, InQueueTail DEF Receive
  <2>2. /\ \A i, j \in DOMAIN toP' : toP'[i] = "invite" /\ toP'[j] = "invite" => i = j
        /\ toP' \in Seq(Msgs)
    BY <1>7, UniqueTail DEF Receive
  <2>3. pCpc' # "idle" => pSt # Raw
    BY <1>7 DEF Receive, InQueue
  <2>4. QED
    BY <1>7, <2>1, <2>2, <2>3
<1>8. ASSUME pSt # Raw, pIpc = "idle",
             pSt' \in {TransportReady, Connecting, Connected, Failed},
             UNCHANGED <<toP, toA, pCnt, pTmpC, pTmpI, pCpc, pIpc, pStartEarly,
                         invited, aReq>>
      PROVE  IInv'
  BY <1>8 DEF InQueue
<1>9. CASE a_request_complete
  <2>1. /\ Receive(toA, "reply") /\ toA' = Tail(toA)
        /\ UNCHANGED <<pSt, toP, pCnt, pTmpC, pTmpI, pCpc, pIpc, pStartEarly,
                       invited, aReq>>
    BY <1>9 DEF a_request_complete, pVars
  <2>2. QED
    BY <2>1, <1>4
<1>10. CASE a_message
  <2>1. /\ Receive(toA, "md5") /\ toA' = Tail(toA)
        /\ UNCHANGED <<pSt, toP, pCnt, pTmpC, pTmpI, pCpc, pIpc, pStartEarly,
                       invited, aReq>>
    BY <1>10 DEF a_message, pVars
  <2>2. QED
    BY <2>1, <1>4
<1>11. CASE a_stream_connected
  <2>1. /\ toP' = Append(toP, "len")
        /\ UNCHANGED <<pSt, toA, pCnt, pTmpC, pTmpI, pCpc, pIpc, pStartEarly,
                       invited, aReq>>
    BY <1>11 DEF a_stream_connected, pVars
  <2>2. QED
    BY <2>1, <1>0, <1>5
<1>12. CASE a_offer_sent
  <2>1. /\ aReq = "pending" /\ aReq' = "sent" /\ toP' = Append(toP, "request")
        /\ UNCHANGED <<pSt, toA, pCnt, pTmpC, pTmpI, pCpc, pIpc, pStartEarly,
                       invited>>
    BY <1>12 DEF a_offer_sent, pVars
  <2>2. pSt # Raw /\ invited
    BY <2>1
  <2>3. \A m : InQueue(toP', m) <=> InQueue(toP, m) \/ m = "request"
    BY <1>0, <2>1, InQueueAppend
  <2>4. \A i, j \in DOMAIN toP' : toP'[i] = "invite" /\ toP'[j] = "invite" => i = j
    BY <1>0, <2>1, UniqueAppend
  <2>5. toP' \in Seq(Msgs)
    BY <1>0, <2>1
  <2>6. QED
    BY <2>1, <2>2, <2>3, <2>4, <2>5
<1>13. CASE p_invite_request
  <2>1. /\ Receive(toP, "invite") /\ toP' = Tail(toP) /\ pCnt' = 0
        /\ pSt' = Initialized /\ toA' = Append(toA, "invite_reply")
        /\ pCpc' = "inc_load"
        /\ UNCHANGED <<pTmpC, pTmpI, pIpc, pStartEarly, invited, aReq>>
    BY <1>13 DEF p_invite_request, aVars
  <2>2. InQueue(toP, "invite")
    BY <2>1 DEF Receive, InQueue
  <2>3. pSt = Raw /\ invited /\ pIpc = "idle"
    BY <2>2
  <2>4. /\ \A i, j \in DOMAIN toP' : toP'[i] = "invite" /\ toP'[j] = "invite" => i = j
        /\ ~InQueue(toP', "invite")
        /\ toP' \in Seq(Msgs)
    BY <2>1, UniqueTail DEF Receive
  <2>5. toA' \in Seq(Msgs)
    BY <1>0, <2>1
  <2>6. QED
    BY <2>1, <2>3, <2>4, <2>5
<1>14. CASE p_inc_load
  <2>1. /\ pCpc = "inc_load" /\ pTmpC' = pCnt /\ pCpc' = "inc_store"
        /\ UNCHANGED <<pSt, toP, toA, pCnt, pTmpI, pIpc, pStartEarly, invited, aReq>>
    BY <1>14 DEF p_inc_load, aVars
  <2>2. QED
    BY <2>1 DEF InQueue
<1>15. CASE p_inc_store
  <2>1. /\ pCpc = "inc_store" /\ pCnt' = pTmpC + 1 /\ pCpc' = "idle"
        /\ UNCHANGED <<pSt, toP, toA, pTmpC, pTmpI, pIpc, pStartEarly, invited, aReq>>
    BY <1>15 DEF p_inc_store, aVars
  <2>2. QED
    BY <2>1 DEF InQueue
<1>16. CASE p_session_request
  <2>1. /\ Receive(toP, "request") /\ toP' = Tail(toP)
        /\ pCpc = "idle" /\ pCpc' = "wait"
        /\ UNCHANGED <<pSt, toA, pCnt, pTmpC, pTmpI, pIpc, pStartEarly, invited, aReq>>
    BY <1>16 DEF p_session_request, aVars
  <2>2. QED
    BY <2>1, <1>7
<1>17. CASE p_message
  <2>1. /\ Receive(toP, "len") /\ toP' = Tail(toP)
        /\ pCpc = "idle"
        /\ UNCHANGED <<pSt, toA, pCnt, pTmpC, pTmpI, pCpc, pIpc, pStartEarly,
                       invited, aReq>>
    BY <1>17 DEF p_message, aVars
  <2>2. QED
    BY <2>1, <1>7
<1>18. CASE p_reply_start
  <2>1. /\ pCpc = "wait" /\ pCnt <= 0 /\ pCpc' = "idle"
        /\ pStartEarly' = (pStartEarly \/ pSt < TransportReady)
        /\ UNCHANGED <<pSt, toP, toA, pCnt, pTmpC, pTmpI, pIpc, invited, aReq>>
    BY <1>18 DEF p_reply_start, aVars
  <2>2. ~(pSt < TransportReady)
    BY <2>1
  <2>3. pStartEarly' = FALSE
    BY <2>1, <2>2, Zenon
  <2>4. QED
    BY <2>1, <2>3 DEF InQueue
<1>19. CASE p_answer_sent
  <2>1. /\ toA' = Append(toA, "reply")
        /\ UNCHANGED <<pSt, toP, pCnt, pTmpC, pTmpI, pCpc, pIpc, pStartEarly,
                       invited, aReq>>
    BY <1>19 DEF p_answer_sent, aVars
  <2>2. QED
    BY <2>1, <1>0, <1>6
<1>20. CASE p_transport_ready
  <2>1. /\ pIpc = "idle" /\ pSt = Initialized /\ pSt' = TransportReady
        /\ pTmpI' = pCnt /\ pIpc' = "dec_store"
        /\ UNCHANGED <<toP, toA, pCnt, pTmpC, pCpc, pStartEarly, invited, aReq>>
    BY <1>20 DEF p_transport_ready, aVars
  <2>2. QED
    BY <2>1 DEF InQueue
<1>21. CASE p_dec_store
  <2>1. /\ pIpc = "dec_store" /\ pCnt' = pTmpI - 1 /\ pIpc' = "idle"
        /\ UNCHANGED <<pSt, toP, toA, pTmpC, pTmpI, pCpc, pStartEarly, invited, aReq>>
    BY <1>21 DEF p_dec_store, aVars
  <2>2. QED
    BY <2>1 DEF InQueue
<1>22. CASE p_on_data
  <2>1. /\ toA' = Append(toA, "md5") \/ toA' = toA
        /\ UNCHANGED <<pSt, toP, pCnt, pTmpC, pTmpI, pCpc, pIpc, pStartEarly,
                       invited, aReq>>
    BY <1>22 DEF p_on_data, aVars
  <2>2. QED
    BY <2>1, <1>0, <1>1, <1>6
<1>23. CASE p_connecting \/ p_connected \/ p_failed
  <2>1. /\ pSt # Raw /\ pIpc = "idle"
        /\ pSt' \in {TransportReady, Connecting, Connected, Failed}
        /\ UNCHANGED <<toP, toA, pCnt, pTmpC, pTmpI, pCpc, pIpc, pStartEarly,
                       invited, aReq>>
    BY <1>23 DEF p_connecting, p_connected, p_failed, aVars
  <2>2. QED
    BY <2>1, <1>8
<1>24. CASE \/ a_write \/ a_join_return \/ a_flush \/ a_transport_ready
            \/ a_connecting \/ a_failed \/ UNCHANGED vars
  <2>1. UNCHANGED <<pSt, toP, toA, pCnt, pTmpC, pTmpI, pCpc, pIpc,
                    pStartEarly, invited, aReq>>
    BY <1>24 DEF a_write, a_join_return, a_flush, a_transport_ready,
                 a_connecting, a_failed, vars, pVars
  <2>2. QED
    BY <2>1, <1>1
<1>25. QED
  BY <1>2, <1>3, <1>9, <1>10, <1>11, <1>12, <1>13, <1>14, <1>15, <1>16,
     <1>17, <1>18, <1>19, <1>20, <1>21, <1>22, <1>23, <1>24
  DEF Next, Progress

(***************************************************************************)
(* IInv holds in every reachable state, for every file length and window. *)
(***************************************************************************)
THEOREM IInvInvariant == Spec => []IInv
<1>1. Init => IInv
  BY InitIInv
<1>2. IInv /\ [Next]_vars => IInv'
  BY NextIInv
<1>3. QED
  BY <1>1, <1>2, PTL DEF Spec

(***************************************************************************)
(* P never calls IOEX_session_start in session_reply_request before its   *)
(* stream reached transport_ready, whatever the interleaving of the       *)
(* unlocked unchanged_streams++ (carrier thread) and -- (ICE thread).     *)
(***************************************************************************)
THEOREM StartAfterTransportReadyInvariant == Spec => []StartAfterTransportReady
<1>1. IInv => StartAfterTransportReady
  BY DEF IInv, StartAfterTransportReady
<1>2. QED
  BY <1>1, IInvInvariant, PTL

-----------------------------------------------------------------------------
(***************************************************************************)
(* The invariant behind ChecksumOnFullFile: g_data_len is 0 or the file's *)
(* length, and the byte count stops once the checksum is sent.  The test  *)
(* bytes == g_data_len cannot fire while g_data_len is 0, because a       *)
(* packet has been counted by then.                                       *)
(***************************************************************************)
CInv ==
  /\ pDataLen \in {0, FileLen}
  /\ pBytes \in Nat
  /\ pDone \in BOOLEAN
  /\ pDone => pBytes = FileLen

(* Initially nothing is received. *)
LEMMA InitCInv == Init => CInv
<1> SUFFICES ASSUME Init PROVE CInv
  OBVIOUS
<1>1. pDataLen = 0 /\ pBytes = 0 /\ pDone = FALSE
  BY DEF Init
<1>2. QED
  BY <1>1 DEF CInv

(* Every step keeps CInv: only the receive path touches its variables. *)
LEMMA NextCInv == CInv /\ [Next]_vars => CInv'
<1> SUFFICES ASSUME CInv, [Next]_vars PROVE CInv'
  OBVIOUS
<1>1. CASE p_session_request
  BY <1>1 DEF p_session_request, CInv
<1>2. CASE p_message
  BY <1>2 DEF p_message, CInv
<1>3. CASE p_on_data
  <2>1. /\ ~pDone /\ pIpc = "idle" /\ pSt = Connected /\ wire > 0
        /\ UNCHANGED pDataLen
    BY <1>3 DEF p_on_data
  <2>2. CASE pBulk /\ pBytes + 1 = pDataLen
    <3>1. pBytes' = pBytes + 1 /\ pDone' = TRUE
      BY <1>3, <2>2 DEF p_on_data
    <3>2. pDataLen = FileLen
      <4>1. pDataLen \in {0, FileLen} /\ pBytes \in Nat
        BY DEF CInv
      <4>2. pBytes + 1 = pDataLen
        BY <2>2
      <4>3. QED
        BY <4>1, <4>2
    <3>3. pDataLen' \in {0, FileLen} /\ pBytes' \in Nat /\ pBytes' = FileLen
      BY <2>1, <2>2, <3>1, <3>2 DEF CInv
    <3>4. pDone' \in BOOLEAN
      BY <3>1
    <3>5. QED
      BY <3>3, <3>4, Zenon DEF CInv
  <2>3. CASE pBulk /\ pBytes + 1 # pDataLen
    <3>1. pBytes' = pBytes + 1 /\ pDone' = pDone
      BY <1>3, <2>3 DEF p_on_data
    <3>2. QED
      BY <2>1, <3>1 DEF CInv
  <2>4. CASE ~pBulk
    <3>1. UNCHANGED <<pBytes, pDone>>
      BY <1>3, <2>4 DEF p_on_data
    <3>2. QED
      BY <2>1, <3>1 DEF CInv
  <2>5. QED
    BY <2>2, <2>3, <2>4
<1>4. CASE ~p_session_request /\ ~p_message /\ ~p_on_data
  <2>1. UNCHANGED <<pDataLen, pBytes, pDone>>
    BY <1>4 DEF Next, Progress, vars, pVars,
       a_friend_online, a_invite_response, a_request_complete, a_message,
       a_stream_connected, a_write, a_join_return, a_flush, a_offer_sent,
       p_invite_request, p_inc_load, p_inc_store, p_reply_start,
       p_answer_sent, p_transport_ready, p_dec_store,
       a_transport_ready, a_connecting, p_connecting, p_connected,
       a_failed, p_failed
  <2>2. QED
    BY <2>1 DEF CInv
<1>5. QED
  BY <1>1, <1>2, <1>3, <1>4

(***************************************************************************)
(* For every file length and window, P sends its checksum (and exits)     *)
(* only once stream_on_data has counted the whole file, however the       *)
(* length message and the data race each other.                          *)
(***************************************************************************)
THEOREM ChecksumOnFullFileInvariant == Spec => []ChecksumOnFullFile
<1>1. CInv => ChecksumOnFullFile
  BY DEF CInv, ChecksumOnFullFile
<1>2. QED
  BY <1>1, InitCInv, NextCInv, PTL DEF Spec

=============================================================================
