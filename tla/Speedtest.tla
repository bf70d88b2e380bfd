----------------------------- MODULE Speedtest -----------------------------
(***************************************************************************)
(* The speedtest application (src/apps/speedtest/speedtest.c): an active  *)
(* peer A sends a file over a reliable stream to a passive peer P, which  *)
(* answers with the file's checksum by friend message.                    *)
(*                                                                         *)
(* Each peer has a carrier thread (friend messages and invites, session   *)
(* request and request-complete callbacks) and an ICE worker thread       *)
(* (stream state and data callbacks).  A's connected callback starts a    *)
(* bulk-write thread and joins it, so A's worker is blocked meanwhile.    *)
(* P's global unchanged_streams is incremented on the carrier thread and  *)
(* decremented on the ICE thread without a lock: both are split into a    *)
(* load and a store.  Friend messages travel in order on the overlay,     *)
(* independently of the stream's data.                                    *)
(*                                                                         *)
(* The session library (not in this repository) is taken from the         *)
(* specification: initialized is emitted inside add_stream, the offer and *)
(* the answer carry the local SDP and so leave once the stream is         *)
(* transport_ready (4.3), a write from another thread is queued for the   *)
(* worker and BUSY while the window is full (4.3, 4.4).                   *)
(***************************************************************************)
EXTENDS Integers, Sequences

CONSTANTS
  FileLen,   \* packets in the transferred file (stat().st_size)
  Window     \* packets the stream accepts before write returns BUSY

ASSUME FileLenAssumption == FileLen \in Nat \ {0}
ASSUME WindowAssumption == Window \in Nat \ {0}

VARIABLES
  aSt, pSt,          \* state of A's and P's stream
  aStarted, pStarted,\* IOEX_session_start succeeded on the side
  aReq,              \* A's session request: "none", "pending", "sent"
  pReply,            \* P's session reply: "none", "pending", "sent"
  invited,           \* A has invited P
  toP, toA,          \* friend messages and invites in flight, in order
  pCnt,              \* P's session_ctx.unchanged_streams
  pTmpC, pTmpI,      \* the value P's carrier / ICE thread loaded from it
  pCpc, pIpc,        \* where P's carrier / ICE thread is
  pBulk, pBytes,     \* P's session_ctx.bulk_mode and bytes (in packets)
  pDataLen,          \* P's g_data_len (in packets)
  pStartEarly,       \* P called session_start before transport_ready
  pDone,             \* P sent its checksum and exited
  aIpc,              \* A's ICE thread: "idle" or "join" (in the callback)
  writer,            \* A's bulk-write thread: "none", "run", "done", "failed"
  aRead,             \* packets the writer has read from the file
  aWritten,          \* packets IOEX_stream_write accepted
  queued,            \* written packets waiting in A's worker queue
  wire,              \* packets sent by A's worker, not yet delivered
  aDone              \* A compared the checksums and exited

vars == <<aSt, pSt, aStarted, pStarted, aReq, pReply, invited, toP, toA,
          pCnt, pTmpC, pTmpI, pCpc, pIpc, pBulk, pBytes, pDataLen,
          pStartEarly, pDone, aIpc, writer, aRead, aWritten, queued, wire, aDone>>

(* IOEXStreamState *)
Raw == 0
Initialized == 1
TransportReady == 2
Connecting == 3
Connected == 4
Failed == 7

Msgs == {"invite", "invite_reply", "request", "reply", "len", "md5"}

aVars == <<aSt, aStarted, aReq, invited, aIpc, writer, aRead, aWritten, queued,
           aDone>>
pVars == <<pSt, pStarted, pReply, pCnt, pTmpC, pTmpI, pCpc, pIpc, pBulk,
           pBytes, pDataLen, pStartEarly, pDone>>

(* The carrier thread of a peer takes the next friend message or invite. *)
Receive(q, m) == q # <<>> /\ Head(q) = m

-----------------------------------------------------------------------------
(* A: the server peer comes online; friend_connection_callback invites it. *)
a_friend_online ==
  /\ ~invited /\ ~aDone
  /\ invited' = TRUE
  /\ toP' = Append(toP, "invite")
  /\ UNCHANGED <<aSt, aStarted, aReq, aIpc, writer, aRead, aWritten, queued, aDone,
                 pVars, toA, wire>>

(***************************************************************************)
(* A: invite_response_callback with status 0: session_init, session_new,  *)
(* stream_add; the initialized callback inside add_stream calls           *)
(* session_request.                                                        *)
(***************************************************************************)
a_invite_response ==
  /\ ~aDone /\ Receive(toA, "invite_reply")
  /\ toA' = Tail(toA)
  /\ aSt' = Initialized
  /\ aReq' = "pending"
  /\ UNCHANGED <<aStarted, invited, aIpc, writer, aRead, aWritten, queued, aDone,
                 pVars, toP, wire>>

(* A: session_request_complete_callback: session_start with P's SDP. *)
a_request_complete ==
  /\ ~aDone /\ Receive(toA, "reply")
  /\ toA' = Tail(toA)
  /\ aStarted' = (aSt = TransportReady)
  /\ UNCHANGED <<aSt, aReq, invited, aIpc, writer, aRead, aWritten, queued, aDone,
                 pVars, toP, wire>>

(* A: message_callback: P's checksum arrives; compare and exit(0). *)
a_message ==
  /\ ~aDone /\ Receive(toA, "md5")
  /\ toA' = Tail(toA)
  /\ aDone' = TRUE
  /\ UNCHANGED <<aSt, aStarted, aReq, invited, aIpc, writer, aRead, aWritten,
                 queued, pVars, toP, wire>>

(***************************************************************************)
(* A's worker reports connected; stream_on_state_changed sends the file   *)
(* length by friend message and runs stream_bulk_write.  That creates the *)
(* writer thread DETACHED and then joins it, which is undefined: glibc    *)
(* returns EINVAL at once, or the join waits for the writer.              *)
(***************************************************************************)
a_stream_connected ==
  /\ ~aDone /\ aIpc = "idle"
  /\ aSt = Connecting /\ pSt \in {Connecting, Connected}
  /\ aSt' = Connected
  /\ toP' = Append(toP, "len")
  /\ aIpc' \in {"idle", "join"}
  /\ writer' = "run"
  /\ UNCHANGED <<aStarted, aReq, invited, aRead, aWritten, queued, aDone,
                 pVars, toA, wire>>

(* Mutant: a writer that retries a packet on BUSY instead of skipping it. *)
a_write_retry_busy ==
  /\ writer = "run" /\ ~aDone
  /\ \/ /\ aRead = FileLen
        /\ writer' = "done"
        /\ UNCHANGED <<aRead, aWritten, queued>>
     \/ /\ aRead < FileLen /\ aSt # Connected
        /\ writer' = "failed"
        /\ aRead' = aRead + 1
        /\ UNCHANGED <<aWritten, queued>>
     \/ /\ aRead < FileLen /\ aSt = Connected /\ queued < Window
        /\ aRead' = aRead + 1
        /\ aWritten' = aWritten + 1
        /\ queued' = queued + 1
        /\ UNCHANGED writer
  /\ UNCHANGED <<aSt, aStarted, aReq, invited, aIpc, aDone, pVars, toP, toA,
                 wire>>

(***************************************************************************)
(* bulk_write_thread, one turn of its loop: read() the next packet (0 at  *)
(* the end of the file ends the loop and prints Finish), then             *)
(* IOEX_stream_write it.  A stream that is no longer connected fails the  *)
(* write for good and the thread returns.  BUSY (window full) sleeps and  *)
(* continues, and the next read() overwrites the packet: it is skipped.   *)
(***************************************************************************)
a_write ==
  /\ writer = "run" /\ ~aDone
  /\ \/ /\ aRead = FileLen
        /\ writer' = "done"
        /\ UNCHANGED <<aRead, aWritten, queued>>
     \/ /\ aRead < FileLen /\ aSt # Connected
        /\ writer' = "failed"
        /\ aRead' = aRead + 1
        /\ UNCHANGED <<aWritten, queued>>
     \/ /\ aRead < FileLen /\ aSt = Connected /\ queued < Window
        /\ aRead' = aRead + 1
        /\ aWritten' = aWritten + 1
        /\ queued' = queued + 1
        /\ UNCHANGED writer
     \/ /\ aRead < FileLen /\ aSt = Connected /\ queued = Window
        /\ aRead' = aRead + 1
        /\ UNCHANGED <<writer, aWritten, queued>>
  /\ UNCHANGED <<aSt, aStarted, aReq, invited, aIpc, aDone, pVars, toP, toA,
                 wire>>

(* pthread_join returns; the connected callback ends. *)
a_join_return ==
  /\ aIpc = "join" /\ writer \in {"done", "failed"} /\ ~aDone
  /\ aIpc' = "idle"
  /\ UNCHANGED <<aSt, aStarted, aReq, invited, writer, aRead, aWritten,
                 queued, aDone, pVars, toP, toA, wire>>

(* A's worker, between callbacks, sends a queued packet. *)
a_flush ==
  /\ aIpc = "idle" /\ queued > 0 /\ ~aDone
  /\ queued' = queued - 1
  /\ wire' = wire + 1
  /\ UNCHANGED <<aSt, aStarted, aReq, invited, aIpc, writer, aRead, aWritten, aDone,
                 pVars, toP, toA>>

(* The library sends A's offer once its local SDP exists. *)
a_offer_sent ==
  /\ aReq = "pending" /\ aSt = TransportReady /\ ~aDone
  /\ aReq' = "sent"
  /\ toP' = Append(toP, "request")
  /\ UNCHANGED <<aSt, aStarted, invited, aIpc, writer, aRead, aWritten, queued,
                 aDone, pVars, toA, wire>>

-----------------------------------------------------------------------------
(***************************************************************************)
(* P: invite_request_callback: session_init, session_new (which sets      *)
(* unchanged_streams = 0), stream_add; inside add_stream the initialized  *)
(* callback confirms the invite (reply_invite).  After add_stream returns *)
(* stream_add will increment unchanged_streams.                           *)
(***************************************************************************)
p_invite_request ==
  /\ ~pDone /\ pCpc = "idle" /\ Receive(toP, "invite")
  /\ toP' = Tail(toP)
  /\ pCnt' = 0
  /\ pSt' = Initialized
  /\ toA' = Append(toA, "invite_reply")
  /\ pCpc' = "inc_load"
  /\ UNCHANGED <<pStarted, pReply, pTmpC, pTmpI, pIpc, pBulk, pBytes,
                 pDataLen, pStartEarly, pDone, aVars, wire>>

(* P: session_ctx.unchanged_streams++, its load ... *)
p_inc_load ==
  /\ pCpc = "inc_load" /\ ~pDone
  /\ pTmpC' = pCnt
  /\ pCpc' = "inc_store"
  /\ UNCHANGED <<pSt, pStarted, pReply, pCnt, pTmpI, pIpc, pBulk, pBytes,
                 pDataLen, pStartEarly, pDone, aVars, toP, toA, wire>>

(* ... and its store. *)
p_inc_store ==
  /\ pCpc = "inc_store" /\ ~pDone
  /\ pCnt' = pTmpC + 1
  /\ pCpc' = "idle"
  /\ UNCHANGED <<pSt, pStarted, pReply, pTmpC, pTmpI, pIpc, pBulk, pBytes,
                 pDataLen, pStartEarly, pDone, aVars, toP, toA, wire>>

(***************************************************************************)
(* P: session_request_callback: keep A's SDP, stream_bulk_receive start,  *)
(* then session_reply_request ok: IOEX_session_reply_request and the      *)
(* busy-wait while unchanged_streams > 0.                                 *)
(***************************************************************************)
p_session_request ==
  /\ ~pDone /\ pCpc = "idle" /\ Receive(toP, "request")
  /\ toP' = Tail(toP)
  /\ pBulk' = TRUE
  /\ pBytes' = 0
  /\ pReply' = "pending"
  /\ pCpc' = "wait"
  /\ UNCHANGED <<pSt, pStarted, pCnt, pTmpC, pTmpI, pIpc, pDataLen,
                 pStartEarly, pDone, toA, aVars, wire>>

(* Mutant: the busy-wait stops one stream early. *)
p_reply_start_off_by_one ==
  /\ pCpc = "wait" /\ pCnt <= 1 /\ ~pDone
  /\ pStarted' = (pSt = TransportReady)
  /\ pStartEarly' = (pStartEarly \/ pSt < TransportReady)
  /\ pCpc' = "idle"
  /\ UNCHANGED <<pSt, pReply, pCnt, pTmpC, pTmpI, pIpc, pBulk, pBytes,
                 pDataLen, pDone, aVars, toP, toA, wire>>

(* P: the busy-wait ends; IOEX_session_start with A's SDP. *)
p_reply_start ==
  /\ pCpc = "wait" /\ pCnt <= 0 /\ ~pDone
  /\ pStarted' = (pSt = TransportReady)
  /\ pStartEarly' = (pStartEarly \/ pSt < TransportReady)
  /\ pCpc' = "idle"
  /\ UNCHANGED <<pSt, pReply, pCnt, pTmpC, pTmpI, pIpc, pBulk, pBytes,
                 pDataLen, pDone, aVars, toP, toA, wire>>

(* P: message_callback in passive mode: g_data_len = atoi(msg). *)
p_message ==
  /\ ~pDone /\ pCpc = "idle" /\ Receive(toP, "len")
  /\ toP' = Tail(toP)
  /\ pDataLen' = FileLen
  /\ UNCHANGED <<pSt, pStarted, pReply, pCnt, pTmpC, pTmpI, pCpc, pIpc,
                 pBulk, pBytes, pStartEarly, pDone, aVars, toA, wire>>

(* The library sends P's answer once its local SDP exists. *)
p_answer_sent ==
  /\ pReply = "pending" /\ pSt = TransportReady /\ ~pDone
  /\ pReply' = "sent"
  /\ toA' = Append(toA, "reply")
  /\ UNCHANGED <<pSt, pStarted, pCnt, pTmpC, pTmpI, pCpc, pIpc, pBulk,
                 pBytes, pDataLen, pStartEarly, pDone, aVars, toP, wire>>

(***************************************************************************)
(* P's worker reports transport_ready; stream_on_state_changed decrements *)
(* unchanged_streams: the load here, the store in p_dec_store.            *)
(***************************************************************************)
p_transport_ready ==
  /\ ~pDone /\ pIpc = "idle" /\ pSt = Initialized
  /\ pSt' = TransportReady
  /\ pTmpI' = pCnt
  /\ pIpc' = "dec_store"
  /\ UNCHANGED <<pStarted, pReply, pCnt, pTmpC, pCpc, pBulk, pBytes,
                 pDataLen, pStartEarly, pDone, aVars, toP, toA, wire>>

p_dec_store ==
  /\ pIpc = "dec_store" /\ ~pDone
  /\ pCnt' = pTmpI - 1
  /\ pIpc' = "idle"
  /\ UNCHANGED <<pSt, pStarted, pReply, pTmpC, pTmpI, pCpc, pBulk, pBytes,
                 pDataLen, pStartEarly, pDone, aVars, toP, toA, wire>>

(* Mutant: the receiver finishes once bytes >= g_data_len. *)
p_on_data_at_least ==
  /\ ~pDone /\ pIpc = "idle" /\ pSt = Connected /\ wire > 0
  /\ wire' = wire - 1
  /\ IF pBulk
       THEN /\ pBytes' = pBytes + 1
            /\ IF pBytes + 1 >= pDataLen
                 THEN toA' = Append(toA, "md5") /\ pDone' = TRUE
                 ELSE UNCHANGED <<toA, pDone>>
       ELSE UNCHANGED <<pBytes, toA, pDone>>
  /\ UNCHANGED <<pSt, pStarted, pReply, pCnt, pTmpC, pTmpI, pCpc, pIpc,
                 pBulk, pDataLen, pStartEarly, aVars, toP>>

(***************************************************************************)
(* P: stream_on_data.  In bulk mode it counts the bytes; when they equal  *)
(* g_data_len it sends the checksum by friend message and exits.          *)
(***************************************************************************)
p_on_data ==
  /\ ~pDone /\ pIpc = "idle" /\ pSt = Connected /\ wire > 0
  /\ wire' = wire - 1
  /\ IF pBulk
       THEN /\ pBytes' = pBytes + 1
            /\ IF pBytes + 1 = pDataLen
                 THEN toA' = Append(toA, "md5") /\ pDone' = TRUE
                 ELSE UNCHANGED <<toA, pDone>>
       ELSE UNCHANGED <<pBytes, toA, pDone>>
  /\ UNCHANGED <<pSt, pStarted, pReply, pCnt, pTmpC, pTmpI, pCpc, pIpc,
                 pBulk, pDataLen, pStartEarly, aVars, toP>>

-----------------------------------------------------------------------------
(***************************************************************************)
(* The ICE workers move the streams on (spec 4.3): transport_ready once   *)
(* candidates are gathered, connecting after session_start, connected     *)
(* once both sides check; failed may end any live state.  The callbacks  *)
(* these run in the applications log only, except the ones above.         *)
(***************************************************************************)
a_transport_ready ==
  /\ ~aDone /\ aIpc = "idle" /\ aSt = Initialized
  /\ aSt' = TransportReady
  /\ UNCHANGED <<aStarted, aReq, invited, aIpc, writer, aRead, aWritten, queued,
                 aDone, pVars, toP, toA, wire>>

a_connecting ==
  /\ ~aDone /\ aIpc = "idle" /\ aSt = TransportReady /\ aStarted
  /\ aSt' = Connecting
  /\ UNCHANGED <<aStarted, aReq, invited, aIpc, writer, aRead, aWritten, queued,
                 aDone, pVars, toP, toA, wire>>

p_connecting ==
  /\ ~pDone /\ pIpc = "idle" /\ pSt = TransportReady /\ pStarted
  /\ pSt' = Connecting
  /\ UNCHANGED <<pStarted, pReply, pCnt, pTmpC, pTmpI, pCpc, pIpc, pBulk,
                 pBytes, pDataLen, pStartEarly, pDone, aVars, toP, toA, wire>>

p_connected ==
  /\ ~pDone /\ pIpc = "idle"
  /\ pSt = Connecting /\ aSt \in {Connecting, Connected}
  /\ pSt' = Connected
  /\ UNCHANGED <<pStarted, pReply, pCnt, pTmpC, pTmpI, pCpc, pIpc, pBulk,
                 pBytes, pDataLen, pStartEarly, pDone, aVars, toP, toA, wire>>

a_failed ==
  /\ ~aDone /\ aIpc = "idle" /\ aSt \in Initialized .. Connected
  /\ aSt' = Failed
  /\ UNCHANGED <<aStarted, aReq, invited, aIpc, writer, aRead, aWritten, queued,
                 aDone, pVars, toP, toA, wire>>

p_failed ==
  /\ ~pDone /\ pIpc = "idle" /\ pSt \in Initialized .. Connected
  /\ pSt' = Failed
  /\ UNCHANGED <<pStarted, pReply, pCnt, pTmpC, pTmpI, pCpc, pIpc, pBulk,
                 pBytes, pDataLen, pStartEarly, pDone, aVars, toP, toA, wire>>

-----------------------------------------------------------------------------
Init ==
  /\ aSt = Raw /\ pSt = Raw
  /\ aStarted = FALSE /\ pStarted = FALSE
  /\ aReq = "none" /\ pReply = "none"
  /\ invited = FALSE
  /\ toP = <<>> /\ toA = <<>>
  /\ pCnt = 0 /\ pTmpC = 0 /\ pTmpI = 0
  /\ pCpc = "idle" /\ pIpc = "idle"
  /\ pBulk = FALSE /\ pBytes = 0 /\ pDataLen = 0
  /\ pStartEarly = FALSE /\ pDone = FALSE
  /\ aIpc = "idle" /\ writer = "none"
  /\ aRead = 0 /\ aWritten = 0 /\ queued = 0 /\ wire = 0
  /\ aDone = FALSE

(* The steps the threads and the network take on their own. *)
Progress ==
  \/ a_friend_online \/ a_invite_response \/ a_request_complete
  \/ a_message \/ a_stream_connected \/ a_write \/ a_join_return
  \/ a_flush \/ a_offer_sent
  \/ p_invite_request \/ p_inc_load \/ p_inc_store \/ p_session_request
  \/ p_reply_start \/ p_message \/ p_answer_sent \/ p_transport_ready
  \/ p_dec_store \/ p_on_data
  \/ a_transport_ready \/ a_connecting \/ p_connecting \/ p_connected

Next == Progress \/ a_failed \/ p_failed

(***************************************************************************)
(* Every thread keeps running its callback and the overlay and the ICE    *)
(* workers keep delivering: weak fairness on each progress step.  ICE     *)
(* failure is not forced.                                                 *)
(***************************************************************************)
Fairness ==
  /\ WF_vars(a_friend_online) /\ WF_vars(a_invite_response)
  /\ WF_vars(a_request_complete) /\ WF_vars(a_message)
  /\ WF_vars(a_stream_connected) /\ WF_vars(a_write)
  /\ WF_vars(a_join_return) /\ WF_vars(a_flush) /\ WF_vars(a_offer_sent)
  /\ WF_vars(p_invite_request) /\ WF_vars(p_inc_load)
  /\ WF_vars(p_inc_store) /\ WF_vars(p_session_request)
  /\ WF_vars(p_reply_start) /\ WF_vars(p_message) /\ WF_vars(p_answer_sent)
  /\ WF_vars(p_transport_ready) /\ WF_vars(p_dec_store) /\ WF_vars(p_on_data)
  /\ WF_vars(a_transport_ready) /\ WF_vars(a_connecting)
  /\ WF_vars(p_connecting) /\ WF_vars(p_connected)

Spec == Init /\ [][Next]_vars /\ Fairness

-----------------------------------------------------------------------------
TypeOK ==
  /\ {aSt, pSt} \subseteq {Raw, Initialized, TransportReady, Connecting,
                           Connected, Failed}
  /\ {aStarted, pStarted, invited, pBulk, pStartEarly, pDone, aDone}
       \subseteq BOOLEAN
  /\ aReq \in {"none", "pending", "sent"} /\ pReply \in {"none", "pending", "sent"}
  /\ toP \in Seq(Msgs) /\ toA \in Seq(Msgs)
  /\ {pCnt, pTmpC, pTmpI} \subseteq -2 .. 2
  /\ pCpc \in {"idle", "inc_load", "inc_store", "wait"}
  /\ pIpc \in {"idle", "dec_store"}
  /\ pBytes \in 0 .. FileLen /\ pDataLen \in {0, FileLen}
  /\ aIpc \in {"idle", "join"} /\ writer \in {"none", "run", "done", "failed"}
  /\ aRead \in 0 .. FileLen /\ aWritten \in 0 .. aRead /\ queued \in 0 .. Window
  /\ wire \in 0 .. FileLen

(***************************************************************************)
(* The receiver sends its checksum only after the whole file arrived:     *)
(* stream_on_data's bytes == g_data_len test never fires early, although  *)
(* g_data_len is 0 until the length message is processed.                *)
(***************************************************************************)
ChecksumOnFullFile == pDone => pBytes = FileLen

(***************************************************************************)
(* P calls IOEX_session_start only once its stream is transport_ready:    *)
(* the busy-wait on unchanged_streams in session_reply_request is what    *)
(* waits for the ICE thread's transport_ready callback.                   *)
(***************************************************************************)
StartAfterTransportReady == ~pStartEarly

(***************************************************************************)
(* The bulk-write thread always finishes (or the process exits on the    *)
(* checksum first), so the connected callback that joins it returns and  *)
(* A's worker runs again.                                                 *)
(***************************************************************************)
WriterFinishes == (writer = "run") ~> (writer \in {"done", "failed"} \/ aDone)

(***************************************************************************)
(* Once P's transport_ready callback has run and no update is half done,  *)
(* unchanged_streams is 0 (or below) and the busy-wait in                 *)
(* session_reply_request can end: the one stream added has been counted   *)
(* down.                                                                  *)
(***************************************************************************)
UnchangedStreamsCounted ==
  (/\ pSt \in {TransportReady, Connecting, Connected}
   /\ pIpc = "idle"
   /\ pCpc \notin {"inc_load", "inc_store"}) => pCnt <= 0

(***************************************************************************)
(* The writer prints "Finish! Total g_data_len bytes" only when the       *)
(* stream accepted every packet of the file.                              *)
(***************************************************************************)
FinishMeansWholeFile == (writer = "done") => (aWritten = FileLen)

(***************************************************************************)
(* Once P has received the whole file it has finished: stream_on_data     *)
(* assumes the length message was processed before the last packet.       *)
(***************************************************************************)
FinishedWhenFileReceived == (pBulk /\ pBytes = FileLen) => pDone

-----------------------------------------------------------------------------
(* Message m is somewhere in queue q. *)
InQueue(q, m) == \E i \in DOMAIN q : q[i] = m

(***************************************************************************)
(* The inductive invariant behind StartAfterTransportReady.  The chain of *)
(* messages (invite, invite_reply, request) makes P reach its busy-wait  *)
(* only after the invite set its stream up; the single invite means the  *)
(* setup, and its unchanged_streams = 0, happen once.  While P's stream   *)
(* is only initialized, the ICE thread has not touched unchanged_streams, *)
(* so the carrier's increment, whatever it loaded, leaves it at 1 or     *)
(* more, and the busy-wait cannot end.                                    *)
(***************************************************************************)
IInv ==
  /\ pSt \in {Raw, Initialized, TransportReady, Connecting, Connected, Failed}
  /\ toP \in Seq(Msgs) /\ toA \in Seq(Msgs)
  /\ pCnt \in Int /\ pTmpC \in Int /\ pTmpI \in Int
  /\ pCpc \in {"idle", "inc_load", "inc_store", "wait"}
  /\ pIpc \in {"idle", "dec_store"}
  /\ pStartEarly \in BOOLEAN
  /\ ~invited => pSt = Raw /\ ~InQueue(toP, "invite")
  /\ \A i, j \in DOMAIN toP : toP[i] = "invite" /\ toP[j] = "invite" => i = j
  /\ pSt # Raw => ~InQueue(toP, "invite")
  /\ InQueue(toA, "invite_reply") => pSt # Raw
  /\ aReq # "none" => pSt # Raw
  /\ InQueue(toP, "request") => pSt # Raw
  /\ pCpc # "idle" => pSt # Raw
  /\ pIpc # "idle" => pSt \notin {Raw, Initialized}
  /\ pSt = Initialized =>
       /\ pCnt >= 0
       /\ pCpc = "inc_store" => pTmpC >= 0
       /\ pCpc \in {"idle", "wait"} => pCnt >= 1
  /\ ~pStartEarly

=============================================================================
