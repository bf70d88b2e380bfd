----------------------------- MODULE PfdServer -----------------------------
(***************************************************************************)
(* The server mode of the port-forwarding daemon (src/apps/pfd/pfd.c):    *)
(* session_request_callback accepts a session request from an allowed     *)
(* user, keeps a heap copy of the remote SDP as the session's userdata,   *)
(* and the server branches of stream_state_changed reply, start the       *)
(* session with that SDP and free it, or free it when the stream fails.   *)
(*                                                                         *)
(* Threads:                                                                *)
(*   "carrier": the identity-overlay iteration thread; it runs            *)
(*              session_request_callback, and inside IOEX_session_add_    *)
(*              stream the "initialized" callback, which the library      *)
(*              emits synchronously (spec 4.3);                           *)
(*   s \in Sess: the ICE worker of session s; it runs the callbacks for   *)
(*              transport_ready and failed.                                *)
(* The sessions hashtable is synchronised; delete_session is split at     *)
(* the atomic hashtable_remove and at the deref that closes the session.  *)
(*                                                                         *)
(* The session library is not in the repository; its behaviour (one open  *)
(* session per peer, the stream state machine, close delivering the       *)
(* terminal callback) is taken from the specification, 4.1-4.3 and 5.     *)
(* The SDP copy of session s is one heap block: ud[s] says whether the    *)
(* userdata still points to it, mem[s] whether it is allocated or freed.  *)
(***************************************************************************)
EXTENDS Integers

CONSTANTS
  Sess,     \* session handles IOEX_session_new can return
  NULL      \* the NULL pointer

ASSUME ServerNullAssumption == NULL \notin Sess /\ "carrier" \notin Sess

VARIABLES
  lib,      \* library state of each handle: "unused", "open", "closed"
  sst,      \* state of the session's one stream (IOEXStreamState)
  table,    \* the daemon's sessions hashtable
  ud,       \* IOEX_session_get_userdata(s): the SDP copy, or NULL
  mem,      \* the SDP copy of s: "none", "live" or "freed"
  pc,       \* where each thread is in its current callback
  tgt,      \* the session the thread's callback works on
  ret,      \* where a thread continues after delete_session returns
  sdp,      \* the ICE thread's local sdp in the transport_ready branch
  startOk,  \* IOEX_session_start succeeded (transport_ready branch)
  closes,   \* number of IOEX_session_close calls on each handle
  memErr    \* memory errors on each SDP copy, as history

vars == <<lib, sst, table, ud, mem, pc, tgt, ret, sdp, startOk, closes, memErr>>

Threads == {"carrier"} \cup Sess

PCs == {"idle", "c_add_stream", "c_init_reply", "c_init_free", "c_ret",
        "c_fail", "c_free_p", "i_tr", "i_tr_free", "i_fail", "i_fail_free",
        "del_close"}

MemErrors == {"double_free", "use_after_free", "strlen_null"}

(* IOEXStreamState, in the order of its declaration *)
Raw == 0
Initialized == 1
TransportReady == 2
Connecting == 3
Closed == 6
Failed == 7
Terminal == {Closed, Failed}

-----------------------------------------------------------------------------
(***************************************************************************)
(* free(ptr) of the SDP copy of s when ptr is that copy; free(NULL) does  *)
(* nothing.  A second free of the block is recorded as a double free.     *)
(***************************************************************************)
Free(s, ptr) ==
  IF ptr = "p"
  THEN /\ mem' = [mem EXCEPT ![s] = "freed"]
       /\ memErr' = [memErr EXCEPT ![s] =
                       IF mem[s] = "freed" THEN @ \cup {"double_free"} ELSE @]
  ELSE UNCHANGED <<mem, memErr>>

(***************************************************************************)
(* delete_session(ws), first step: the atomic hashtable_remove.  With the *)
(* entry removed the thread goes on to the deref that closes the session; *)
(* without it delete_session returns at once.                             *)
(***************************************************************************)
delete_session(t, ws, next) ==
  /\ table' = table \ {ws}
  /\ pc' = [pc EXCEPT ![t] = IF ws \in table THEN "del_close" ELSE next]
  /\ tgt' = [tgt EXCEPT ![t] = ws]
  /\ ret' = [ret EXCEPT ![t] = next]

(***************************************************************************)
(* delete_session, last step: deref(entry) runs session_entry_destroy and *)
(* so IOEX_session_close.  The library closes a stream that is not        *)
(* terminal and delivers "closed" to stream_state_changed on this thread; *)
(* there exist_session finds no entry, so nothing is freed, and the       *)
(* nested delete_session returns.  Called on another thread, the close   *)
(* waits until the session's ICE worker has left its callback (spec 5:    *)
(* the context is released after the worker acknowledges).               *)
(***************************************************************************)
delete_close(t) ==
  LET ws == tgt[t] IN
  /\ pc[t] = "del_close"
  /\ t = ws \/ pc[ws] = "idle"
  /\ lib' = [lib EXCEPT ![ws] = "closed"]
  /\ sst' = [sst EXCEPT ![ws] = IF @ \in Terminal THEN @ ELSE Closed]
  /\ closes' = [closes EXCEPT ![ws] = @ + 1]
  /\ pc' = [pc EXCEPT ![t] = ret[t]]
  /\ UNCHANGED <<table, ud, mem, tgt, ret, sdp, startOk, memErr>>

-----------------------------------------------------------------------------
(***************************************************************************)
(* session_request_callback on the carrier thread.  IOEX_session_new      *)
(* fails while the peer has an open session.  A user outside the allowed  *)
(* list is refused and the session closed; otherwise the services are     *)
(* added, a strdup of the SDP becomes the userdata, the session goes into *)
(* the table and the stream is added.                                     *)
(***************************************************************************)
session_request_callback ==
  /\ pc["carrier"] = "idle"
  /\ \A s \in Sess : lib[s] # "open"
  /\ \E s \in Sess :
       /\ lib[s] = "unused"
       /\ tgt' = [tgt EXCEPT !["carrier"] = s]
       /\ \/ /\ lib' = [lib EXCEPT ![s] = "closed"]
             /\ closes' = [closes EXCEPT ![s] = @ + 1]
             /\ UNCHANGED <<table, ud, mem, pc>>
          \/ /\ lib' = [lib EXCEPT ![s] = "open"]
             /\ mem' = [mem EXCEPT ![s] = "live"]
             /\ ud' = [ud EXCEPT ![s] = "p"]
             /\ table' = table \cup {s}
             /\ pc' = [pc EXCEPT !["carrier"] = "c_add_stream"]
             /\ UNCHANGED closes
  /\ UNCHANGED <<sst, ret, sdp, startOk, memErr>>

(***************************************************************************)
(* IOEX_session_add_stream: it fails before creating the stream, or it    *)
(* creates it and, still on the carrier thread, calls stream_state_changed *)
(* with "initialized".                                                    *)
(***************************************************************************)
add_stream ==
  LET s == tgt["carrier"] IN
  /\ pc["carrier"] = "c_add_stream"
  /\ \/ /\ pc' = [pc EXCEPT !["carrier"] = "c_fail"]
        /\ UNCHANGED sst
     \/ /\ sst' = [sst EXCEPT ![s] = Initialized]
        /\ pc' = [pc EXCEPT !["carrier"] = "c_init_reply"]
  /\ UNCHANGED <<lib, table, ud, mem, tgt, ret, sdp, startOk, closes, memErr>>

(***************************************************************************)
(* The "initialized" branch: IOEX_session_reply_request(ws, 0, NULL).  On *)
(* success add_stream returns a stream id and the request is done.        *)
(***************************************************************************)
init_reply ==
  LET s == tgt["carrier"] IN
  /\ pc["carrier"] = "c_init_reply"
  /\ \E ok \in BOOLEAN :
       pc' = [pc EXCEPT !["carrier"] = IF ok THEN "idle" ELSE "c_init_free"]
  /\ UNCHANGED <<lib, sst, table, ud, mem, tgt, ret, sdp, startOk, closes,
                 memErr>>

(* Mutant: the failed reply frees the copy but keeps the session. *)
init_free_no_delete ==
  LET s == tgt["carrier"] IN
  /\ pc["carrier"] = "c_init_free"
  /\ Free(s, ud[s])
  /\ pc' = [pc EXCEPT !["carrier"] = "c_ret"]
  /\ UNCHANGED <<lib, sst, table, ud, tgt, ret, sdp, startOk, closes>>

(***************************************************************************)
(* The reply failed: free(IOEX_session_get_userdata(ws)), delete_session, *)
(* and the callback returns into IOEX_session_add_stream.                 *)
(***************************************************************************)
init_free ==
  LET s == tgt["carrier"] IN
  /\ pc["carrier"] = "c_init_free"
  /\ Free(s, ud[s])
  /\ delete_session("carrier", s, "c_ret")
  /\ UNCHANGED <<lib, sst, ud, sdp, startOk, closes>>

(***************************************************************************)
(* IOEX_session_add_stream returns after its "initialized" callback       *)
(* deleted and closed the session.  The library is not in the repository  *)
(* and the specification does not say what it returns then: the stream   *)
(* id, or an error (rc <= 0), which takes the failure branch at line 380. *)
(***************************************************************************)
add_stream_return ==
  /\ pc["carrier"] = "c_ret"
  /\ \E rc \in {1, -1} :
       pc' = [pc EXCEPT !["carrier"] = IF rc > 0 THEN "idle" ELSE "c_fail"]
  /\ UNCHANGED <<lib, sst, table, ud, mem, tgt, ret, sdp, startOk, closes,
                 memErr>>

(* Mutant: like the refusal, the failure also calls IOEX_session_close. *)
add_stream_failed_close ==
  LET s == tgt["carrier"] IN
  /\ pc["carrier"] = "c_fail"
  /\ closes' = [closes EXCEPT ![s] = @ + 1]
  /\ delete_session("carrier", s, "c_free_p")
  /\ UNCHANGED <<lib, sst, ud, mem, sdp, startOk, memErr>>

(***************************************************************************)
(* add_stream failed: refuse with "Error", delete_session, then free(p).  *)
(* After a failed reply the entry is gone, so delete_session does nothing *)
(* and free(p) frees the block line 289 freed.                            *)
(***************************************************************************)
add_stream_failed ==
  LET s == tgt["carrier"] IN
  /\ pc["carrier"] = "c_fail"
  /\ delete_session("carrier", s, "c_free_p")
  /\ UNCHANGED <<lib, sst, ud, mem, sdp, startOk, closes, memErr>>

add_stream_free ==
  LET s == tgt["carrier"] IN
  /\ pc["carrier"] = "c_free_p"
  /\ Free(s, "p")
  /\ pc' = [pc EXCEPT !["carrier"] = "idle"]
  /\ UNCHANGED <<lib, sst, table, ud, tgt, ret, sdp, startOk, closes>>

-----------------------------------------------------------------------------
(***************************************************************************)
(* The carrier thread is inside the "initialized" callback of s: replying, *)
(* freeing, or in the delete_session that returns to add_stream.  Spec 5   *)
(* says state_changed is never called from inside another state_changed   *)
(* of the stream: the worker waits for the callback to return.            *)
(***************************************************************************)
InInitCallback(s) ==
  /\ tgt["carrier"] = s
  /\ \/ pc["carrier"] \in {"c_init_reply", "c_init_free"}
     \/ pc["carrier"] = "del_close" /\ ret["carrier"] = "c_ret"

(* The library: ICE gathering ends and the worker of s runs the callback. *)
lib_transport_ready(s) ==
  /\ ~InInitCallback(s)
  /\ lib[s] = "open"
  /\ sst[s] = Initialized
  /\ pc[s] = "idle"
  /\ sst' = [sst EXCEPT ![s] = TransportReady]
  /\ pc' = [pc EXCEPT ![s] = "i_tr"]
  /\ UNCHANGED <<lib, table, ud, mem, tgt, ret, sdp, startOk, closes, memErr>>

(* The library: the stream fails and the worker of s runs the callback. *)
lib_failed(s) ==
  /\ ~InInitCallback(s)
  /\ lib[s] = "open"
  /\ sst[s] \in {Initialized, TransportReady, Connecting}
  /\ pc[s] = "idle"
  /\ sst' = [sst EXCEPT ![s] = Failed]
  /\ pc' = [pc EXCEPT ![s] = "i_fail"]
  /\ UNCHANGED <<lib, table, ud, mem, tgt, ret, sdp, startOk, closes, memErr>>

(***************************************************************************)
(* The "transport_ready" branch on the ICE thread: sdp = userdata, then   *)
(* IOEX_session_start(ws, sdp, strlen(sdp)).                              *)
(***************************************************************************)
transport_ready_start(s) ==
  /\ pc[s] = "i_tr"
  /\ sdp' = [sdp EXCEPT ![s] = ud[s]]
  /\ memErr' = [memErr EXCEPT ![s] =
                  @ \cup (IF ud[s] = "null" THEN {"strlen_null"}
                         ELSE IF mem[s] = "freed" THEN {"use_after_free"}
                         ELSE {})]
  /\ \E ok \in BOOLEAN :
       /\ startOk' = [startOk EXCEPT ![s] = ok]
       /\ sst' = [sst EXCEPT ![s] = IF ok /\ @ \notin Terminal THEN Connecting
                                    ELSE @]
  /\ pc' = [pc EXCEPT ![s] = "i_tr_free"]
  /\ UNCHANGED <<lib, table, ud, mem, tgt, ret, closes>>

(* Mutant: the userdata is not reset before the SDP is freed. *)
transport_ready_free_keep_ud(s) ==
  /\ pc[s] = "i_tr_free"
  /\ Free(s, sdp[s])
  /\ IF startOk[s]
     THEN pc' = [pc EXCEPT ![s] = "idle"] /\ UNCHANGED <<table, tgt, ret>>
     ELSE delete_session(s, s, "idle")
  /\ UNCHANGED <<lib, sst, ud, sdp, startOk, closes>>

(***************************************************************************)
(* Then IOEX_session_set_userdata(ws, NULL) and free(sdp); a failed start *)
(* deletes the session.                                                   *)
(***************************************************************************)
transport_ready_free(s) ==
  /\ pc[s] = "i_tr_free"
  /\ ud' = [ud EXCEPT ![s] = "null"]
  /\ Free(s, sdp[s])
  /\ IF startOk[s]
     THEN pc' = [pc EXCEPT ![s] = "idle"] /\ UNCHANGED <<table, tgt, ret>>
     ELSE delete_session(s, s, "idle")
  /\ UNCHANGED <<lib, sst, sdp, startOk, closes>>

(***************************************************************************)
(* The "failed" branch on the ICE thread: if exist_session(ws), free the  *)
(* userdata (which is not reset); then delete_session.                    *)
(***************************************************************************)
(* Mutant: the failed branch deletes the session without the free. *)
failed_check_no_free(s) ==
  /\ pc[s] = "i_fail"
  /\ delete_session(s, s, "idle")
  /\ UNCHANGED <<lib, sst, ud, mem, sdp, startOk, closes, memErr>>

failed_check(s) ==
  /\ pc[s] = "i_fail"
  /\ IF s \in table
     THEN pc' = [pc EXCEPT ![s] = "i_fail_free"] /\ UNCHANGED <<table, tgt, ret>>
     ELSE delete_session(s, s, "idle")
  /\ UNCHANGED <<lib, sst, ud, mem, sdp, startOk, closes, memErr>>

failed_free(s) ==
  /\ pc[s] = "i_fail_free"
  /\ Free(s, ud[s])
  /\ delete_session(s, s, "idle")
  /\ UNCHANGED <<lib, sst, ud, sdp, startOk, closes>>

-----------------------------------------------------------------------------
Init ==
  /\ lib = [s \in Sess |-> "unused"]
  /\ sst = [s \in Sess |-> Raw]
  /\ table = {}
  /\ ud = [s \in Sess |-> "null"]
  /\ mem = [s \in Sess |-> "none"]
  /\ pc = [t \in Threads |-> "idle"]
  /\ tgt = [t \in Threads |-> NULL]
  /\ ret = [t \in Threads |-> "idle"]
  /\ sdp = [s \in Sess |-> "null"]
  /\ startOk = [s \in Sess |-> FALSE]
  /\ closes = [s \in Sess |-> 0]
  /\ memErr = [s \in Sess |-> {}]

Next ==
  \/ session_request_callback \/ add_stream \/ init_reply \/ init_free
  \/ add_stream_return
  \/ add_stream_failed \/ add_stream_free
  \/ \E t \in Threads : delete_close(t)
  \/ \E s \in Sess :
       \/ lib_transport_ready(s) \/ lib_failed(s)
       \/ transport_ready_start(s) \/ transport_ready_free(s)
       \/ failed_check(s) \/ failed_free(s)

Spec == Init /\ [][Next]_vars

-----------------------------------------------------------------------------
TypeOK ==
  /\ lib \in [Sess -> {"unused", "open", "closed"}]
  /\ sst \in [Sess -> {Raw, Initialized, TransportReady, Connecting, Closed, Failed}]
  /\ table \subseteq Sess
  /\ ud \in [Sess -> {"null", "p"}] /\ sdp \in [Sess -> {"null", "p"}]
  /\ mem \in [Sess -> {"none", "live", "freed"}]
  /\ pc \in [Threads -> PCs] /\ ret \in [Threads -> PCs]
  /\ tgt \in [Threads -> Sess \cup {NULL}]
  /\ startOk \in [Sess -> BOOLEAN] /\ closes \in [Sess -> Nat]
  /\ memErr \in [Sess -> SUBSET MemErrors]

(***************************************************************************)
(* The SDP copy of every session is freed at most once, and never read    *)
(* after it was freed or through a NULL userdata, whichever of the reply  *)
(* failure, the add_stream failure, transport_ready and failed paths run  *)
(* on the carrier and ICE threads.                                        *)
(***************************************************************************)
SdpMemorySafe == \A s \in Sess : memErr[s] = {}

(***************************************************************************)
(* The SDP copy is never read after a free or through a NULL userdata:    *)
(* when the ICE worker's transport_ready branch passes the userdata to    *)
(* strlen and IOEX_session_start (lines 295-297), no free on the carrier  *)
(* thread (line 289) or the worker (lines 250, 299) has released it.      *)
(***************************************************************************)
SdpReadSafe ==
  \A s \in Sess : memErr[s] \cap {"use_after_free", "strlen_null"} = {}

(***************************************************************************)
(* No leak: once a session is closed and no callback is working on it,   *)
(* its SDP copy has been freed.                                           *)
(***************************************************************************)
SdpReleased ==
  \A s \in Sess :
    (/\ lib[s] = "closed" /\ pc[s] = "idle"
     /\ ~(pc["carrier"] # "idle" /\ tgt["carrier"] = s)) => mem[s] # "live"

(***************************************************************************)
(* IOEX_session_close is called at most once per session, although the   *)
(* carrier thread (refusal, reply failure, add_stream failure) and the   *)
(* session's ICE worker (failed start, failed stream) may each call       *)
(* delete_session on it, and the worker's delete may find the entry gone.*)
(***************************************************************************)
ServerCloseOnce == \A s \in Sess : closes[s] <= 1

-----------------------------------------------------------------------------
(* The carrier thread is working on session s at one of the places pcs. *)
CarrierOn(s, pcs) == tgt["carrier"] = s /\ pc["carrier"] \in pcs

(* The session closed by its failed-reply callback, the copy freed. *)
AfterInitCallback(s) ==
  lib[s] = "closed" /\ sst[s] = Closed /\ s \notin table /\ mem[s] = "freed"

(***************************************************************************)
(* The inductive invariant behind SdpReadSafe and SdpReleased when the    *)
(* library serialises a stream's callbacks.  It ties each place of each thread to *)
(* the userdata and the SDP copy of its session: while the session is in  *)
(* the table the userdata is either the live copy or NULL after a freed   *)
(* one; the userdata is left dangling only inside a delete_session that   *)
(* closes the session, after which no callback of the stream can come.   *)
(***************************************************************************)
SessionInv(s) ==
  /\ memErr[s] \subseteq {"double_free"}
  /\ pc[s] \in {"idle", "i_tr", "i_tr_free", "i_fail", "i_fail_free", "del_close"}
  /\ pc[s] # "idle" => lib[s] = "open" /\ ~CarrierOn(s, PCs \ {"idle"})
  /\ lib[s] = "unused" =>
       /\ mem[s] = "none" /\ ud[s] = "null" /\ sst[s] = Raw /\ s \notin table
       /\ ~CarrierOn(s, PCs \ {"idle"})
  /\ lib[s] = "closed" => s \notin table /\ sst[s] \in Terminal \cup {Raw}
  /\ mem[s] = "none" => ud[s] = "null" /\ lib[s] # "open"
  /\ s \in table => lib[s] = "open"
  /\ ud[s] = "p" /\ mem[s] # "live" =>
       \/ lib[s] = "closed"
       \/ CarrierOn(s, {"del_close"}) /\ ret["carrier"] = "c_ret"
       \/ pc[s] = "del_close"
  /\ lib[s] = "open" /\ s \notin table =>
       CarrierOn(s, {"del_close"}) \/ pc[s] = "del_close"
  /\ CarrierOn(s, {"c_add_stream"}) =>
       sst[s] = Raw /\ ud[s] = "p" /\ mem[s] = "live" /\ s \in table
  /\ CarrierOn(s, {"c_fail"}) =>
       \/ sst[s] = Raw /\ ud[s] = "p" /\ mem[s] = "live" /\ s \in table
       \/ AfterInitCallback(s)
  /\ CarrierOn(s, {"c_ret"}) => AfterInitCallback(s)
  /\ CarrierOn(s, {"c_init_reply", "c_init_free"}) =>
       sst[s] = Initialized /\ ud[s] = "p" /\ mem[s] = "live" /\ s \in table
  /\ CarrierOn(s, {"del_close"}) =>
       /\ s \notin table /\ lib[s] = "open"
       /\ ret["carrier"] = "c_free_p" => sst[s] = Raw /\ mem[s] = "live"
       /\ ret["carrier"] = "c_ret" => sst[s] = Initialized /\ mem[s] = "freed"
  /\ CarrierOn(s, {"c_free_p"}) => mem[s] # "none" /\ lib[s] = "closed"
  /\ lib[s] = "closed" /\ mem[s] = "live" => CarrierOn(s, {"c_free_p"})
  /\ lib[s] = "open" /\ sst[s] = Raw => CarrierOn(s, {"c_add_stream", "c_fail", "del_close"})
  /\ lib[s] = "open" /\ sst[s] = Initialized /\ pc[s] = "idle"
     /\ ~CarrierOn(s, {"c_init_reply", "c_init_free", "del_close"}) =>
       ud[s] = "p" /\ mem[s] = "live" /\ s \in table
  /\ lib[s] = "open" /\ sst[s] = TransportReady => pc[s] \in {"i_tr", "i_tr_free", "del_close"}
  /\ lib[s] = "open" /\ sst[s] = Connecting /\ pc[s] = "idle" =>
       ud[s] = "null" /\ mem[s] = "freed" /\ s \in table
  /\ lib[s] = "open" /\ sst[s] = Failed => pc[s] \in {"i_fail", "i_fail_free", "del_close"}
  /\ sst[s] = Closed => lib[s] = "closed"
  /\ pc[s] = "i_tr" => sst[s] = TransportReady /\ ud[s] = "p" /\ mem[s] = "live" /\ s \in table
  /\ pc[s] = "i_tr_free" =>
       /\ sdp[s] = "p" /\ ud[s] = "p" /\ mem[s] = "live" /\ s \in table
       /\ sst[s] = IF startOk[s] THEN Connecting ELSE TransportReady
  /\ pc[s] \in {"i_fail", "i_fail_free"} =>
       /\ sst[s] = Failed /\ s \in table
       /\ \/ ud[s] = "p" /\ mem[s] = "live"
          \/ ud[s] = "null" /\ mem[s] = "freed"
  /\ pc[s] = "del_close" =>
       tgt[s] = s /\ s \notin table /\ mem[s] = "freed" /\ ret[s] = "idle"

IInv ==
  /\ TypeOK
  /\ pc["carrier"] \in {"idle", "c_add_stream", "c_init_reply", "c_init_free",
                        "c_ret", "c_fail", "c_free_p", "del_close"}
  /\ pc["carrier"] # "idle" => tgt["carrier"] \in Sess
  /\ pc["carrier"] = "del_close" => ret["carrier"] \in {"c_ret", "c_free_p"}
  /\ \A s \in Sess : SessionInv(s)

====
