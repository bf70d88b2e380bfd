-------------------------- MODULE PfdServerProofs --------------------------
(***************************************************************************)
(* Proofs about the pfd server (PfdServer), for any set of session        *)
(* handles: the SDP copy of every session is never read after a free or  *)
(* through a NULL userdata, it is released once the session is closed,   *)
(* and IOEX_session_close runs at most once per session.  The model takes *)
(* the library to serialise a stream's callbacks (spec section 5).       *)
(***************************************************************************)
EXTENDS PfdServer, TLAPS

(* The state of the carrier thread and the per-session facts of IInv. *)
CarrierInv ==
  /\ pc["carrier"] \in {"idle", "c_add_stream", "c_init_reply", "c_init_free",
                        "c_ret", "c_fail", "c_free_p", "del_close"}
  /\ pc["carrier"] # "idle" => tgt["carrier"] \in Sess
  /\ pc["carrier"] = "del_close" => ret["carrier"] \in {"c_ret", "c_free_p"}

LEMMA IInvSplit == IInv <=> TypeOK /\ CarrierInv /\ \A s \in Sess : SessionInv(s)
  BY DEF IInv, CarrierInv

(* The initial state satisfies the inductive invariant. *)
LEMMA InitIInv == Init => IInv
<1> SUFFICES ASSUME Init PROVE IInv
  OBVIOUS
<1>1. TypeOK
  BY ServerNullAssumption DEF Init, TypeOK, Threads, PCs
<1>2. CarrierInv
  BY DEF Init, CarrierInv, Threads
<1>3. ASSUME NEW s \in Sess PROVE SessionInv(s)
  BY ServerNullAssumption DEF Init, SessionInv, CarrierOn, Terminal, Threads,
     Raw, Closed, Failed
<1>4. QED
  BY <1>1, <1>2, <1>3, IInvSplit

(* Every step of Next preserves the inductive invariant. *)
LEMMA NextIInv == IInv /\ [Next]_vars => IInv'
<1> SUFFICES ASSUME IInv, [Next]_vars PROVE IInv'
  OBVIOUS
<1> USE ServerNullAssumption DEF IInv, TypeOK, Threads, PCs, MemErrors,
        SessionInv, CarrierOn, AfterInitCallback, Terminal, Raw, Initialized, TransportReady,
        Connecting, Closed, Failed
<1>1. CASE session_request_callback
  <2>1. PICK s0 \in Sess :
          /\ lib[s0] = "unused"
          /\ tgt' = [tgt EXCEPT !["carrier"] = s0]
          /\ \/ /\ lib' = [lib EXCEPT ![s0] = "closed"]
                /\ closes' = [closes EXCEPT ![s0] = @ + 1]
                /\ UNCHANGED <<table, ud, mem, pc>>
             \/ /\ lib' = [lib EXCEPT ![s0] = "open"]
                /\ mem' = [mem EXCEPT ![s0] = "live"]
                /\ ud' = [ud EXCEPT ![s0] = "p"]
                /\ table' = table \cup {s0}
                /\ pc' = [pc EXCEPT !["carrier"] = "c_add_stream"]
                /\ UNCHANGED closes
    BY <1>1 DEF session_request_callback
  <2>2. pc["carrier"] = "idle" /\ \A s \in Sess : lib[s] # "open"
    BY <1>1 DEF session_request_callback
  <2>3. UNCHANGED <<sst, ret, sdp, startOk, memErr>>
    BY <1>1 DEF session_request_callback
  <2>4. \A s \in Sess : pc[s] = "idle"
    BY <2>2
  <2>5. CASE lib' = [lib EXCEPT ![s0] = "closed"]
    <3>1. UNCHANGED <<table, ud, mem, pc>> /\ closes' = [closes EXCEPT ![s0] = @ + 1]
      BY <2>1, <2>5
    <3>2. TypeOK' /\ CarrierInv'
      BY <2>1, <2>2, <2>3, <3>1 DEF CarrierInv
    <3>3. ASSUME NEW s \in Sess PROVE SessionInv(s)'
      BY <2>1, <2>2, <2>3, <2>4, <3>1
    <3>4. QED
      BY <3>2, <3>3 DEF CarrierInv
  <2>6. CASE lib' = [lib EXCEPT ![s0] = "open"]
    <3>1. /\ mem' = [mem EXCEPT ![s0] = "live"]
          /\ ud' = [ud EXCEPT ![s0] = "p"]
          /\ table' = table \cup {s0}
          /\ pc' = [pc EXCEPT !["carrier"] = "c_add_stream"]
          /\ UNCHANGED closes
      BY <2>1, <2>6
    <3>5. TypeOK'
      BY <2>1, <2>3, <3>1
    <3>6. CarrierInv'
      BY <2>1, <2>2, <3>1 DEF CarrierInv
    <3>2. TypeOK' /\ CarrierInv'
      BY <3>5, <3>6
    <3>3. ASSUME NEW s \in Sess PROVE SessionInv(s)'
      BY <2>1, <2>2, <2>3, <2>4, <3>1
    <3>4. QED
      BY <3>2, <3>3 DEF CarrierInv
  <2>7. QED
    BY <2>1, <2>5, <2>6
<1>2. CASE add_stream
  <2> DEFINE s0 == tgt["carrier"]
  <2>0. s0 \in Sess /\ pc["carrier"] = "c_add_stream"
    BY <1>2 DEF add_stream, CarrierInv
  <2>1. CASE pc'["carrier"] = "c_fail"
    <3>0. /\ pc' = [pc EXCEPT !["carrier"] = "c_fail"]
          /\ UNCHANGED <<sst, lib, table, ud, mem, tgt, ret, sdp, startOk, closes, memErr>>
      BY <1>2, <2>1 DEF add_stream
    <3>1. TypeOK' /\ CarrierInv'
      BY <2>0, <3>0 DEF CarrierInv
    <3>2. ASSUME NEW x \in Sess PROVE SessionInv(x)'
      BY <2>0, <3>0
    <3>3. QED
      BY <3>1, <3>2 DEF CarrierInv
  <2>2. CASE pc'["carrier"] # "c_fail"
    <3>0. /\ pc' = [pc EXCEPT !["carrier"] = "c_init_reply"]
          /\ sst' = [sst EXCEPT ![s0] = Initialized]
          /\ UNCHANGED <<lib, table, ud, mem, tgt, ret, sdp, startOk, closes, memErr>>
      BY <1>2, <2>2 DEF add_stream
    <3>1. TypeOK' /\ CarrierInv'
      BY <2>0, <3>0 DEF CarrierInv
    <3>2. ASSUME NEW x \in Sess PROVE SessionInv(x)'
      <4>1. CASE x = s0
        BY <2>0, <3>0, <4>1
      <4>2. CASE x # s0
        BY <2>0, <3>0, <4>2
      <4>3. QED
        BY <4>1, <4>2
    <3>3. QED
      BY <3>1, <3>2 DEF CarrierInv
  <2>3. QED
    BY <2>1, <2>2
<1>3. CASE init_reply
  BY <1>3 DEF init_reply
<1>4. CASE init_free
  BY <1>4 DEF init_free, Free, delete_session
<1>20. CASE add_stream_return
  BY <1>20 DEF add_stream_return
<1>5. CASE add_stream_failed
  BY <1>5 DEF add_stream_failed, delete_session
<1>6. CASE add_stream_free
  BY <1>6 DEF add_stream_free, Free
<1>7. ASSUME NEW t \in Threads, delete_close(t) PROVE IInv'
  <2> DEFINE ws == tgt[t]
  <2>0. /\ pc[t] = "del_close"
        /\ t = ws \/ pc[ws] = "idle"
        /\ lib' = [lib EXCEPT ![ws] = "closed"]
        /\ sst' = [sst EXCEPT ![ws] = IF @ \in Terminal THEN @ ELSE Closed]
        /\ closes' = [closes EXCEPT ![ws] = @ + 1]
        /\ pc' = [pc EXCEPT ![t] = ret[t]]
        /\ UNCHANGED <<table, ud, mem, tgt, ret, sdp, startOk, memErr>>
    BY <1>7 DEF delete_close
  <2>1. CASE t = "carrier"
    <3>1. ws \in Sess /\ ret["carrier"] \in {"c_ret", "c_free_p"}
      BY <2>0, <2>1 DEF CarrierInv
    <3>2. /\ ws \notin table /\ lib[ws] = "open"
          /\ ret["carrier"] = "c_free_p" => sst[ws] = Raw /\ mem[ws] = "live"
          /\ ret["carrier"] = "c_ret" => sst[ws] = Initialized /\ mem[ws] = "freed"
      BY <2>0, <2>1, <3>1
    <3>3. pc[ws] = "idle"
      BY <2>0, <2>1, <3>1, <3>2
    <3>4. TypeOK' /\ CarrierInv'
      BY <2>0, <2>1, <3>1 DEF CarrierInv
    <3>5. ASSUME NEW x \in Sess PROVE SessionInv(x)'
      <4>1. CASE x = ws
        BY <2>0, <2>1, <3>1, <3>2, <3>3, <4>1
      <4>2. CASE x # ws
        BY <2>0, <2>1, <3>1, <4>2
      <4>3. QED
        BY <4>1, <4>2
    <3>6. QED
      BY <3>4, <3>5 DEF CarrierInv
  <2>2. CASE t \in Sess
    <3>1. ws = t /\ t \notin table /\ mem[t] = "freed" /\ ret[t] = "idle"
          /\ lib[t] = "open" /\ ~CarrierOn(t, PCs \ {"idle"})
      BY <2>0, <2>2
    <3>2. TypeOK' /\ CarrierInv'
      BY <2>0, <2>2, <3>1 DEF CarrierInv
    <3>3. ASSUME NEW x \in Sess PROVE SessionInv(x)'
      <4>1. CASE x = t
        BY <2>0, <2>2, <3>1, <4>1
      <4>2. CASE x # t
        BY <2>0, <2>2, <3>1, <4>2
      <4>3. QED
        BY <4>1, <4>2
    <3>4. QED
      BY <3>2, <3>3 DEF CarrierInv
  <2>3. QED
    BY <2>1, <2>2
<1>8. ASSUME NEW s \in Sess, lib_transport_ready(s) PROVE IInv'
  BY <1>8 DEF lib_transport_ready, InInitCallback
<1>9. ASSUME NEW s \in Sess, lib_failed(s) PROVE IInv'
  BY <1>9 DEF lib_failed, InInitCallback
<1>10. ASSUME NEW s \in Sess, transport_ready_start(s) PROVE IInv'
  BY <1>10 DEF transport_ready_start
<1>11. ASSUME NEW s \in Sess, transport_ready_free(s) PROVE IInv'
  <2>0. /\ pc[s] = "i_tr_free" /\ sdp[s] = "p" /\ mem[s] = "live" /\ s \in table
        /\ ud' = [ud EXCEPT ![s] = "null"]
        /\ mem' = [mem EXCEPT ![s] = "freed"]
        /\ memErr' = memErr
        /\ UNCHANGED <<lib, sst, sdp, startOk, closes>>
    BY <1>11 DEF transport_ready_free, Free
  <2>1. CASE startOk[s]
    <3>0. pc' = [pc EXCEPT ![s] = "idle"] /\ UNCHANGED <<table, tgt, ret>>
      BY <1>11, <2>1 DEF transport_ready_free
    <3>1. TypeOK' /\ CarrierInv'
      BY <2>0, <3>0 DEF CarrierInv
    <3>2. ASSUME NEW x \in Sess PROVE SessionInv(x)'
      <4>1. CASE x = s
        BY <2>0, <2>1, <3>0, <4>1
      <4>2. CASE x # s
        BY <2>0, <3>0, <4>2
      <4>3. QED
        BY <4>1, <4>2
    <3>3. QED
      BY <3>1, <3>2 DEF CarrierInv
  <2>2. CASE ~startOk[s]
    <3>0. /\ table' = table \ {s}
          /\ pc' = [pc EXCEPT ![s] = "del_close"]
          /\ tgt' = [tgt EXCEPT ![s] = s]
          /\ ret' = [ret EXCEPT ![s] = "idle"]
      BY <1>11, <2>0, <2>2 DEF transport_ready_free, delete_session
    <3>1. TypeOK' /\ CarrierInv'
      BY <2>0, <3>0 DEF CarrierInv
    <3>2. ASSUME NEW x \in Sess PROVE SessionInv(x)'
      <4>1. CASE x = s
        BY <2>0, <2>2, <3>0, <4>1
      <4>2. CASE x # s
        BY <2>0, <3>0, <4>2
      <4>3. QED
        BY <4>1, <4>2
    <3>3. QED
      BY <3>1, <3>2 DEF CarrierInv
  <2>3. QED
    BY <2>1, <2>2
<1>12. ASSUME NEW s \in Sess, failed_check(s) PROVE IInv'
  <2>0. pc[s] = "i_fail" /\ s \in table
    BY <1>12 DEF failed_check
  <2>1. /\ pc' = [pc EXCEPT ![s] = "i_fail_free"]
        /\ UNCHANGED <<lib, sst, ud, mem, sdp, startOk, closes, memErr, table, tgt, ret>>
    BY <1>12, <2>0 DEF failed_check
  <2>2. TypeOK' /\ CarrierInv'
    BY <2>0, <2>1 DEF CarrierInv
  <2>3. ASSUME NEW x \in Sess PROVE SessionInv(x)'
    BY <2>0, <2>1
  <2>4. QED
    BY <2>2, <2>3 DEF CarrierInv
<1>13. ASSUME NEW s \in Sess, failed_free(s) PROVE IInv'
  BY <1>13 DEF failed_free, Free, delete_session
<1>14. CASE UNCHANGED vars
  BY <1>14 DEF vars
<1>15. QED
  BY <1>1, <1>2, <1>3, <1>4, <1>20, <1>5, <1>6, <1>7, <1>8, <1>9, <1>10,
     <1>11, <1>12, <1>13, <1>14 DEF Next

(***************************************************************************)
(* When the library serialises a stream's callbacks, every reachable      *)
(* state of the daemon's server mode satisfies the inductive invariant.   *)
(***************************************************************************)
THEOREM IInvInvariant == Spec => []IInv
<1>1. Init => IInv
  BY InitIInv
<1>2. IInv /\ [Next]_vars => IInv'
  BY NextIInv
<1>3. QED
  BY <1>1, <1>2, PTL DEF Spec

(***************************************************************************)
(* The SDP copy strdup'ed in session_request_callback is never read       *)
(* (strlen, IOEX_session_start in the transport_ready branch) after the   *)
(* carrier's or the worker's free, or through a NULL userdata.           *)
(***************************************************************************)
THEOREM SdpReadSafeInvariant == Spec => []SdpReadSafe
<1>1. IInv => SdpReadSafe
  BY DEF IInv, SessionInv, SdpReadSafe
<1>2. QED
  BY <1>1, IInvInvariant, PTL

(***************************************************************************)
(* No leak: a closed session that no thread is working on has had its SDP *)
(* copy freed (or never had one, when the request was refused).           *)
(***************************************************************************)
THEOREM SdpReleasedInvariant == Spec => []SdpReleased
<1>1. IInv => SdpReleased
  BY DEF IInv, SessionInv, CarrierOn, SdpReleased
<1>2. QED
  BY <1>1, IInvInvariant, PTL

-----------------------------------------------------------------------------
(***************************************************************************)
(* The strengthening of ServerCloseOnce: a handle has been closed once    *)
(* exactly when the library has it closed.  It is preserved because a    *)
(* delete_session reaches its deref only for a session whose entry it    *)
(* removed, which IInv shows is still open.                              *)
(***************************************************************************)
CloseCount == \A s \in Sess : closes[s] = IF lib[s] = "closed" THEN 1 ELSE 0

(* Initially no handle is closed. *)
LEMMA InitCloseCount == Init => CloseCount
  BY DEF Init, CloseCount

(* The thread at the deref of delete_session works on an open session. *)
LEMMA DerefOpen ==
  ASSUME IInv, NEW t \in Threads, pc[t] = "del_close"
  PROVE  tgt[t] \in Sess /\ lib[tgt[t]] = "open"
<1>1. CASE t = "carrier"
  <2>1. tgt["carrier"] \in Sess
    BY <1>1 DEF IInv
  <2>2. SessionInv(tgt["carrier"])
    BY <2>1 DEF IInv
  <2>3. QED
    BY <1>1, <2>1, <2>2 DEF SessionInv, CarrierOn
<1>2. CASE t \in Sess
  <2>1. SessionInv(t)
    BY <1>2 DEF IInv
  <2>2. tgt[t] = t /\ lib[t] = "open"
    BY <1>2, <2>1 DEF SessionInv
  <2>3. QED
    BY <1>2, <2>2
<1>3. QED
  BY <1>1, <1>2 DEF Threads

(* Every step keeps CloseCount in a state of IInv. *)
LEMMA NextCloseCount == IInv /\ CloseCount /\ [Next]_vars => CloseCount'
<1> SUFFICES ASSUME IInv, CloseCount, [Next]_vars PROVE CloseCount'
  OBVIOUS
<1>1. CASE session_request_callback
  <2>1. PICK s0 \in Sess :
          /\ lib[s0] = "unused"
          /\ tgt' = [tgt EXCEPT !["carrier"] = s0]
          /\ \/ /\ lib' = [lib EXCEPT ![s0] = "closed"]
                /\ closes' = [closes EXCEPT ![s0] = @ + 1]
                /\ UNCHANGED <<table, ud, mem, pc>>
             \/ /\ lib' = [lib EXCEPT ![s0] = "open"]
                /\ mem' = [mem EXCEPT ![s0] = "live"]
                /\ ud' = [ud EXCEPT ![s0] = "p"]
                /\ table' = table \cup {s0}
                /\ pc' = [pc EXCEPT !["carrier"] = "c_add_stream"]
                /\ UNCHANGED closes
    BY <1>1 DEF session_request_callback
  <2>2. lib \in [Sess -> {"unused", "open", "closed"}] /\ closes \in [Sess -> Nat]
    BY DEF IInv, TypeOK
  <2>3. QED
    BY <2>1, <2>2 DEF CloseCount
<1>2. ASSUME NEW t \in Threads, delete_close(t) PROVE CloseCount'
  <2>1. tgt[t] \in Sess /\ lib[tgt[t]] = "open"
    BY <1>2, DerefOpen DEF delete_close
  <2>2. /\ lib' = [lib EXCEPT ![tgt[t]] = "closed"]
        /\ closes' = [closes EXCEPT ![tgt[t]] = @ + 1]
    BY <1>2 DEF delete_close
  <2>3. lib \in [Sess -> {"unused", "open", "closed"}] /\ closes \in [Sess -> Nat]
    BY DEF IInv, TypeOK
  <2>4. QED
    BY <2>1, <2>2, <2>3 DEF CloseCount
<1>3. CASE ~session_request_callback /\ ~\E t \in Threads : delete_close(t)
  <2>1. UNCHANGED <<lib, closes>>
    BY <1>3 DEF Next, vars, add_stream, init_reply, init_free, add_stream_return,
       add_stream_failed,
       add_stream_free, lib_transport_ready, lib_failed, transport_ready_start,
       transport_ready_free, failed_check, failed_free, delete_session, Free
  <2>2. QED
    BY <2>1 DEF CloseCount
<1>4. QED
  BY <1>1, <1>2, <1>3

(***************************************************************************)
(* When the library serialises a stream's callbacks, IOEX_session_close   *)
(* is called at most once per session, whichever of the carrier thread   *)
(* and the session's ICE worker runs delete_session on it.                *)
(***************************************************************************)
THEOREM ServerCloseOnceInvariant == Spec => []ServerCloseOnce
<1>1. Spec => []IInv
  BY IInvInvariant
<1>2. Spec => []CloseCount
  BY <1>1, InitCloseCount, NextCloseCount, PTL DEF Spec
<1>3. CloseCount => ServerCloseOnce
  <2> SUFFICES ASSUME CloseCount, NEW s \in Sess PROVE closes[s] <= 1
    BY DEF ServerCloseOnce
  <2>1. closes[s] \in {0, 1}
    BY DEF CloseCount
  <2>2. QED
    BY <2>1
<1>4. QED
  BY <1>2, <1>3, PTL

=============================================================================
