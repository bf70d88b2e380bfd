----------------------------- MODULE PfdClient -----------------------------
(***************************************************************************)
(* The client mode of the port-forwarding daemon (src/apps/pfd/pfd.c)     *)
(* driving the session library.                                           *)
(*                                                                         *)
(* Two threads run the daemon's callbacks:                                *)
(*   "carrier": the identity-overlay iteration thread; it runs            *)
(*              carrier_ready, friend_connection (and so                  *)
(*              setup_portforwardings) and session_request_complete,      *)
(*              whose busy-wait polls the stream state;                   *)
(*   "ice":     the ICE worker thread; it changes stream states and runs  *)
(*              stream_state_changed for them.                            *)
(* Both share the globals cli_session and cli_streamid and the sessions   *)
(* hashtable (synchronised, so one put/remove is atomic).                 *)
(* delete_session is split at the points where the other thread can run: *)
(* the atomic hashtable_remove, the reset of the globals, and the deref   *)
(* that calls IOEX_session_close.                                         *)
(*                                                                         *)
(* The session library itself is not in this repository: its behaviour   *)
(* (one open session per peer, the stream state machine, request and      *)
(* reply, close) is taken from the specification, sections 4.2-4.4 and 5. *)
(***************************************************************************)
EXTENDS Integers

CONSTANTS
  Sess,   \* session handles IOEX_session_new can return (bounds re-creation)
  NULL    \* the NULL pointer

ASSUME NullAssumption == NULL \notin Sess

VARIABLES
  lib,          \* library state of each handle: "unused", "open", "closed"
  sst,          \* state of the one stream of each session (IOEXStreamState)
  req,          \* session request of each session: "none", "pending", "done"
  started,      \* IOEX_session_start has succeeded on the session
  table,        \* the daemon's sessions hashtable
  cliSession,   \* the global cli_session
  cliStreamid,  \* the global cli_streamid
  pc,           \* where each thread is in its current callback
  tgt,          \* the session the thread's callback is working on
  ret,          \* where a thread continues after delete_session returns
  online,       \* the server peer is connected to the overlay
  notified,     \* last friend connection status delivered to the daemon
  isFriend,     \* the server is a confirmed friend
  friendReq,    \* IOEX_add_friend has been sent to the server
  ready,        \* carrier_ready has run
  closes,       \* number of IOEX_session_close calls on each handle
  misuse        \* a call was made into a session already closed

vars == <<lib, sst, req, started, table, cliSession, cliStreamid, pc, tgt,
          ret, online, notified, isFriend, friendReq, ready, closes, misuse>>

Threads == {"carrier", "ice"}

PCs == {"idle", "su_new", "su_put", "su_stream", "su_ret", "rc_poll",
        "rc_start", "del_reset", "del_close", "fwd"}

(* IOEXStreamState, in the order of its declaration *)
Raw == 0
Initialized == 1
TransportReady == 2
Connecting == 3
Connected == 4
Deactivated == 5
Closed == 6
Failed == 7
StreamStates == Raw .. Failed

(* Mutant: the entry is not checked, delete_session always goes on. *)
delete_session_unchecked(t, ws, next) ==
  /\ table' = table \ {ws}
  /\ pc' = [pc EXCEPT ![t] = IF ws # NULL THEN "del_reset" ELSE next]
  /\ tgt' = [tgt EXCEPT ![t] = ws]
  /\ ret' = [ret EXCEPT ![t] = next]

(***************************************************************************)
(* delete_session(ws), its first step: the atomic hashtable_remove.  If   *)
(* the entry was there the thread goes on to reset the globals and close  *)
(* the session; otherwise delete_session returns at once (also for        *)
(* ws = NULL, whose key is never in the table).                           *)
(***************************************************************************)
delete_session(t, ws, next) ==
  /\ table' = table \ {ws}
  /\ pc' = [pc EXCEPT ![t] = IF ws \in table THEN "del_reset" ELSE next]
  /\ tgt' = [tgt EXCEPT ![t] = ws]
  /\ ret' = [ret EXCEPT ![t] = next]

(* delete_session, second step: the client-mode reset of the globals. *)
delete_reset(t) ==
  /\ pc[t] = "del_reset"
  /\ cliSession' = NULL
  /\ cliStreamid' = -1
  /\ pc' = [pc EXCEPT ![t] = "del_close"]
  /\ UNCHANGED <<lib, sst, req, started, table, tgt, ret, online, notified,
                 isFriend, friendReq, ready, closes, misuse>>

(***************************************************************************)
(* delete_session, last step: deref(entry) runs session_entry_destroy,    *)
(* which calls IOEX_session_close.  The library closes every stream that  *)
(* is not terminal and delivers "closed" to stream_state_changed, whose   *)
(* nested delete_session finds no entry and returns.                      *)
(***************************************************************************)
delete_close(t) ==
  LET ws == tgt[t] IN
  /\ pc[t] = "del_close"
  /\ lib' = [lib EXCEPT ![ws] = "closed"]
  /\ sst' = [sst EXCEPT ![ws] = IF @ \in {Closed, Failed} THEN @ ELSE Closed]
  /\ closes' = [closes EXCEPT ![ws] = @ + 1]
  /\ pc' = [pc EXCEPT ![t] = ret[t]]
  /\ UNCHANGED <<req, started, table, cliSession, cliStreamid, tgt, ret,
                 online, notified, isFriend, friendReq, ready, misuse>>

(***************************************************************************)
(* peer_connection_changed(status) on the carrier thread.  Connected:     *)
(* setup_portforwardings, which first deletes a previous cli_session.     *)
(* Otherwise: delete the current cli_session if there is one.             *)
(***************************************************************************)
peer_connection_changed(status) ==
  delete_session("carrier", cliSession, IF status THEN "su_new" ELSE "idle")

(* carrier_ready: befriend the server, or act on its connection status. *)
carrier_ready ==
  /\ ~ready
  /\ pc["carrier"] = "idle"
  /\ ready' = TRUE
  /\ \/ /\ ~isFriend
        /\ friendReq' = TRUE
        /\ UNCHANGED <<notified, table, pc, tgt, ret>>
     \/ /\ isFriend
        /\ notified' = online
        /\ peer_connection_changed(online)
        /\ UNCHANGED friendReq
  /\ UNCHANGED <<lib, sst, req, started, cliSession, cliStreamid, online,
                 isFriend, closes, misuse>>

(* friend_connection for the server peer: a status change is delivered. *)
friend_connection ==
  /\ ready
  /\ isFriend
  /\ pc["carrier"] = "idle"
  /\ notified # online
  /\ notified' = online
  /\ peer_connection_changed(online)
  /\ UNCHANGED <<lib, sst, req, started, cliSession, cliStreamid, online,
                 isFriend, friendReq, ready, closes, misuse>>

(* Mutant: the library lets a new session to the peer start while the   *)
(* previous one is still open.                                          *)
setup_session_new_not_unique ==
  /\ pc["carrier"] = "su_new"
  /\ \E h \in Sess :
       /\ lib[h] = "unused"
       /\ lib' = [lib EXCEPT ![h] = "open"]
       /\ cliSession' = h
  /\ pc' = [pc EXCEPT !["carrier"] = "su_put"]
  /\ UNCHANGED <<sst, req, started, table, cliStreamid, tgt, ret, online,
                 notified, isFriend, friendReq, ready, closes, misuse>>

(***************************************************************************)
(* setup_portforwardings: cli_session = IOEX_session_new(server).  The    *)
(* library refuses a second session to a peer while one is open          *)
(* (ALREADY_EXIST); the failure stores NULL in cli_session.               *)
(***************************************************************************)
setup_session_new ==
  /\ pc["carrier"] = "su_new"
  /\ \/ /\ \A s \in Sess : lib[s] # "open"
        /\ \E h \in Sess :
             /\ lib[h] = "unused"
             /\ lib' = [lib EXCEPT ![h] = "open"]
             /\ cliSession' = h
        /\ pc' = [pc EXCEPT !["carrier"] = "su_put"]
     \/ /\ \E s \in Sess : lib[s] = "open"
        /\ cliSession' = NULL
        /\ pc' = [pc EXCEPT !["carrier"] = "idle"]
        /\ UNCHANGED lib
  /\ UNCHANGED <<sst, req, started, table, cliStreamid, tgt, ret, online,
                 notified, isFriend, friendReq, ready, closes, misuse>>

(* setup_portforwardings: add_session(cli_session), which asserts ws. *)
setup_add_session ==
  /\ pc["carrier"] = "su_put"
  /\ cliSession # NULL
  /\ table' = table \cup {cliSession}
  /\ pc' = [pc EXCEPT !["carrier"] = "su_stream"]
  /\ UNCHANGED <<lib, sst, req, started, cliSession, cliStreamid, tgt, ret,
                 online, notified, isFriend, friendReq, ready, closes, misuse>>

(***************************************************************************)
(* setup_portforwardings: cli_streamid = IOEX_session_add_stream(...).    *)
(* The library creates stream 1 and delivers "initialized" synchronously; *)
(* stream_state_changed then calls IOEX_session_request, whose            *)
(* friend-invite fails with FRIEND_OFFLINE when the server is offline,    *)
(* and on failure delete_session(ws) runs inside add_stream.              *)
(***************************************************************************)
setup_add_stream ==
  LET h == cliSession IN
  /\ pc["carrier"] = "su_stream"
  /\ h # NULL
  /\ sst' = [sst EXCEPT ![h] = Initialized]
  /\ \/ /\ online
        /\ req' = [req EXCEPT ![h] = "pending"]
        /\ cliStreamid' = 1
        /\ pc' = [pc EXCEPT !["carrier"] = "idle"]
        /\ UNCHANGED <<table, tgt, ret>>
     \/ /\ ~online
        /\ delete_session("carrier", h, "su_ret")
        /\ UNCHANGED <<req, cliStreamid>>
  /\ UNCHANGED <<lib, started, cliSession, online, notified, isFriend,
                 friendReq, ready, closes, misuse>>

(***************************************************************************)
(* add_stream returns after its callback closed the session; the library  *)
(* may report the stream id or an error.  On an error the daemon calls    *)
(* delete_session(cli_session), which is NULL by now and does nothing.    *)
(***************************************************************************)
setup_add_stream_return ==
  /\ pc["carrier"] = "su_ret"
  /\ \E rc \in {1, -1} : cliStreamid' = rc
  /\ pc' = [pc EXCEPT !["carrier"] = "idle"]
  /\ UNCHANGED <<lib, sst, req, started, table, cliSession, tgt, ret, online,
                 notified, isFriend, friendReq, ready, closes, misuse>>

(***************************************************************************)
(* The library delivers the reply (or its 60 s timeout) to               *)
(* session_request_complete on the carrier thread.  A non-zero status    *)
(* only logs; status 0 enters the busy-wait on the stream state.         *)
(***************************************************************************)
session_request_complete ==
  /\ ready
  /\ pc["carrier"] = "idle"
  /\ \E h \in Sess :
       /\ lib[h] = "open"
       /\ req[h] = "pending"
       /\ req' = [req EXCEPT ![h] = "done"]
       /\ \E ok \in BOOLEAN :
            pc' = [pc EXCEPT !["carrier"] = IF ok THEN "rc_poll" ELSE "idle"]
       /\ tgt' = [tgt EXCEPT !["carrier"] = h]
  /\ UNCHANGED <<lib, sst, started, table, cliSession, cliStreamid, ret,
                 online, notified, isFriend, friendReq, ready, closes, misuse>>

(***************************************************************************)
(* The busy-wait: rc = IOEX_stream_get_state(ws, cli_streamid, &state)   *)
(* while rc == 0 && state < transport_ready.  A poll that would loop is  *)
(* a stutter, so the step is taken once the loop exits.  rc < 0 when the *)
(* stream id is not the session's stream or the session is closed (a    *)
(* call on a released handle, recorded in misuse).  rc < 0 or a state    *)
(* other than transport_ready makes the daemon delete the session.       *)
(***************************************************************************)
session_request_complete_poll ==
  LET h == tgt["carrier"]
      rcOk == lib[h] = "open" /\ cliStreamid = 1
  IN
  /\ pc["carrier"] = "rc_poll"
  /\ ~(rcOk /\ sst[h] < TransportReady)
  /\ misuse' = (misuse \/ lib[h] # "open")
  /\ \/ /\ rcOk /\ sst[h] = TransportReady
        /\ pc' = [pc EXCEPT !["carrier"] = "rc_start"]
        /\ UNCHANGED <<table, tgt, ret>>
     \/ /\ ~(rcOk /\ sst[h] = TransportReady)
        /\ delete_session("carrier", h, "idle")
  /\ UNCHANGED <<lib, sst, req, started, cliSession, cliStreamid, online,
                 notified, isFriend, friendReq, ready, closes>>

(***************************************************************************)
(* IOEX_session_start(ws, sdp): arms ICE when the stream is still        *)
(* transport_ready; fails otherwise, and the daemon deletes the session. *)
(***************************************************************************)
session_request_complete_start ==
  LET h == tgt["carrier"] IN
  /\ pc["carrier"] = "rc_start"
  /\ misuse' = (misuse \/ lib[h] # "open")
  /\ \/ /\ lib[h] = "open" /\ sst[h] = TransportReady
        /\ started' = [started EXCEPT ![h] = TRUE]
        /\ pc' = [pc EXCEPT !["carrier"] = "idle"]
        /\ UNCHANGED <<table, tgt, ret>>
     \/ /\ ~(lib[h] = "open" /\ sst[h] = TransportReady)
        /\ delete_session("carrier", h, "idle")
        /\ UNCHANGED started
  /\ UNCHANGED <<lib, sst, req, cliSession, cliStreamid, online, notified,
                 isFriend, friendReq, ready, closes>>

(***************************************************************************)
(* ICE worker: the library moves a stream of an open session one step    *)
(* along the state machine of section 4.3 and calls stream_state_changed.*)
(* transport_ready follows the session request (candidate gathering),    *)
(* connecting follows session_start; failed may end any live state once  *)
(* ICE work has begun (gathering or check timeout).                      *)
(***************************************************************************)
ice_step(h, s) ==
  /\ pc["ice"] = "idle"
  /\ lib[h] = "open"
  /\ sst' = [sst EXCEPT ![h] = s]

(* transport_ready or connecting: the client callback only logs. *)
ice_progress ==
  /\ \E h \in Sess :
       \/ /\ sst[h] = Initialized /\ req[h] # "none"
          /\ ice_step(h, TransportReady)
       \/ /\ sst[h] = TransportReady /\ started[h]
          /\ ice_step(h, Connecting)
  /\ UNCHANGED <<lib, req, started, table, cliSession, cliStreamid, pc, tgt,
                 ret, online, notified, isFriend, friendReq, ready, closes,
                 misuse>>

(* connected: the callback goes on to open the port forwardings. *)
ice_connected ==
  /\ \E h \in Sess :
       /\ sst[h] = Connecting
       /\ ice_step(h, Connected)
       /\ pc' = [pc EXCEPT !["ice"] = "fwd"]
       /\ tgt' = [tgt EXCEPT !["ice"] = h]
  /\ UNCHANGED <<lib, req, started, table, cliSession, cliStreamid, ret,
                 online, notified, isFriend, friendReq, ready, closes, misuse>>

(* failed: the callback deletes the session. *)
ice_failed ==
  /\ \E h \in Sess :
       /\ sst[h] \in Initialized .. Connected
       /\ req[h] # "none"
       /\ ice_step(h, Failed)
       /\ delete_session("ice", h, "idle")
  /\ UNCHANGED <<lib, req, started, cliSession, cliStreamid, online,
                 notified, isFriend, friendReq, ready, closes, misuse>>

(***************************************************************************)
(* The connected branch of stream_state_changed: one                     *)
(* IOEX_stream_open_port_forwarding per configured service, on ws.       *)
(***************************************************************************)
open_port_forwardings ==
  /\ pc["ice"] = "fwd"
  /\ misuse' = (misuse \/ lib[tgt["ice"]] # "open")
  /\ pc' = [pc EXCEPT !["ice"] = "idle"]
  /\ UNCHANGED <<lib, sst, req, started, table, cliSession, cliStreamid, tgt,
                 ret, online, notified, isFriend, friendReq, ready, closes>>

(* The server peer goes on- or offline in the overlay. *)
server_connection ==
  /\ online' = ~online
  /\ UNCHANGED <<lib, sst, req, started, table, cliSession, cliStreamid, pc,
                 tgt, ret, notified, isFriend, friendReq, ready, closes,
                 misuse>>

(* The server's friend_request accepts the client (it is in users[]). *)
server_accepts_friend ==
  /\ friendReq
  /\ ~isFriend
  /\ isFriend' = TRUE
  /\ UNCHANGED <<lib, sst, req, started, table, cliSession, cliStreamid, pc,
                 tgt, ret, online, notified, friendReq, ready, closes, misuse>>

Init ==
  /\ lib = [h \in Sess |-> "unused"]
  /\ sst = [h \in Sess |-> Raw]
  /\ req = [h \in Sess |-> "none"]
  /\ started = [h \in Sess |-> FALSE]
  /\ table = {}
  /\ cliSession = NULL
  /\ cliStreamid = 0
  /\ pc = [t \in Threads |-> "idle"]
  /\ tgt = [t \in Threads |-> NULL]
  /\ ret = [t \in Threads |-> "idle"]
  /\ online \in BOOLEAN
  /\ notified = FALSE
  /\ isFriend \in BOOLEAN
  /\ friendReq = FALSE
  /\ ready = FALSE
  /\ closes = [h \in Sess |-> 0]
  /\ misuse = FALSE

Next ==
  \/ carrier_ready
  \/ friend_connection
  \/ setup_session_new
  \/ setup_add_session
  \/ setup_add_stream
  \/ setup_add_stream_return
  \/ session_request_complete
  \/ session_request_complete_poll
  \/ session_request_complete_start
  \/ ice_progress
  \/ ice_connected
  \/ ice_failed
  \/ open_port_forwardings
  \/ \E t \in Threads : delete_reset(t) \/ delete_close(t)
  \/ server_connection
  \/ server_accepts_friend

Spec == Init /\ [][Next]_vars

-----------------------------------------------------------------------------
TypeOK ==
  /\ lib \in [Sess -> {"unused", "open", "closed"}]
  /\ sst \in [Sess -> StreamStates]
  /\ req \in [Sess -> {"none", "pending", "done"}]
  /\ started \in [Sess -> BOOLEAN]
  /\ table \subseteq Sess
  /\ cliSession \in Sess \cup {NULL}
  /\ cliStreamid \in {-1, 0, 1}
  /\ pc \in [Threads -> PCs]
  /\ tgt \in [Threads -> Sess \cup {NULL}]
  /\ ret \in [Threads -> PCs]
  /\ online \in BOOLEAN
  /\ notified \in BOOLEAN
  /\ isFriend \in BOOLEAN
  /\ friendReq \in BOOLEAN
  /\ ready \in BOOLEAN
  /\ closes \in [Sess -> Nat]
  /\ misuse \in BOOLEAN

(* The sessions some thread is deleting: removed, not yet closed. *)
Deleting == {tgt[t] : t \in {u \in Threads : pc[u] \in {"del_reset", "del_close"}}}

(***************************************************************************)
(* No session is lost by the client: every session open in the library   *)
(* is the one cli_session names or one a thread is deleting.  The ICE    *)
(* thread's delete_session writes cli_session = NULL without checking    *)
(* which session it names, racing setup_portforwardings on the carrier   *)
(* thread; a lost session would block IOEX_session_new (ALREADY_EXIST)   *)
(* and leave the forwarding dead until restart.                          *)
(***************************************************************************)
ClientTracksSession ==
  \A h \in Sess : lib[h] = "open" => h = cliSession \/ h \in Deleting

(***************************************************************************)
(* IOEX_session_close is called at most once per session, although the   *)
(* carrier thread (offline, setup, request_complete) and the ICE thread  *)
(* (stream failed) may both call delete_session on it.                   *)
(***************************************************************************)
CloseOnce == \A h \in Sess : closes[h] <= 1

(***************************************************************************)
(* The daemon never calls into a session after IOEX_session_close        *)
(* released it: not from the busy-wait in session_request_complete, not  *)
(* from session_start, not from the connected callback's port            *)
(* forwardings.                                                          *)
(***************************************************************************)
NoUseAfterClose == ~misuse

(***************************************************************************)
(* delete_session's client-mode reset (cli_session = NULL,                *)
(* cli_streamid = -1) never clears a session other than the one the       *)
(* thread removed from the table: when the ICE thread deletes a failed   *)
(* session, setup_portforwardings on the carrier thread cannot already   *)
(* have stored a newer session in cli_session, since the library refuses *)
(* a second session while the removed one is still open.                 *)
(***************************************************************************)
ResetOwnSession ==
  [][\A t \in Threads : delete_reset(t) => cliSession \in {NULL, tgt[t]}]_vars

-----------------------------------------------------------------------------
(***************************************************************************)
(* The inductive strengthening of ClientTracksSession and CloseOnce.      *)
(***************************************************************************)
DeletingThreads == {t \in Threads : pc[t] \in {"del_reset", "del_close"}}

(* The library keeps at most one session to the server open. *)
OneOpen == \A h1, h2 \in Sess : lib[h1] = "open" /\ lib[h2] = "open" => h1 = h2

(* The daemon's table holds only open sessions. *)
TableOpen == \A h \in table : lib[h] = "open"

(* A handle's close count is 1 exactly when it is closed. *)
ClosesCount == \A h \in Sess : closes[h] = IF lib[h] = "closed" THEN 1 ELSE 0

(* A handle IOEX_session_new has not returned has no stream and request. *)
UnusedFresh ==
  \A h \in Sess : lib[h] = "unused" => sst[h] = Raw /\ req[h] = "none"

(* A thread deleting a session has removed it and not yet closed it. *)
DeletingOpen ==
  \A t \in DeletingThreads :
    tgt[t] \in Sess /\ lib[tgt[t]] = "open" /\ tgt[t] \notin table

(* Two threads never delete the same session (the remove is atomic). *)
DeletingDistinct ==
  \A t, u \in DeletingThreads : tgt[t] = tgt[u] => t = u

(* An open session outside the table is being deleted or about to be put. *)
OutsideTable ==
  \A h \in Sess : lib[h] = "open" /\ h \notin table =>
    h \in Deleting \/ pc["carrier"] = "su_put"

(* Between IOEX_session_new and add_stream no one else touches the session. *)
SetupOwned ==
  pc["carrier"] \in {"su_put", "su_stream"} =>
    /\ cliSession \in Sess
    /\ lib[cliSession] = "open"
    /\ sst[cliSession] = Raw
    /\ (cliSession \in table <=> pc["carrier"] = "su_stream")
    /\ DeletingThreads = {}

(* When setup calls IOEX_session_new, every open session is being deleted. *)
NewAfterDelete ==
  pc["carrier"] = "su_new" => \A h \in Sess : lib[h] = "open" => h \in Deleting

(* The sessions a callback works on are handles. *)
TargetsTyped ==
  /\ pc["carrier"] \in {"rc_poll", "rc_start"} => tgt["carrier"] \in Sess
  /\ pc["ice"] = "fwd" => tgt["ice"] \in Sess
  /\ pc["ice"] \in {"idle", "fwd", "del_reset", "del_close"}
  /\ ret["ice"] = "idle"
  /\ ret["carrier"] \in {"idle", "su_new", "su_ret"}

IInv ==
  /\ TypeOK
  /\ OneOpen
  /\ TableOpen
  /\ ClosesCount
  /\ UnusedFresh
  /\ DeletingOpen
  /\ DeletingDistinct
  /\ OutsideTable
  /\ SetupOwned
  /\ NewAfterDelete
  /\ TargetsTyped
  /\ ClientTracksSession

=============================================================================
