-------------------------- MODULE PfdClientProofs --------------------------
(***************************************************************************)
(* Proofs about the client mode of the port-forwarding daemon: IInv is    *)
(* an inductive invariant of PfdClient, for every set of session handles. *)
(* It gives ClientTracksSession (no open session is lost by the client)   *)
(* and CloseOnce (IOEX_session_close at most once per session).           *)
(***************************************************************************)
EXTENDS PfdClient, TLAPS

USE NullAssumption

(* The initial state of the daemon and the library is well typed. *)
LEMMA InitTypeOK == Init => TypeOK
<1> SUFFICES ASSUME Init PROVE TypeOK
  OBVIOUS
<1> USE DEF Init, StreamStates, Raw, Failed, Threads, PCs
<1>1. lib \in [Sess -> {"unused", "open", "closed"}]
  OBVIOUS
<1>2. sst \in [Sess -> StreamStates]
  OBVIOUS
<1>3. req \in [Sess -> {"none", "pending", "done"}]
  OBVIOUS
<1>4. started \in [Sess -> BOOLEAN]
  OBVIOUS
<1>5. cliSession \in Sess \cup {NULL} /\ cliStreamid \in {-1, 0, 1}
  OBVIOUS
<1>6. pc \in [Threads -> PCs] /\ ret \in [Threads -> PCs]
  OBVIOUS
<1>7. tgt \in [Threads -> Sess \cup {NULL}]
  OBVIOUS
<1>8. closes \in [Sess -> Nat]
  OBVIOUS
<1>9. QED
  BY <1>1, <1>2, <1>3, <1>4, <1>5, <1>6, <1>7, <1>8 DEF TypeOK

(* Every callback step of either thread keeps the state well typed. *)
LEMMA NextTypeOK == TypeOK /\ [Next]_vars => TypeOK'
<1> SUFFICES ASSUME TypeOK, [Next]_vars PROVE TypeOK'
  OBVIOUS
<1> USE DEF TypeOK, StreamStates, Raw, Initialized, TransportReady,
            Connecting, Connected, Deactivated, Closed, Failed, Threads, PCs
<1>1. CASE carrier_ready
  <2>1. CASE ~isFriend /\ carrier_ready
    BY <2>1 DEF carrier_ready
  <2>2. CASE isFriend /\ carrier_ready
    <3>1. pc' \in [Threads -> PCs] /\ ret' \in [Threads -> PCs]
      BY <2>2 DEF carrier_ready, peer_connection_changed, delete_session
    <3>2. tgt' \in [Threads -> Sess \cup {NULL}] /\ table' \subseteq Sess
      BY <2>2 DEF carrier_ready, peer_connection_changed, delete_session
    <3>3. QED
      BY <2>2, <3>1, <3>2 DEF carrier_ready
  <2>3. QED
    BY <1>1, <2>1, <2>2
<1>2. CASE friend_connection
  BY <1>2 DEF friend_connection, peer_connection_changed, delete_session
<1>3. CASE setup_session_new
  BY <1>3 DEF setup_session_new
<1>4. CASE setup_add_session
  BY <1>4 DEF setup_add_session
<1>5. CASE setup_add_stream
  BY <1>5 DEF setup_add_stream, delete_session
<1>6. CASE setup_add_stream_return
  BY <1>6 DEF setup_add_stream_return
<1>7. CASE session_request_complete
  BY <1>7 DEF session_request_complete
<1>8. CASE session_request_complete_poll
  <2>1. misuse' \in BOOLEAN
    BY <1>8 DEF session_request_complete_poll
  <2>2. pc' \in [Threads -> PCs] /\ ret' \in [Threads -> PCs]
        /\ tgt' \in [Threads -> Sess \cup {NULL}] /\ table' \subseteq Sess
    BY <1>8 DEF session_request_complete_poll, delete_session
  <2>3. QED
    BY <1>8, <2>1, <2>2 DEF session_request_complete_poll
<1>9. CASE session_request_complete_start
  <2>1. misuse' \in BOOLEAN /\ started' \in [Sess -> BOOLEAN]
    BY <1>9 DEF session_request_complete_start
  <2>2. pc' \in [Threads -> PCs] /\ ret' \in [Threads -> PCs]
        /\ tgt' \in [Threads -> Sess \cup {NULL}] /\ table' \subseteq Sess
    BY <1>9 DEF session_request_complete_start, delete_session
  <2>3. QED
    BY <1>9, <2>1, <2>2 DEF session_request_complete_start
<1>10. CASE ice_progress
  BY <1>10 DEF ice_progress, ice_step
<1>11. CASE ice_connected
  BY <1>11 DEF ice_connected, ice_step
<1>12. CASE ice_failed
  BY <1>12 DEF ice_failed, ice_step, delete_session
<1>13. CASE open_port_forwardings
  BY <1>13 DEF open_port_forwardings
<1>14. CASE \E t \in Threads : delete_reset(t) \/ delete_close(t)
  BY <1>14 DEF delete_reset, delete_close
<1>15. CASE server_connection
  BY <1>15 DEF server_connection
<1>16. CASE server_accepts_friend
  BY <1>16 DEF server_accepts_friend
<1>17. CASE UNCHANGED vars
  BY <1>17 DEF vars
<1>18. QED
  BY <1>1, <1>2, <1>3, <1>4, <1>5, <1>6, <1>7, <1>8, <1>9, <1>10, <1>11,
     <1>12, <1>13, <1>14, <1>15, <1>16, <1>17 DEF Next

(* carrier_ready preserves the inductive invariant. *)
LEMMA CarrierReadyIInv ==
  ASSUME IInv, carrier_ready, TypeOK'
  PROVE  IInv'
<1> USE DEF IInv, TypeOK, Threads, Deleting, DeletingThreads
<1>1. OneOpen' /\ TableOpen' /\ ClosesCount' /\ UnusedFresh' /\ OutsideTable'
      /\ SetupOwned' /\ TargetsTyped' /\ ClientTracksSession'
  BY DEF OneOpen, TableOpen, ClosesCount, UnusedFresh, OutsideTable,
         SetupOwned, TargetsTyped, ClientTracksSession,
         carrier_ready, peer_connection_changed, delete_session
<1>2. DeletingOpen'
  BY DEF OneOpen, TableOpen, ClosesCount, UnusedFresh, DeletingOpen,
         DeletingDistinct, OutsideTable, SetupOwned, NewAfterDelete,
         TargetsTyped, ClientTracksSession,
         carrier_ready, peer_connection_changed, delete_session
<1>3. DeletingDistinct'
  BY DEF OneOpen, TableOpen, ClosesCount, UnusedFresh, DeletingOpen,
         DeletingDistinct, OutsideTable, SetupOwned, NewAfterDelete,
         TargetsTyped, ClientTracksSession,
         carrier_ready, peer_connection_changed, delete_session
<1>4. NewAfterDelete'
  BY DEF OneOpen, TableOpen, ClosesCount, UnusedFresh, DeletingOpen,
         DeletingDistinct, OutsideTable, SetupOwned, NewAfterDelete,
         TargetsTyped, ClientTracksSession,
         carrier_ready, peer_connection_changed, delete_session
<1>5. QED
  BY <1>1, <1>2, <1>3, <1>4

(* friend_connection preserves the inductive invariant. *)
LEMMA FriendConnectionIInv ==
  ASSUME IInv, friend_connection, TypeOK'
  PROVE  IInv'
<1> USE DEF IInv, TypeOK, Threads, Deleting, DeletingThreads
<1>1. OneOpen' /\ TableOpen' /\ ClosesCount' /\ UnusedFresh' /\ OutsideTable'
      /\ SetupOwned' /\ TargetsTyped' /\ ClientTracksSession'
  BY DEF OneOpen, TableOpen, ClosesCount, UnusedFresh, OutsideTable,
         SetupOwned, TargetsTyped, ClientTracksSession,
         friend_connection, peer_connection_changed, delete_session
<1>2. DeletingOpen'
  BY DEF OneOpen, TableOpen, ClosesCount, UnusedFresh, DeletingOpen,
         DeletingDistinct, OutsideTable, SetupOwned, NewAfterDelete,
         TargetsTyped, ClientTracksSession,
         friend_connection, peer_connection_changed, delete_session
<1>3. DeletingDistinct'
  BY DEF OneOpen, TableOpen, ClosesCount, UnusedFresh, DeletingOpen,
         DeletingDistinct, OutsideTable, SetupOwned, NewAfterDelete,
         TargetsTyped, ClientTracksSession,
         friend_connection, peer_connection_changed, delete_session
<1>4. NewAfterDelete'
  BY DEF OneOpen, TableOpen, ClosesCount, UnusedFresh, DeletingOpen,
         DeletingDistinct, OutsideTable, SetupOwned, NewAfterDelete,
         TargetsTyped, ClientTracksSession,
         friend_connection, peer_connection_changed, delete_session
<1>5. QED
  BY <1>1, <1>2, <1>3, <1>4

(* setup_session_new preserves the inductive invariant. *)
LEMMA SetupSessionNewIInv ==
  ASSUME IInv, setup_session_new, TypeOK'
  PROVE  IInv'
<1> USE DEF IInv, TypeOK, Threads, Deleting, DeletingThreads
<1>1. OneOpen' /\ TableOpen' /\ ClosesCount' /\ UnusedFresh' /\ DeletingOpen'
      /\ OutsideTable' /\ NewAfterDelete' /\ TargetsTyped'
  BY DEF OneOpen, TableOpen, ClosesCount, UnusedFresh, DeletingOpen,
         OutsideTable, NewAfterDelete, TargetsTyped,
         setup_session_new
<1>2. DeletingDistinct'
  BY DEF OneOpen, TableOpen, ClosesCount, UnusedFresh, DeletingOpen,
         DeletingDistinct, OutsideTable, SetupOwned, NewAfterDelete,
         TargetsTyped, ClientTracksSession,
         setup_session_new
<1>3. SetupOwned'
  BY DEF OneOpen, TableOpen, ClosesCount, UnusedFresh, DeletingOpen,
         DeletingDistinct, OutsideTable, SetupOwned, NewAfterDelete,
         TargetsTyped, ClientTracksSession,
         setup_session_new
<1>4. ClientTracksSession'
  BY DEF OneOpen, TableOpen, ClosesCount, UnusedFresh, DeletingOpen,
         DeletingDistinct, OutsideTable, SetupOwned, NewAfterDelete,
         TargetsTyped, ClientTracksSession,
         setup_session_new
<1>5. QED
  BY <1>1, <1>2, <1>3, <1>4

(* setup_add_session preserves the inductive invariant. *)
LEMMA SetupAddSessionIInv ==
  ASSUME IInv, setup_add_session, TypeOK'
  PROVE  IInv'
<1> USE DEF IInv, TypeOK, Threads, Deleting, DeletingThreads
<1>1. OneOpen' /\ ClosesCount' /\ UnusedFresh' /\ SetupOwned' /\
      NewAfterDelete' /\ TargetsTyped' /\ ClientTracksSession'
  BY DEF OneOpen, ClosesCount, UnusedFresh, SetupOwned, NewAfterDelete,
         TargetsTyped, ClientTracksSession,
         setup_add_session
<1>2. TableOpen'
  BY DEF OneOpen, TableOpen, ClosesCount, UnusedFresh, DeletingOpen,
         DeletingDistinct, OutsideTable, SetupOwned, NewAfterDelete,
         TargetsTyped, ClientTracksSession,
         setup_add_session
<1>3. DeletingOpen'
  BY DEF OneOpen, TableOpen, ClosesCount, UnusedFresh, DeletingOpen,
         DeletingDistinct, OutsideTable, SetupOwned, NewAfterDelete,
         TargetsTyped, ClientTracksSession,
         setup_add_session
<1>4. DeletingDistinct'
  BY DEF OneOpen, TableOpen, ClosesCount, UnusedFresh, DeletingOpen,
         DeletingDistinct, OutsideTable, SetupOwned, NewAfterDelete,
         TargetsTyped, ClientTracksSession,
         setup_add_session
<1>5. OutsideTable'
  BY DEF OneOpen, TableOpen, ClosesCount, UnusedFresh, DeletingOpen,
         DeletingDistinct, OutsideTable, SetupOwned, NewAfterDelete,
         TargetsTyped, ClientTracksSession,
         setup_add_session
<1>6. QED
  BY <1>1, <1>2, <1>3, <1>4, <1>5

(* setup_add_stream preserves the inductive invariant. *)
LEMMA SetupAddStreamIInv ==
  ASSUME IInv, setup_add_stream, TypeOK'
  PROVE  IInv'
<1> USE DEF IInv, TypeOK, Threads, Deleting, DeletingThreads
<1>1. OneOpen' /\ TableOpen' /\ ClosesCount' /\ OutsideTable' /\ SetupOwned' /\
      NewAfterDelete' /\ TargetsTyped' /\ ClientTracksSession'
  BY DEF OneOpen, TableOpen, ClosesCount, OutsideTable, SetupOwned,
         NewAfterDelete, TargetsTyped, ClientTracksSession,
         setup_add_stream, delete_session
<1>2. UnusedFresh'
  BY DEF OneOpen, TableOpen, ClosesCount, UnusedFresh, DeletingOpen,
         DeletingDistinct, OutsideTable, SetupOwned, NewAfterDelete,
         TargetsTyped, ClientTracksSession,
         setup_add_stream, delete_session
<1>3. DeletingOpen'
  BY DEF OneOpen, TableOpen, ClosesCount, UnusedFresh, DeletingOpen,
         DeletingDistinct, OutsideTable, SetupOwned, NewAfterDelete,
         TargetsTyped, ClientTracksSession,
         setup_add_stream, delete_session
<1>4. DeletingDistinct'
  BY DEF OneOpen, TableOpen, ClosesCount, UnusedFresh, DeletingOpen,
         DeletingDistinct, OutsideTable, SetupOwned, NewAfterDelete,
         TargetsTyped, ClientTracksSession,
         setup_add_stream, delete_session
<1>5. QED
  BY <1>1, <1>2, <1>3, <1>4

(* setup_add_stream_return preserves the inductive invariant. *)
LEMMA SetupAddStreamReturnIInv ==
  ASSUME IInv, setup_add_stream_return, TypeOK'
  PROVE  IInv'
<1> USE DEF IInv, TypeOK, Threads, Deleting, DeletingThreads
<1>1. OneOpen' /\ TableOpen' /\ ClosesCount' /\ UnusedFresh' /\ DeletingOpen'
      /\ OutsideTable' /\ SetupOwned' /\ NewAfterDelete' /\ TargetsTyped' /\
      ClientTracksSession'
  BY DEF OneOpen, TableOpen, ClosesCount, UnusedFresh, DeletingOpen,
         OutsideTable, SetupOwned, NewAfterDelete, TargetsTyped,
         ClientTracksSession,
         setup_add_stream_return
<1>2. DeletingDistinct'
  BY DEF OneOpen, TableOpen, ClosesCount, UnusedFresh, DeletingOpen,
         DeletingDistinct, OutsideTable, SetupOwned, NewAfterDelete,
         TargetsTyped, ClientTracksSession,
         setup_add_stream_return
<1>3. QED
  BY <1>1, <1>2

(* session_request_complete preserves the inductive invariant. *)
LEMMA RequestCompleteIInv ==
  ASSUME IInv, session_request_complete, TypeOK'
  PROVE  IInv'
<1> USE DEF IInv, TypeOK, Threads, Deleting, DeletingThreads
<1>1. OneOpen' /\ TableOpen' /\ ClosesCount' /\ UnusedFresh' /\ DeletingOpen'
      /\ OutsideTable' /\ SetupOwned' /\ NewAfterDelete' /\ TargetsTyped' /\
      ClientTracksSession'
  BY DEF OneOpen, TableOpen, ClosesCount, UnusedFresh, DeletingOpen,
         OutsideTable, SetupOwned, NewAfterDelete, TargetsTyped,
         ClientTracksSession,
         session_request_complete
<1>2. DeletingDistinct'
  BY DEF OneOpen, TableOpen, ClosesCount, UnusedFresh, DeletingOpen,
         DeletingDistinct, OutsideTable, SetupOwned, NewAfterDelete,
         TargetsTyped, ClientTracksSession,
         session_request_complete
<1>3. QED
  BY <1>1, <1>2

(* session_request_complete_poll preserves the inductive invariant. *)
LEMMA RequestCompletePollIInv ==
  ASSUME IInv, session_request_complete_poll, TypeOK'
  PROVE  IInv'
<1> USE DEF IInv, TypeOK, Threads, Deleting, DeletingThreads
<1>1. OneOpen' /\ TableOpen' /\ ClosesCount' /\ UnusedFresh' /\ OutsideTable'
      /\ SetupOwned' /\ NewAfterDelete' /\ TargetsTyped' /\
      ClientTracksSession'
  BY DEF OneOpen, TableOpen, ClosesCount, UnusedFresh, OutsideTable,
         SetupOwned, NewAfterDelete, TargetsTyped, ClientTracksSession,
         session_request_complete_poll, delete_session
<1>2. DeletingOpen'
  BY DEF OneOpen, TableOpen, ClosesCount, UnusedFresh, DeletingOpen,
         DeletingDistinct, OutsideTable, SetupOwned, NewAfterDelete,
         TargetsTyped, ClientTracksSession,
         session_request_complete_poll, delete_session
<1>3. DeletingDistinct'
  BY DEF OneOpen, TableOpen, ClosesCount, UnusedFresh, DeletingOpen,
         DeletingDistinct, OutsideTable, SetupOwned, NewAfterDelete,
         TargetsTyped, ClientTracksSession,
         session_request_complete_poll, delete_session
<1>4. QED
  BY <1>1, <1>2, <1>3

(* session_request_complete_start preserves the inductive invariant. *)
LEMMA RequestCompleteStartIInv ==
  ASSUME IInv, session_request_complete_start, TypeOK'
  PROVE  IInv'
<1> USE DEF IInv, TypeOK, Threads, Deleting, DeletingThreads
<1>1. OneOpen' /\ TableOpen' /\ ClosesCount' /\ UnusedFresh' /\ OutsideTable'
      /\ SetupOwned' /\ NewAfterDelete' /\ TargetsTyped' /\
      ClientTracksSession'
  BY DEF OneOpen, TableOpen, ClosesCount, UnusedFresh, OutsideTable,
         SetupOwned, NewAfterDelete, TargetsTyped, ClientTracksSession,
         session_request_complete_start, delete_session
<1>2. DeletingOpen'
  BY DEF OneOpen, TableOpen, ClosesCount, UnusedFresh, DeletingOpen,
         DeletingDistinct, OutsideTable, SetupOwned, NewAfterDelete,
         TargetsTyped, ClientTracksSession,
         session_request_complete_start, delete_session
<1>3. DeletingDistinct'
  BY DEF OneOpen, TableOpen, ClosesCount, UnusedFresh, DeletingOpen,
         DeletingDistinct, OutsideTable, SetupOwned, NewAfterDelete,
         TargetsTyped, ClientTracksSession,
         session_request_complete_start, delete_session
<1>4. QED
  BY <1>1, <1>2, <1>3

(* ice_progress preserves the inductive invariant. *)
LEMMA IceProgressIInv ==
  ASSUME IInv, ice_progress, TypeOK'
  PROVE  IInv'
<1> USE DEF IInv, TypeOK, Threads, Deleting, DeletingThreads
<1>1. OneOpen' /\ TableOpen' /\ ClosesCount' /\ UnusedFresh' /\ DeletingOpen'
      /\ OutsideTable' /\ NewAfterDelete' /\ TargetsTyped' /\
      ClientTracksSession'
  BY DEF OneOpen, TableOpen, ClosesCount, UnusedFresh, DeletingOpen,
         OutsideTable, NewAfterDelete, TargetsTyped, ClientTracksSession,
         ice_progress, ice_step
<1>2. DeletingDistinct'
  BY DEF OneOpen, TableOpen, ClosesCount, UnusedFresh, DeletingOpen,
         DeletingDistinct, OutsideTable, SetupOwned, NewAfterDelete,
         TargetsTyped, ClientTracksSession,
         ice_progress, ice_step
<1>3. SetupOwned'
  <2> SUFFICES ASSUME pc'["carrier"] \in {"su_put", "su_stream"}
               PROVE  SetupOwned'
    BY DEF SetupOwned
  <2>1. PICK h \in Sess : /\ sst[h] \in {Initialized, TransportReady}
                         /\ ice_step(h, sst'[h])
    BY DEF ice_progress, ice_step, StreamStates, Raw, Failed
  <2>2. pc["carrier"] \in {"su_put", "su_stream"}
    BY DEF ice_progress
  <2>3. h # cliSession
    BY <2>1, <2>2 DEF SetupOwned, Initialized, TransportReady, Raw
  <2>4. sst'[cliSession] = sst[cliSession]
    BY <2>1, <2>2, <2>3 DEF ice_step, SetupOwned
  <2>5. QED
    BY <2>2, <2>4 DEF SetupOwned, ice_progress
<1>4. QED
  BY <1>1, <1>2, <1>3

(* ice_connected preserves the inductive invariant. *)
LEMMA IceConnectedIInv ==
  ASSUME IInv, ice_connected, TypeOK'
  PROVE  IInv'
<1> USE DEF IInv, TypeOK, Threads, Deleting, DeletingThreads
<1>1. OneOpen' /\ TableOpen' /\ ClosesCount' /\ UnusedFresh' /\ DeletingOpen'
      /\ OutsideTable' /\ NewAfterDelete' /\ TargetsTyped' /\
      ClientTracksSession'
  BY DEF OneOpen, TableOpen, ClosesCount, UnusedFresh, DeletingOpen,
         OutsideTable, NewAfterDelete, TargetsTyped, ClientTracksSession,
         ice_connected, ice_step
<1>2. DeletingDistinct'
  BY DEF OneOpen, TableOpen, ClosesCount, UnusedFresh, DeletingOpen,
         DeletingDistinct, OutsideTable, SetupOwned, NewAfterDelete,
         TargetsTyped, ClientTracksSession,
         ice_connected, ice_step
<1>3. SetupOwned'
  <2> SUFFICES ASSUME pc'["carrier"] \in {"su_put", "su_stream"}
               PROVE  SetupOwned'
    BY DEF SetupOwned
  <2>1. PICK h \in Sess : /\ sst[h] = Connecting
                         /\ ice_step(h, Connected)
                         /\ pc' = [pc EXCEPT !["ice"] = "fwd"]
                         /\ tgt' = [tgt EXCEPT !["ice"] = h]
    BY DEF ice_connected
  <2>2. pc["carrier"] \in {"su_put", "su_stream"}
    BY <2>1
  <2>3. h # cliSession
    BY <2>1, <2>2 DEF SetupOwned, Connecting, Raw
  <2>4. sst'[cliSession] = sst[cliSession]
    BY <2>1, <2>2, <2>3 DEF ice_step, SetupOwned
  <2>5. DeletingThreads' = {}
    BY <2>1, <2>2 DEF SetupOwned
  <2>6. QED
    BY <2>1, <2>2, <2>4, <2>5 DEF SetupOwned, ice_connected
<1>4. QED
  BY <1>1, <1>2, <1>3

(* ice_failed preserves the inductive invariant. *)
LEMMA IceFailedIInv ==
  ASSUME IInv, ice_failed, TypeOK'
  PROVE  IInv'
<1> USE DEF IInv, TypeOK, Threads, Deleting, DeletingThreads
<1>1. OneOpen' /\ TableOpen' /\ ClosesCount' /\ UnusedFresh' /\ DeletingOpen'
      /\ OutsideTable' /\ NewAfterDelete' /\ TargetsTyped' /\
      ClientTracksSession'
  BY DEF OneOpen, TableOpen, ClosesCount, UnusedFresh, DeletingOpen,
         OutsideTable, NewAfterDelete, TargetsTyped, ClientTracksSession,
         ice_failed, ice_step, delete_session
<1>2. DeletingDistinct'
  BY DEF OneOpen, TableOpen, ClosesCount, UnusedFresh, DeletingOpen,
         DeletingDistinct, OutsideTable, SetupOwned, NewAfterDelete,
         TargetsTyped, ClientTracksSession,
         ice_failed, ice_step, delete_session
<1>3. SetupOwned'
  <2> SUFFICES ASSUME pc'["carrier"] \in {"su_put", "su_stream"}
               PROVE  SetupOwned'
    BY DEF SetupOwned
  <2>1. PICK h \in Sess : /\ sst[h] \in Initialized .. Connected
                         /\ req[h] # "none"
                         /\ ice_step(h, Failed)
                         /\ delete_session("ice", h, "idle")
    BY DEF ice_failed
  <2>2. pc["carrier"] \in {"su_put", "su_stream"}
    BY <2>1 DEF delete_session
  <2>3. h # cliSession
    BY <2>1, <2>2 DEF SetupOwned, Initialized, Connected, Raw
  <2>4. h \notin table
    BY <2>1, <2>2, <2>3 DEF SetupOwned, OneOpen, TableOpen, ice_step
  <2>5. pc' = pc /\ table' = table
    BY <2>1, <2>4 DEF delete_session, ice_step
  <2>6. sst'[cliSession] = sst[cliSession]
    BY <2>1, <2>2, <2>3 DEF ice_step, SetupOwned
  <2>7. QED
    BY <2>1, <2>2, <2>5, <2>6 DEF SetupOwned, ice_failed
<1>4. QED
  BY <1>1, <1>2, <1>3

(* open_port_forwardings preserves the inductive invariant. *)
LEMMA OpenPortForwardingsIInv ==
  ASSUME IInv, open_port_forwardings, TypeOK'
  PROVE  IInv'
<1> USE DEF IInv, TypeOK, Threads, Deleting, DeletingThreads
<1>1. OneOpen' /\ TableOpen' /\ ClosesCount' /\ UnusedFresh' /\ DeletingOpen'
      /\ OutsideTable' /\ SetupOwned' /\ NewAfterDelete' /\ TargetsTyped' /\
      ClientTracksSession'
  BY DEF OneOpen, TableOpen, ClosesCount, UnusedFresh, DeletingOpen,
         OutsideTable, SetupOwned, NewAfterDelete, TargetsTyped,
         ClientTracksSession,
         open_port_forwardings
<1>2. DeletingDistinct'
  BY DEF OneOpen, TableOpen, ClosesCount, UnusedFresh, DeletingOpen,
         DeletingDistinct, OutsideTable, SetupOwned, NewAfterDelete,
         TargetsTyped, ClientTracksSession,
         open_port_forwardings
<1>3. QED
  BY <1>1, <1>2

(* delete_reset(t) preserves the inductive invariant. *)
LEMMA DeleteResetIInv ==
  ASSUME IInv, NEW t \in Threads, delete_reset(t), TypeOK'
  PROVE  IInv'
<1> USE DEF IInv, TypeOK, Threads, Deleting, DeletingThreads
<1>1. OneOpen' /\ TableOpen' /\ ClosesCount' /\ UnusedFresh' /\ DeletingOpen'
      /\ OutsideTable' /\ SetupOwned' /\ NewAfterDelete' /\ TargetsTyped'
  BY DEF OneOpen, TableOpen, ClosesCount, UnusedFresh, DeletingOpen,
         OutsideTable, SetupOwned, NewAfterDelete, TargetsTyped,
         delete_reset
<1>2. DeletingDistinct'
  BY DEF OneOpen, TableOpen, ClosesCount, UnusedFresh, DeletingOpen,
         DeletingDistinct, OutsideTable, SetupOwned, NewAfterDelete,
         TargetsTyped, ClientTracksSession,
         delete_reset
<1>3. ClientTracksSession'
  BY DEF OneOpen, TableOpen, ClosesCount, UnusedFresh, DeletingOpen,
         DeletingDistinct, OutsideTable, SetupOwned, NewAfterDelete,
         TargetsTyped, ClientTracksSession,
         delete_reset
<1>4. QED
  BY <1>1, <1>2, <1>3

(* delete_close(t) preserves the inductive invariant. *)
LEMMA DeleteCloseIInv ==
  ASSUME IInv, NEW t \in Threads, delete_close(t), TypeOK'
  PROVE  IInv'
<1> USE DEF IInv, TypeOK, Threads, Deleting, DeletingThreads
<1>1. OneOpen' /\ UnusedFresh' /\ OutsideTable' /\ TargetsTyped' /\
      ClientTracksSession'
  BY DEF OneOpen, UnusedFresh, OutsideTable, TargetsTyped, ClientTracksSession,
         delete_close
<1>2. TableOpen'
  BY DEF OneOpen, TableOpen, ClosesCount, UnusedFresh, DeletingOpen,
         DeletingDistinct, OutsideTable, SetupOwned, NewAfterDelete,
         TargetsTyped, ClientTracksSession,
         delete_close
<1>3. ClosesCount'
  BY DEF OneOpen, TableOpen, ClosesCount, UnusedFresh, DeletingOpen,
         DeletingDistinct, OutsideTable, SetupOwned, NewAfterDelete,
         TargetsTyped, ClientTracksSession,
         delete_close
<1>4. DeletingOpen'
  BY DEF OneOpen, TableOpen, ClosesCount, UnusedFresh, DeletingOpen,
         DeletingDistinct, OutsideTable, SetupOwned, NewAfterDelete,
         TargetsTyped, ClientTracksSession,
         delete_close
<1>5. DeletingDistinct'
  BY DEF OneOpen, TableOpen, ClosesCount, UnusedFresh, DeletingOpen,
         DeletingDistinct, OutsideTable, SetupOwned, NewAfterDelete,
         TargetsTyped, ClientTracksSession,
         delete_close
<1>6. SetupOwned'
  BY DEF OneOpen, TableOpen, ClosesCount, UnusedFresh, DeletingOpen,
         DeletingDistinct, OutsideTable, SetupOwned, NewAfterDelete,
         TargetsTyped, ClientTracksSession,
         delete_close
<1>7. NewAfterDelete'
  BY DEF OneOpen, TableOpen, ClosesCount, UnusedFresh, DeletingOpen,
         DeletingDistinct, OutsideTable, SetupOwned, NewAfterDelete,
         TargetsTyped, ClientTracksSession,
         delete_close
<1>8. QED
  BY <1>1, <1>2, <1>3, <1>4, <1>5, <1>6, <1>7

(* server_connection preserves the inductive invariant. *)
LEMMA ServerConnectionIInv ==
  ASSUME IInv, server_connection, TypeOK'
  PROVE  IInv'
<1> USE DEF IInv, TypeOK, Threads, Deleting, DeletingThreads
<1>1. OneOpen' /\ TableOpen' /\ ClosesCount' /\ UnusedFresh' /\ DeletingOpen'
      /\ OutsideTable' /\ SetupOwned' /\ NewAfterDelete' /\ TargetsTyped' /\
      ClientTracksSession'
  BY DEF OneOpen, TableOpen, ClosesCount, UnusedFresh, DeletingOpen,
         OutsideTable, SetupOwned, NewAfterDelete, TargetsTyped,
         ClientTracksSession,
         server_connection
<1>2. DeletingDistinct'
  BY DEF OneOpen, TableOpen, ClosesCount, UnusedFresh, DeletingOpen,
         DeletingDistinct, OutsideTable, SetupOwned, NewAfterDelete,
         TargetsTyped, ClientTracksSession,
         server_connection
<1>3. QED
  BY <1>1, <1>2

(* server_accepts_friend preserves the inductive invariant. *)
LEMMA ServerAcceptsFriendIInv ==
  ASSUME IInv, server_accepts_friend, TypeOK'
  PROVE  IInv'
<1> USE DEF IInv, TypeOK, Threads, Deleting, DeletingThreads
<1>1. OneOpen' /\ TableOpen' /\ ClosesCount' /\ UnusedFresh' /\ DeletingOpen'
      /\ OutsideTable' /\ SetupOwned' /\ NewAfterDelete' /\ TargetsTyped' /\
      ClientTracksSession'
  BY DEF OneOpen, TableOpen, ClosesCount, UnusedFresh, DeletingOpen,
         OutsideTable, SetupOwned, NewAfterDelete, TargetsTyped,
         ClientTracksSession,
         server_accepts_friend
<1>2. DeletingDistinct'
  BY DEF OneOpen, TableOpen, ClosesCount, UnusedFresh, DeletingOpen,
         DeletingDistinct, OutsideTable, SetupOwned, NewAfterDelete,
         TargetsTyped, ClientTracksSession,
         server_accepts_friend
<1>3. QED
  BY <1>1, <1>2

(* In the initial state no session exists and no thread is deleting. *)
LEMMA InitIInv == Init => IInv
<1> SUFFICES ASSUME Init PROVE IInv
  OBVIOUS
<1>1. TypeOK
  BY InitTypeOK
<1>2. DeletingThreads = {}
  BY DEF Init, DeletingThreads, Threads
<1>3. Deleting = {}
  BY <1>2 DEF Deleting, DeletingThreads
<1>4. \A h \in Sess : lib[h] = "unused"
  BY DEF Init
<1>5. QED
  BY <1>1, <1>2, <1>3, <1>4
  DEF Init, IInv, OneOpen, TableOpen, ClosesCount, UnusedFresh, DeletingOpen,
      DeletingDistinct, OutsideTable, SetupOwned, NewAfterDelete,
      TargetsTyped, ClientTracksSession, Threads

(***************************************************************************)
(* IInv is inductive: every step of either thread, and every stutter,     *)
(* keeps it.  Its conjuncts beyond ClientTracksSession say why the ICE    *)
(* thread's reset of cli_session cannot hit a session set up later: at    *)
(* most one session is open (the library refuses a second), it is in the  *)
(* table unless being set up or deleted, and delete_session removes the   *)
(* entry atomically before it resets the globals.                         *)
(***************************************************************************)
THEOREM IInvInductive == IInv /\ [Next]_vars => IInv'
<1> SUFFICES ASSUME IInv, [Next]_vars PROVE IInv'
  OBVIOUS
<1>0. TypeOK'
  BY NextTypeOK DEF IInv
<1>1. CASE carrier_ready
  BY <1>0, <1>1, CarrierReadyIInv
<1>2. CASE friend_connection
  BY <1>0, <1>2, FriendConnectionIInv
<1>3. CASE setup_session_new
  BY <1>0, <1>3, SetupSessionNewIInv
<1>4. CASE setup_add_session
  BY <1>0, <1>4, SetupAddSessionIInv
<1>5. CASE setup_add_stream
  BY <1>0, <1>5, SetupAddStreamIInv
<1>6. CASE setup_add_stream_return
  BY <1>0, <1>6, SetupAddStreamReturnIInv
<1>7. CASE session_request_complete
  BY <1>0, <1>7, RequestCompleteIInv
<1>8. CASE session_request_complete_poll
  BY <1>0, <1>8, RequestCompletePollIInv
<1>9. CASE session_request_complete_start
  BY <1>0, <1>9, RequestCompleteStartIInv
<1>10. CASE ice_progress
  BY <1>0, <1>10, IceProgressIInv
<1>11. CASE ice_connected
  BY <1>0, <1>11, IceConnectedIInv
<1>12. CASE ice_failed
  BY <1>0, <1>12, IceFailedIInv
<1>13. CASE open_port_forwardings
  BY <1>0, <1>13, OpenPortForwardingsIInv
<1>14. CASE server_connection
  BY <1>0, <1>14, ServerConnectionIInv
<1>15. CASE server_accepts_friend
  BY <1>0, <1>15, ServerAcceptsFriendIInv
<1>16. CASE \E t \in Threads : delete_reset(t) \/ delete_close(t)
  BY <1>0, <1>16, DeleteResetIInv, DeleteCloseIInv
<1>17. CASE UNCHANGED vars
  BY <1>17
  DEF vars, IInv, TypeOK, OneOpen, TableOpen, ClosesCount, UnusedFresh,
      DeletingOpen, DeletingDistinct, OutsideTable, SetupOwned,
      NewAfterDelete, TargetsTyped, ClientTracksSession, Deleting,
      DeletingThreads
<1>18. QED
  BY <1>1, <1>2, <1>3, <1>4, <1>5, <1>6, <1>7, <1>8, <1>9, <1>10, <1>11, <1>12, <1>13, <1>14, <1>15, <1>16, <1>17 DEF Next

(* IInv holds in every reachable state of the daemon. *)
THEOREM IInvInvariant == Spec => []IInv
BY InitIInv, IInvInductive, PTL DEF Spec

(* Every reachable state is well typed. *)
THEOREM TypeCorrect == Spec => []TypeOK
<1>1. IInv => TypeOK
  BY DEF IInv
<1>2. QED
  BY <1>1, IInvInvariant, PTL

(***************************************************************************)
(* For any number of session handles, every session open in the library  *)
(* is cli_session or is being deleted: the ICE thread's failed-stream     *)
(* delete_session never makes the client lose its session.                *)
(***************************************************************************)
THEOREM ClientTracksSessionInvariant == Spec => []ClientTracksSession
<1>1. IInv => ClientTracksSession
  BY DEF IInv
<1>2. QED
  BY <1>1, IInvInvariant, PTL

(***************************************************************************)
(* For any number of session handles, IOEX_session_close is called at     *)
(* most once per session, whichever threads call delete_session on it.    *)
(***************************************************************************)
THEOREM CloseOnceInvariant == Spec => []CloseOnce
<1>1. IInv => CloseOnce
  <2> SUFFICES ASSUME IInv, NEW h \in Sess PROVE closes[h] <= 1
    BY DEF CloseOnce
  <2>1. closes[h] \in {0, 1}
    BY DEF IInv, ClosesCount
  <2>2. QED
    BY <2>1
<1>2. QED
  BY <1>1, IInvInvariant, PTL


-----------------------------------------------------------------------------
(***************************************************************************)
(* What cli_session names.  A non-NULL cli_session is an open session, and *)
(* a thread that reset the globals and is about to close its session no   *)
(* longer finds it in cli_session.  With OneOpen this pins the session a  *)
(* reset can clear to the one the resetting thread removed.               *)
(***************************************************************************)
CliInv ==
  /\ cliSession # NULL => lib[cliSession] = "open"
  /\ \A t \in Threads : pc[t] = "del_close" => cliSession # tgt[t]

(* A step that leaves lib and cli_session alone and brings no thread to  *)
(* the close step keeps CliInv.                                          *)
LEMMA FrameCliInv ==
  ASSUME IInv, CliInv, UNCHANGED <<lib, cliSession>>,
         \A t \in Threads : pc'[t] = "del_close" =>
                              pc[t] = "del_close" /\ tgt'[t] = tgt[t]
  PROVE  CliInv'
BY DEF CliInv

(* delete_session's first step never brings a thread to the close step. *)
LEMMA DeleteSessionNoClose ==
  ASSUME TypeOK, NEW t \in Threads, NEW ws, NEW next \in PCs,
         next # "del_close", pc[t] # "del_close", delete_session(t, ws, next)
  PROVE  \A u \in Threads : pc'[u] = "del_close" =>
                              pc[u] = "del_close" /\ tgt'[u] = tgt[u]
BY DEF delete_session, TypeOK

(* No session exists initially. *)
LEMMA InitCliInv == Init => CliInv
BY DEF Init, CliInv, Threads

(* Every step keeps CliInv, given IInv. *)
LEMMA NextCliInv == IInv /\ CliInv /\ [Next]_vars => CliInv'
<1> SUFFICES ASSUME IInv, CliInv, [Next]_vars PROVE CliInv'
  OBVIOUS
<1> USE DEF IInv, TypeOK, Threads, PCs
<1>1. CASE carrier_ready
  <2>1. pc["carrier"] = "idle" /\ UNCHANGED <<lib, cliSession>>
    BY <1>1 DEF carrier_ready
  <2>2. CASE ~isFriend
    BY <1>1, <2>1, <2>2, FrameCliInv DEF carrier_ready
  <2>3. CASE isFriend
    BY <1>1, <2>1, <2>3, FrameCliInv, DeleteSessionNoClose
    DEF carrier_ready, peer_connection_changed
  <2>4. QED
    BY <2>2, <2>3
<1>2. CASE friend_connection
  BY <1>2, FrameCliInv, DeleteSessionNoClose
  DEF friend_connection, peer_connection_changed
<1>3. CASE setup_session_new
  <2>0. UNCHANGED tgt
    BY <1>3 DEF setup_session_new
  <2>1. CASE \A s \in Sess : lib[s] # "open"
    <3>1. /\ \E h \in Sess :
               /\ lib[h] = "unused"
               /\ lib' = [lib EXCEPT ![h] = "open"]
               /\ cliSession' = h
          /\ pc' = [pc EXCEPT !["carrier"] = "su_put"]
      BY <1>3, <2>1 DEF setup_session_new
    <3>2. PICK h \in Sess :
            /\ lib[h] = "unused"
            /\ lib' = [lib EXCEPT ![h] = "open"]
            /\ cliSession' = h
      BY <3>1
    <3>3. \A t \in Threads : pc[t] # "del_close"
      BY <2>1 DEF DeletingOpen, DeletingThreads
    <3>4. \A t \in Threads : pc'[t] # "del_close"
      BY <3>1, <3>3
    <3>5. QED
      BY <3>2, <3>4 DEF CliInv
  <2>2. CASE \E s \in Sess : lib[s] = "open"
    <3>1. /\ cliSession' = NULL /\ UNCHANGED lib
          /\ pc' = [pc EXCEPT !["carrier"] = "idle"]
      BY <1>3, <2>2 DEF setup_session_new
    <3>2. \A t \in Threads : pc'[t] = "del_close" => tgt'[t] \in Sess
      BY <2>0, <3>1 DEF DeletingOpen, DeletingThreads
    <3>3. QED
      BY <3>1, <3>2, NullAssumption DEF CliInv
  <2>3. QED
    BY <2>1, <2>2
<1>4. CASE setup_add_session
  BY <1>4, FrameCliInv DEF setup_add_session
<1>5. CASE setup_add_stream
  <2>1. CASE online
    BY <1>5, <2>1, FrameCliInv DEF setup_add_stream
  <2>2. CASE ~online
    BY <1>5, <2>2, FrameCliInv, DeleteSessionNoClose DEF setup_add_stream
  <2>3. QED
    BY <2>1, <2>2
<1>6. CASE setup_add_stream_return
  BY <1>6, FrameCliInv DEF setup_add_stream_return
<1>7. CASE session_request_complete
  BY <1>7, FrameCliInv DEF session_request_complete
<1>8. CASE session_request_complete_poll
  BY <1>8, FrameCliInv, DeleteSessionNoClose DEF session_request_complete_poll
<1>9. CASE session_request_complete_start
  BY <1>9, FrameCliInv, DeleteSessionNoClose DEF session_request_complete_start
<1>10. CASE ice_progress
  BY <1>10, FrameCliInv DEF ice_progress
<1>11. CASE ice_connected
  BY <1>11, FrameCliInv DEF ice_connected, ice_step
<1>12. CASE ice_failed
  <2>1. pc["ice"] = "idle" /\ UNCHANGED <<lib, cliSession>>
    BY <1>12 DEF ice_failed, ice_step
  <2>2. PICK h \in Sess : delete_session("ice", h, "idle")
    BY <1>12 DEF ice_failed
  <2>3. QED
    BY <2>1, <2>2, FrameCliInv, DeleteSessionNoClose
<1>13. CASE open_port_forwardings
  BY <1>13, FrameCliInv DEF open_port_forwardings
<1>14. CASE server_connection
  BY <1>14, FrameCliInv DEF server_connection
<1>15. CASE server_accepts_friend
  BY <1>15, FrameCliInv DEF server_accepts_friend
<1>16. ASSUME NEW t \in Threads, delete_reset(t) PROVE CliInv'
  BY <1>16, NullAssumption DEF delete_reset, CliInv, DeletingOpen,
     DeletingThreads
<1>17. ASSUME NEW t \in Threads, delete_close(t) PROVE CliInv'
  <2> DEFINE ws == tgt[t]
  <2>1. ws \in Sess /\ cliSession # ws
    BY <1>17 DEF delete_close, CliInv, DeletingOpen, DeletingThreads
  <2>2. lib' = [lib EXCEPT ![ws] = "closed"] /\ UNCHANGED <<cliSession, tgt>>
        /\ pc' = [pc EXCEPT ![t] = ret[t]] /\ ret[t] # "del_close"
    BY <1>17 DEF delete_close, TargetsTyped
  <2>3. QED
    BY <2>1, <2>2 DEF CliInv
<1>18. CASE UNCHANGED vars
  BY <1>18 DEF vars, CliInv
<1>19. QED
  BY <1>1, <1>2, <1>3, <1>4, <1>5, <1>6, <1>7, <1>8, <1>9, <1>10, <1>11,
     <1>12, <1>13, <1>14, <1>15, <1>16, <1>17, <1>18 DEF Next

(***************************************************************************)
(* For any number of session handles, delete_session's reset of           *)
(* cli_session (pfd.c, client mode) only ever clears NULL or the session *)
(* the resetting thread removed: the ICE thread deleting a failed session *)
(* never wipes a newer session setup_portforwardings stored.             *)
(***************************************************************************)
THEOREM ResetOwnSessionProperty == Spec => ResetOwnSession
<1>1. Spec => [](IInv /\ CliInv)
  <2>1. Init => IInv /\ CliInv
    BY InitIInv, InitCliInv
  <2>2. IInv /\ CliInv /\ [Next]_vars => IInv' /\ CliInv'
    BY IInvInductive, NextCliInv
  <2>3. QED
    BY <2>1, <2>2, PTL DEF Spec
<1>2. IInv /\ CliInv =>
        \A t \in Threads : delete_reset(t) => cliSession \in {NULL, tgt[t]}
  <2> SUFFICES ASSUME IInv, CliInv, NEW t \in Threads, delete_reset(t),
                      cliSession # NULL
               PROVE  cliSession = tgt[t]
    OBVIOUS
  <2>1. tgt[t] \in Sess /\ lib[tgt[t]] = "open"
    BY DEF delete_reset, IInv, DeletingOpen, DeletingThreads
  <2>2. cliSession \in Sess /\ lib[cliSession] = "open"
    BY DEF CliInv, IInv, TypeOK
  <2>3. QED
    BY <2>1, <2>2 DEF IInv, OneOpen
<1>3. QED
  BY <1>1, <1>2, PTL DEF Spec, ResetOwnSession
=============================================================================
