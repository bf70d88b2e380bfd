-------------------------------- MODULE Dht --------------------------------
(***************************************************************************)
(* The identity-overlay glue src/src/carrier/dht/dht.c: the tables that   *)
(* map the overlay library's (tox) error codes to the carrier's           *)
(* (facility, kind) errors, the dht_* wrappers that call tox and return   *)
(* the mapped code, and the dispatch of tox callbacks to the carrier.     *)
(*                                                                         *)
(* A tox call's outcome is a nondeterministic choice among the codes its  *)
(* error type names, plus one code no case names (the switch's default).  *)
(* A file transfer's controls come from the peer, which drives its side   *)
(* through the same wrappers; whether tox accepts a control is taken from *)
(* the error codes tox returns for it (NOT_PAUSED, ALREADY_PAUSED,        *)
(* NOT_FOUND), the state kept by tox itself being outside the repository. *)
(***************************************************************************)
EXTENDS Naturals, Sequences, FiniteSets, FiniteSetsExt, DhtErrors

CONSTANTS
  MaxFriends    \* friends in tox's friend list when dht_get_friends runs

ASSUME MaxFriendsAssumption == MaxFriends \in Nat

VARIABLES
  call,       \* the dht_* wrapper that ran last
  toxRes,     \* the codes of the tox calls it made, in order
  rc,         \* what it returned
  listSize,   \* dht_get_friends: friends in the list
  listed,     \* dht_get_friends: friends passed to the callback
  stopped,    \* dht_get_friends: the callback asked to stop
  online      \* the carrier's view of a friend's connection

vars == <<call, toxRes, rc, listSize, listed, stopped, online>>

-----------------------------------------------------------------------------
Transfer == <<listSize, listed, stopped>>

(***************************************************************************)
(* A wrapper making one tox call: it returns the mapped code when the     *)
(* call reports an error and 0 otherwise.                                 *)
(***************************************************************************)
OneCall(name, map) ==
  \E e \in DOMAIN map :
    /\ call' = name
    /\ toxRes' = <<e>>
    /\ rc' = IF e # "OK" THEN map[e] ELSE Success
    /\ UNCHANGED <<Transfer, online>>

dht_new == OneCall("new", dht_new_error)
dht_self_set_name == OneCall("self_set_name", dht_set_info_error)
dht_self_set_desc == OneCall("self_set_desc", dht_set_info_error)
dht_get_friend_number == OneCall("get_friend_number", dht_friend_by_pk_error)
dht_friend_add == OneCall("friend_add", dht_friend_add_error)
dht_friend_add_norequest == OneCall("friend_add_norequest", dht_friend_add_error)
dht_friend_message == OneCall("friend_message", dht_friend_send_msg_error)
dht_file_send_seek == OneCall("file_send_seek", dht_file_seek_error)
dht_file_send_chunk == OneCall("file_send_chunk", dht_file_send_chunk_error)

(* Mutant: the failure of tox_friend_delete is ignored. *)
dht_friend_delete_unchecked ==
  \E e \in DOMAIN dht_friend_delete_error :
    /\ call' = "friend_delete"
    /\ toxRes' = <<e>>
    /\ rc' = Success
    /\ UNCHANGED <<Transfer, online>>

dht_friend_delete == OneCall("friend_delete", dht_friend_delete_error)

(* The tox calls dht_bootstrap makes: bootstrap and relay, IPv4 then IPv6. *)
BootstrapSteps(has4, has6) ==
  (IF has4 THEN <<"bootstrap4", "relay4">> ELSE <<>>) \o
  (IF has6 THEN <<"bootstrap6", "relay6">> ELSE <<>>)

(***************************************************************************)
(* dht_bootstrap: at least one address is given; each tox call in turn,   *)
(* returning the mapped error of the first that fails (the nodes tox took *)
(* before it stay taken).                                                 *)
(***************************************************************************)
dht_bootstrap ==
  \E has4, has6 \in BOOLEAN :
    /\ has4 \/ has6
    /\ LET steps == BootstrapSteps(has4, has6) IN
       \E res \in [1 .. Len(steps) -> DOMAIN dht_bootstrap_error] :
         LET failed == {i \in DOMAIN res : res[i] # "OK"}
             last == IF failed = {} THEN Len(steps) ELSE Min(failed)
         IN /\ call' = "bootstrap"
            /\ toxRes' = SubSeq(res, 1, last)
            /\ rc' = IF failed = {} THEN Success
                     ELSE dht_bootstrap_error[res[last]]
    /\ UNCHANGED <<Transfer, online>>

(***************************************************************************)
(* How the tox calls for one friend of dht_get_friends turn out: all      *)
(* succeed, or the first that fails is the status message size, the       *)
(* status message, the user status (friend queries) or the public key.    *)
(***************************************************************************)
FriendOutcomes ==
  {<<"ok", "OK">>}
    \cup ({"size", "msg", "status"} \X (DOMAIN dht_friend_query_error \ {"OK"}))
    \cup ({"pk"} \X (DOMAIN dht_friend_get_pk_error \ {"OK"}))

FriendError(o) ==
  IF o[1] = "pk" THEN dht_friend_get_pk_error[o[2]]
  ELSE dht_friend_query_error[o[2]]

(* Mutant: the loop stops one friend short. *)
dht_get_friends_short ==
  \E n \in 0 .. MaxFriends :
  \E out \in [1 .. n -> FriendOutcomes], cb \in [1 .. n -> BOOLEAN] :
    LET ends == {i \in 1 .. n : out[i][1] # "ok" \/ ~cb[i]}
        last == IF ends = {} THEN n - 1 ELSE Min(ends)
    IN /\ call' = "get_friends"
       /\ listSize' = n
       /\ toxRes' = [i \in 1 .. last |-> out[i][2]]
       /\ listed' = Cardinality({i \in 1 .. last : out[i][1] = "ok"})
       /\ stopped' = (ends # {} /\ out[last][1] = "ok")
       /\ rc' = IF ends # {} /\ out[last][1] # "ok"
                THEN FriendError(out[last]) ELSE Success
       /\ UNCHANGED online

(***************************************************************************)
(* dht_get_friends: for each friend of the list, four queries, then the   *)
(* callback; a failed query returns its mapped error, a callback that     *)
(* returns false ends the walk with 0.                                    *)
(***************************************************************************)
dht_get_friends ==
  \E n \in 0 .. MaxFriends :
  \E out \in [1 .. n -> FriendOutcomes], cb \in [1 .. n -> BOOLEAN] :
    LET ends == {i \in 1 .. n : out[i][1] # "ok" \/ ~cb[i]}
        last == IF ends = {} THEN n ELSE Min(ends)
    IN /\ call' = "get_friends"
       /\ listSize' = n
       /\ toxRes' = [i \in 1 .. last |-> out[i][2]]
       /\ listed' = Cardinality({i \in 1 .. last : out[i][1] = "ok"})
       /\ stopped' = (ends # {} /\ out[last][1] = "ok")
       /\ rc' = IF ends # {} /\ out[last][1] # "ok"
                THEN FriendError(out[last]) ELSE Success
       /\ UNCHANGED online

(* dht_get_self_info: tox's getters of the own identity report no error. *)
dht_get_self_info ==
  /\ call' = "get_self_info"
  /\ toxRes' = <<"OK">>
  /\ rc' = Success
  /\ UNCHANGED <<Transfer, online>>

(* A value a wrapper returns as it is, not as a (facility, kind) code. *)
RawRc(v) == <<"RAW", v>>

(***************************************************************************)
(* dht_get_random_tcp_relay: a negative result of                         *)
(* tox_self_get_random_tcp_relay is returned unmapped; an address whose   *)
(* dotted form does not fit the caller's buffer returns -1 after tox      *)
(* succeeded; otherwise it is copied and 0 returned.                      *)
(***************************************************************************)
dht_get_random_tcp_relay ==
  /\ \/ toxRes' = <<"NO_RELAY">> /\ rc' = RawRc("tox rc")
     \/ toxRes' = <<"OK", "BUFFER_SHORT">> /\ rc' = RawRc(-1)
     \/ toxRes' = <<"OK">> /\ rc' = Success
  /\ call' = "get_random_tcp_relay"
  /\ UNCHANGED <<Transfer, online>>

(***************************************************************************)
(* dht_file_send_request: fopen the file for its size (a failure returns  *)
(* IOEX_GENERAL_ERROR(FILE_INVALID)), then tox_file_send; the mapped code *)
(* is returned whatever it is.                                            *)
(***************************************************************************)
dht_file_send_request ==
  /\ \/ /\ toxRes' = <<"FOPEN_FAILED">>
        /\ rc' = GeneralErr("FILE_INVALID")
     \/ \E e \in DOMAIN dht_file_send_error :
          /\ toxRes' = <<e>>
          /\ rc' = dht_file_send_error[e]
  /\ call' = "file_send_request"
  /\ UNCHANGED <<Transfer, online>>

(***************************************************************************)
(* dht_file_send_accept/pause/resume/reject/cancel: one tox_file_control  *)
(* each, the mapped code returned whatever it is (DhtFileControl follows  *)
(* what the controls do to a transfer).                                   *)
(***************************************************************************)
FileControlCall(name) ==
  \E e \in DOMAIN dht_file_control_error :
    /\ call' = name
    /\ toxRes' = <<e>>
    /\ rc' = dht_file_control_error[e]
    /\ UNCHANGED <<Transfer, online>>

dht_file_send_accept == FileControlCall("file_send_accept")
dht_file_send_pause == FileControlCall("file_send_pause")
dht_file_send_resume == FileControlCall("file_send_resume")
dht_file_send_reject == FileControlCall("file_send_reject")
dht_file_send_cancel == FileControlCall("file_send_cancel")

(* notify_friend_connection_cb: the friend is online iff is_connected. *)
notify_friend_connection_cb ==
  /\ \E c \in {"NONE", "TCP", "UDP", Other} : online' = is_connected(c)
  /\ UNCHANGED <<call, toxRes, rc, Transfer>>

-----------------------------------------------------------------------------
Init ==
  /\ call = "none" /\ toxRes = <<>> /\ rc = Success
  /\ listSize = 0 /\ listed = 0 /\ stopped = FALSE
  /\ online = FALSE

Next ==
  \/ dht_new \/ dht_bootstrap \/ dht_get_friends \/ dht_get_self_info
  \/ dht_get_random_tcp_relay
  \/ dht_self_set_name \/ dht_self_set_desc \/ dht_get_friend_number
  \/ dht_friend_add \/ dht_friend_add_norequest \/ dht_friend_message
  \/ dht_friend_delete \/ dht_file_send_request \/ dht_file_send_seek
  \/ dht_file_send_chunk
  \/ dht_file_send_accept \/ dht_file_send_pause \/ dht_file_send_resume
  \/ dht_file_send_reject \/ dht_file_send_cancel
  \/ notify_friend_connection_cb

Spec == Init /\ [][Next]_vars

-----------------------------------------------------------------------------
TypeOK ==
  /\ toxRes \in Seq(STRING)
  /\ listed \in 0 .. listSize /\ listSize \in 0 .. MaxFriends
  /\ stopped \in BOOLEAN /\ online \in BOOLEAN

(***************************************************************************)
(* A dht_* wrapper returns 0 exactly when every call it made succeeded:   *)
(* no error of tox, of fopen or of the relay buffer check is lost on    *)
(* the way out, and no success is reported as an error.                  *)
(***************************************************************************)
ErrorIffCallFailed ==
  (rc = Success) <=> (\A i \in DOMAIN toxRes : toxRes[i] = "OK")

(***************************************************************************)
(* dht_get_friends returns 0 only after passing every friend of the list  *)
(* to the callback, unless the callback asked it to stop.                *)
(***************************************************************************)
FriendsListedOnSuccess ==
  (call = "get_friends" /\ rc = Success) => (listed = listSize \/ stopped)

=============================================================================
