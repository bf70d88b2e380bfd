----------------------------- MODULE DhtErrors -----------------------------
(***************************************************************************)
(* The tables of src/src/carrier/dht/dht.c that map the overlay library's *)
(* (tox) error codes to the carrier's (facility, kind) errors, one per    *)
(* tox error type, and is_connected.  A code is named by its suffix       *)
(* (TOX_ERR_FRIEND_ADD_MALLOC is "MALLOC" in dht_friend_add_error); Other *)
(* stands for every code no case of a switch names.                       *)
(***************************************************************************)
EXTENDS Naturals

Success == <<"NONE", "SUCCESS">>   \* IOEXSUCCESS, 0
DhtErr(kind) == <<"DHT", kind>>
GeneralErr(kind) == <<"GENERAL", kind>>
Other == "OTHER"   \* a code that no case of a switch names

(***************************************************************************)
(* A switch over codes: the cases are a record from the code's name to    *)
(* the error, and every other code falls to the default,                  *)
(* IOEX_DHT_ERROR(IOEXERR_UNKNOWN).                                       *)
(***************************************************************************)
Switch(cases) ==
  [e \in DOMAIN cases \cup {Other} |->
     IF e \in DOMAIN cases THEN cases[e] ELSE DhtErr("UNKNOWN")]

-----------------------------------------------------------------------------
(* The error mappings, one per tox error type: the static inline __dht_ functions. *)
dht_new_error == Switch([
  OK |-> Success, NULL |-> DhtErr("INVALID_ARGS"),
  MALLOC |-> DhtErr("OUT_OF_MEMORY"), PORT_ALLOC |-> DhtErr("PORT_ALLOC"),
  PROXY_BAD_TYPE |-> DhtErr("BAD_PROXY_TYPE"),
  PROXY_BAD_HOST |-> DhtErr("BAD_PROXY_HOST"),
  PROXY_BAD_PORT |-> DhtErr("BAD_PROXY_PORT"),
  PROXY_NOT_FOUND |-> DhtErr("PROXY_NOT_AVAILABLE"),
  LOAD_ENCRYPTED |-> DhtErr("ENCRYPTED_PERSISTENT_DATA"),
  LOAD_BAD_FORMAT |-> DhtErr("BAD_PERSISTENT_DATA")])

dht_bootstrap_error == Switch([
  OK |-> Success, NULL |-> DhtErr("INVALID_ARGS"),
  BAD_HOST |-> DhtErr("BAD_BOOTSTRAP_HOST"),
  BAD_PORT |-> DhtErr("BAD_BOOTSTRAP_PORT")])

dht_friend_query_error == Switch([
  OK |-> Success, NULL |-> DhtErr("INVALID_ARGS"),
  FRIEND_NOT_FOUND |-> DhtErr("NOT_EXIST")])

dht_friend_get_pk_error == Switch([
  OK |-> Success, FRIEND_NOT_FOUND |-> DhtErr("NOT_EXIST")])

dht_set_info_error == Switch([
  OK |-> Success, NULL |-> DhtErr("INVALID_ARGS"),
  TOO_LONG |-> DhtErr("TOO_LONG")])

dht_friend_by_pk_error == Switch([
  OK |-> Success, NULL |-> DhtErr("INVALID_ARGS"),
  NOT_FOUND |-> DhtErr("NOT_EXIST")])

dht_friend_add_error == Switch([
  OK |-> Success, NULL |-> DhtErr("INVALID_ARGS"),
  TOO_LONG |-> DhtErr("TOO_LONG"), NO_MESSAGE |-> DhtErr("INVALID_ARGS"),
  OWN_KEY |-> DhtErr("ADD_SELF"), ALREADY_SENT |-> DhtErr("ALREADY_EXIST"),
  BAD_CHECKSUM |-> DhtErr("BAD_ADDRESS"),
  SET_NEW_NOSPAM |-> DhtErr("BAD_ADDRESS"),
  MALLOC |-> DhtErr("OUT_OF_MEMORY")])

dht_friend_send_msg_error == Switch([
  OK |-> Success, NULL |-> DhtErr("INVALID_ARGS"),
  FRIEND_NOT_FOUND |-> DhtErr("NOT_EXIST"),
  FRIEND_NOT_CONNECTED |-> DhtErr("FRIEND_OFFLINE"),
  SENDQ |-> DhtErr("OUT_OF_MEMORY"), TOO_LONG |-> DhtErr("TOO_LONG"),
  EMPTY |-> DhtErr("INVALID_ARGS")])

dht_friend_delete_error == Switch([
  OK |-> Success, FRIEND_NOT_FOUND |-> DhtErr("NOT_EXIST")])

dht_file_send_error == Switch([
  OK |-> Success, FRIEND_NOT_FOUND |-> DhtErr("NOT_EXIST"),
  FRIEND_NOT_CONNECTED |-> DhtErr("FRIEND_OFFLINE"),
  NULL |-> DhtErr("FILE_INVALID"), NAME_TOO_LONG |-> DhtErr("FILE_INVALID"),
  TOO_MANY |-> DhtErr("LIMIT_EXCEEDED")])

dht_file_seek_error == Switch([
  OK |-> Success, FRIEND_NOT_FOUND |-> DhtErr("NOT_EXIST"),
  FRIEND_NOT_CONNECTED |-> DhtErr("FRIEND_OFFLINE"),
  NOT_FOUND |-> DhtErr("FILE_INVALID"),
  INVALID_POSITION |-> DhtErr("FILE_INVALID"),
  DENIED |-> DhtErr("WRONG_STATE"), SENDQ |-> DhtErr("LIMIT_EXCEEDED")])

dht_file_control_error == Switch([
  OK |-> Success, FRIEND_NOT_FOUND |-> DhtErr("NOT_EXIST"),
  FRIEND_NOT_CONNECTED |-> DhtErr("FRIEND_OFFLINE"),
  NOT_FOUND |-> DhtErr("FILE_INVALID"),
  NOT_PAUSED |-> DhtErr("WRONG_STATE"), DENIED |-> DhtErr("WRONG_STATE"),
  ALREADY_PAUSED |-> DhtErr("WRONG_STATE"),
  SENDQ |-> DhtErr("LIMIT_EXCEEDED")])

dht_file_send_chunk_error == Switch([
  OK |-> Success, NULL |-> DhtErr("FILE_INVALID"),
  FRIEND_NOT_FOUND |-> DhtErr("NOT_EXIST"),
  FRIEND_NOT_CONNECTED |-> DhtErr("FRIEND_OFFLINE"),
  NOT_FOUND |-> DhtErr("FILE_INVALID"),
  INVALID_LENGTH |-> DhtErr("FILE_INVALID"),
  WRONG_POSITION |-> DhtErr("FILE_INVALID"),
  NOT_TRANSFERRING |-> DhtErr("WRONG_STATE"),
  SENDQ |-> DhtErr("LIMIT_EXCEEDED")])

(* is_connected: only a TCP or UDP connection counts as connected. *)
is_connected(c) == c \in {"TCP", "UDP"}

=============================================================================
