# Formal models of the carrier applications and their use of the session library

This directory holds TLA+ models of the code under `src/`, the TLC
configurations that model-check them, and TLAPS proofs of their main
invariants.

## The system

The repository contains three kinds of code:

- **Applications that use the session library.**
  - `src/apps/pfd/pfd.c` is the port-forwarding daemon. In client mode it
    keeps one session to a configured server peer. Once the stream is
    connected, it opens TCP port forwardings over it. In server mode it
    accepts session requests from allowed users.
  - `src/apps/speedtest/speedtest.c` is a two-peer throughput test. It
    sends a file over a stream and checks its MD5 by friend message.
- **The identity-overlay glue.**
  - `src/src/carrier/dht/dht.c` wraps the DHT library: error-code mappings
    and callback dispatch.
  - `src/src/carrier/tcallbacks.h` is the table of pending invite
    transactions.
- **Headers and API tests** of the session library. The library itself
  (session, stream, ICE, FMP) is not in the repository. Its behaviour is
  taken from `spec.md`.

Two threads run the applications' callbacks (spec section 5):

- The **carrier thread** (the identity-overlay iteration) runs carrier_ready,
  friend_connection, friend messages and invites, and the session request and
  request-complete callbacks.
- The **ICE worker thread** runs the stream callbacks: state changes and
  data.

The applications share globals between the two threads with no lock. This
is where most of the hard behaviour is:
- pfd: `cli_session`, `cli_streamid`, and the `sessions` table (the table
  itself is synchronised);
- speedtest: `unchanged_streams` and `g_data_len`.

## Modules

### `PfdClient` (pfd client mode, `src/apps/pfd/pfd.c`)

State:

| Variable | Models |
|---|---|
| `lib`, `sst`, `req`, `started` | The library's view of each session handle: unused, open or closed; the state of its one stream; the session request; whether `IOEX_session_start` succeeded. |
| `table` | The daemon's `sessions` hashtable. |
| `cliSession`, `cliStreamid` | The globals `cli_session` and `cli_streamid`. |
| `pc`, `tgt`, `ret` | For each of the two threads: where it is in its callback, which session the callback works on, and where `delete_session` returns to. |
| `online`, `notified`, `isFriend`, `friendReq`, `ready` | The server peer's presence, and the friend handshake. |
| `closes`, `misuse` | History: how many times `IOEX_session_close` ran on each handle, and whether a call was made on a closed handle. |

Actions, one per callback or per step of one:

- `carrier_ready`, `friend_connection` and `peer_connection_changed` are the
  functions of the same names.
- `setup_session_new`, `setup_add_session`, `setup_add_stream` and
  `setup_add_stream_return` are the steps of `setup_portforwardings`.
  - The `initialized` callback runs synchronously inside add_stream (spec
    4.3). So `setup_add_stream` includes `IOEX_session_request`, and the
    `delete_session` it makes when the server is offline.
- `session_request_complete`, `_poll` and `_start` are the three steps of
  `session_request_complete`. `_poll` is the busy-wait, taken once the loop
  exits.
- `ice_progress`, `ice_connected` and `ice_failed` are the ICE worker moving a
  stream along the state machine of spec 4.3 and running
  `stream_state_changed`.
  - `open_port_forwardings` is the rest of the connected branch.
- `delete_session`, `delete_reset` and `delete_close` are `delete_session`,
  split where the other thread can interleave:
  1. the atomic `hashtable_remove`;
  2. the reset of the globals;
  3. the `deref` that runs `session_entry_destroy` and `IOEX_session_close`.
- `server_connection` and `server_accepts_friend` are the environment: the
  server goes online or offline, and accepts the friend request.

The library is modelled from the spec. These are the facts the model relies
on:

- **One open session per peer.** `IOEX_session_new` fails with
  ALREADY_EXIST while one is open (spec 3, "exactly one session ... per
  remote peer").
- **The stream state machine** of spec 4.3:
  - `initialized` is emitted synchronously inside add_stream;
  - `transport_ready` follows the request;
  - `connecting` follows `session_start`;
  - `failed` can happen once ICE work has begun.
- **Close.** `IOEX_session_close` moves every non-terminal stream to
  `closed` (spec 5).

### `Speedtest` (`src/apps/speedtest/speedtest.c`)

There are two processes. The active peer A sends a file, and the passive
peer P counts the bytes and answers with the checksum by friend message.
Each peer runs a carrier thread and an ICE worker thread. A also has the
bulk-write thread.

State:

| Variable | Models |
|---|---|
| `aSt`, `pSt`, `aStarted`, `pStarted` | Each side's stream state, and whether its `IOEX_session_start` succeeded. |
| `aReq`, `pReply`, `invited` | The offer and the answer (the library sends them), and A's invite. |
| `toP`, `toA` | Friend messages and invites in flight, in order. These are invite, invite reply, request, reply, length and checksum. |
| `pCnt`, `pTmpC`, `pTmpI`, `pCpc`, `pIpc` | P's `unchanged_streams`, and the value each of P's threads loaded from it. The `++` on the carrier thread and the `--` on the ICE thread are each a load step and a store step. |
| `pBulk`, `pBytes`, `pDataLen`, `pDone` | P's `session_ctx.bulk_mode` and `bytes`, `g_data_len`, and whether P has exited. All sizes are counted in packets. |
| `aIpc`, `writer`, `aRead`, `aWritten`, `queued`, `wire` | A's ICE worker, which may be inside the connected callback's join. The writer thread's progress: packets read, and packets accepted. The packets waiting in A's worker queue, and those on the way to P. |
| `pStartEarly`, `aDone` | History: P called `session_start` before `transport_ready`. A exited on the checksum. |

Actions:
- The actions named `a_*` and `p_*` are the callbacks of the code, and the
  `map` section of `PROJECT.json` lists their lines. The library steps are
  taken from the spec:
  - `a_offer_sent`, `p_answer_sent`: the SDP leaves once the stream is
    `transport_ready` (spec 4.3);
  - `a_flush`: a write from another thread is queued for the worker (spec
    4.4);
  - the ICE state steps, with failure possible in every live state.
- `a_write` is one turn of `bulk_write_thread`'s loop. Each turn reads the
  next packet, and then one of these happens:
  - the write is accepted;
  - the stream is gone, and the thread returns;
  - the write returns BUSY. The code sleeps and `continue`s, and the next
    `read()` overwrites the packet, so the packet is dropped.
- `a_stream_connected` starts the writer, which is created DETACHED, and
  then `pthread_join`s it. That is undefined behaviour, and the model
  allows both outcomes: glibc's immediate EINVAL, or a join that waits.
  While A's worker waits, it cannot flush its queue.

Fairness: weak fairness on every step except ICE failure. Every thread
runs its callbacks to the end. The overlay delivers friend messages, and the
workers progress; spec 4.4 says callbacks must not block the worker. A
failure is never forced. The friend goes online once: a reconnect would
send a second invite, and that is not modelled.

### `DhtErrors`, `Dht`, `DhtFileControl` (`src/src/carrier/dht/dht.c`)

`dht.c` wraps the overlay library, tox, which is not in the repository.

**`DhtErrors`** holds the thirteen `__dht_*_error` switches. Each one is a
TLA+ function from a tox code to a `(facility, kind)` pair. `Switch` builds
it from a record of the named cases plus the `default:` entry. Records
are used instead of TLC's `:>` and `@@` so that the prover can expand the
tables.
- A code is named by its suffix: `TOX_ERR_FRIEND_ADD_MALLOC` is `"MALLOC"`.
- `Other` stands for every code that no case names, and the `default:`
  branch maps it to `UNKNOWN`.
- `is_connected` is an operator.

**`Dht`** has one action per wrapper that can fail. Each action picks the
tox outcome of every call the wrapper makes, and records the following:

| Variable | Records |
|---|---|
| `call` | The wrapper that ran. |
| `toxRes` | The codes its calls returned, in order. An `fopen` failure counts as a call. |
| `rc` | What the wrapper returned. |
| `listSize`, `listed`, `stopped` | For `dht_get_friends`: the list size, how many friends reached the callback, and whether the callback asked to stop. |
| `online` | The carrier's view of a friend, set by `notify_friend_connection_cb`. |

The control flow is the code's:
- `dht_bootstrap` calls up to four tox functions (IPv4 then IPv6, bootstrap
  then relay) and stops at the first failure.
- `dht_get_friends` makes four queries per friend, and then calls the
  callback. It stops at the first failed query, or when the callback
  returns false.
- The other wrappers make one call each:
  - `dht_new`, `dht_friend_message` and the others return the mapped
    error only when the call failed;
  - `dht_file_send_request` and the `dht_file_send_*` controls return the
    mapped code whatever it is.
- `dht_get_self_info` only calls getters that report no error, and returns 0.
- `dht_get_random_tcp_relay` has three outcomes:
  - it returns tox's negative result unmapped (`RawRc`);
  - it returns -1 when the dotted address does not fit the caller's buffer,
    after tox succeeded (recorded as a second, failed check);
  - otherwise it returns 0.

  The address itself is abstracted away.

**`DhtFileControl`** follows one file transfer:
- the carrier offers it with `dht_file_send_request`;
- the peer accepts, pauses, resumes, rejects or cancels it with the
  `dht_file_send_*` wrappers;
- tox delivers each control, in order, to `notify_file_control_cb`;
- the carrier's notifications are recorded in `notes`.

Whether tox takes a control is modelled by `ControlCodes`. That rule is
inferred from the error codes tox returns for a control and that
`__dht_file_control_error` maps:
- `NOT_PAUSED` for a resume of a running transfer;
- `ALREADY_PAUSED` for a pause of a paused one;
- `NOT_FOUND` once it is cancelled;
- a full send queue or an offline friend, as transient failures.

The tables map tox's full send queue (`SENDQ`) to `OUT_OF_MEMORY` in
`dht_friend_send_msg_error` and to `LIMIT_EXCEEDED` in
`dht_file_control_error`. Spec section 7 names `BUSY` as the retryable
kind. A caller that follows the spec therefore treats a full queue as a
hard error. This is visible in the tables themselves, so no run checks it.

The tox internals themselves are outside the repository. `MaxControls` = 3
allows accept, pause and resume, the shortest sequence that matters.

### `PfdServer` (`src/apps/pfd/pfd.c`, server mode)

`session_request_callback` runs on the carrier thread. It creates a
session for the requesting peer. If the user is not allowed, it refuses and
closes the session. Otherwise it:
1. makes a heap copy of the remote SDP (`strdup`) and sets it as the
   session's userdata;
2. puts the session into the `sessions` table;
3. adds the stream.

The library emits "initialized" synchronously inside add_stream, so the
server branch of `stream_state_changed` runs on the carrier thread there.
That branch replies, and on a failed reply it frees the userdata and
deletes the session. add_stream then returns to `session_request_callback`.
If it returns `rc <= 0` (lines 380-385), the handler replies "Error",
calls `delete_session` and frees its local copy `p`. The session's ICE
worker runs the later callbacks:
- "transport_ready" starts the session with the copy, clears the
  userdata and frees the copy;
- "failed" frees the userdata if the session is still in the table.

| Variable | Models |
|---|---|
| `lib`, `sst` | Each handle in the library, and the state of its one stream. |
| `table` | The `sessions` hashtable. |
| `ud`, `mem` | Whether the userdata points to the SDP copy, and whether the copy is allocated or freed. |
| `pc`, `tgt`, `ret`, `sdp`, `startOk` | The carrier thread and each session's worker: where each is, which session it works on, and the transport_ready branch's locals. |
| `closes`, `memErr` | History: the closes of each handle, and the memory errors on each copy (double free, use after free, `strlen(NULL)`). |

Three rules come from the library, which is not in the repository:
- A close from another thread waits until the session's worker has left
  its callback, because spec section 5 says the context is released after
  the worker acknowledges.
- The worker does not deliver a callback while the synchronous
  "initialized" callback of the same stream is still running
  (`InInitCallback`). Spec section 5 says `state_changed` is never called
  "from inside another" on the same stream; the model takes this
  serialised reading.
- The spec does not say what add_stream returns after its "initialized"
  callback closed the session. `add_stream_return` lets it return the
  stream id or an error, as `PfdClient.setup_add_stream_return` does for
  the same call.

### `InviteTransactions` (`src/src/carrier/tcallbacks.h`)

The transacted-callback table maps the 64-bit transaction id (tid) of a
friend invite to the callback that gets the reply. Each helper of
`tcallbacks.h` is an operator:
- `cid_hash_code` reads the tid as unsigned and adds its two halves
  modulo 2^32;
- `cid_compare` is the signed comparison;
- `Lookup` is what the hashtable built by `transacted_callbacks_create`
  finds for a key: an entry in the key's bucket that `cid_compare` calls
  equal. The order of a bucket's chain is left open;
- `transacted_callbacks_exist/put/get/remove/clear`.

The tid has 2*`W` bits instead of 64, so each half has `W` bits. With
`W` = 1 the four tids -2..1 fall into two buckets of two: {-1, 0} and
{-2, 1}. A lookup therefore always has a neighbour to confuse.

The callers of the table are in the carrier core, which is not in the
repository. They are modelled from spec section 5:
- `invite_put`, then `invite_send`: an application thread in
  `invite_friend` puts the callback under a fresh tid, then hands the
  invite to the overlay. If the overlay refuses, the call removes the
  entry and returns the error.
- `invite_reply`: a reply arrives on the iteration thread. It may be
  duplicated, or late. Its entry is looked up, removed, and the callback
  is called with the reply. A reply with no entry is dropped.
- `invite_expire`: the 60 s timeout removes the entry and calls the
  callback with TIMEOUT.
- `carrier_kill`: clears the table.

Each of these actions is atomic, because the table has a mutex.

| Variable | Models |
|---|---|
| `table` | The tids in the hashtable. |
| `phase` | Where the `invite_friend` call of each tid is. |
| `wire` | The invites the peer has received, and may reply to. |
| `delivered` | What each callback has been called with, as history. |
| `killed` | Whether the carrier was killed. |

Fairness is weak fairness on `invite_send` and on `invite_expire` for each
tid. The calling thread finishes its call. The iteration thread runs the
expiry check for as long as the carrier lives. Replies get no fairness,
because the peer may never answer.

`InviteCallbacks` is the abstract specification: what `invite_friend`
promises its caller, with no table, tids or hashing. A call begins, then
either fails or sends its invite. A sent invite is answered once, with
"reply" or "TIMEOUT", while the carrier lives. Its fairness says that
every call returns and every sent invite is answered. `InviteTransactions`
maps onto it through `Abs == INSTANCE InviteCallbacks WITH ...`:
- `AbsSt` renames the phase "put" to "pending";
- `AbsAnswer` is the kind of a callback's first delivery;
- `killed` is `dead`.

A reply that finds no entry is a stutter of the abstract specification.

## Runs

All runs use three session handles as model values (`MCPfdClient`), with
symmetry over them.

| Run | cfg | Expect | What it shows |
|---|---|---|---|
| `pfd_client_safety` | `PfdClient.cfg` | pass | `ClientTracksSession`: every session open in the library is `cli_session` or is being deleted, whichever thread deletes. `CloseOnce`: `IOEX_session_close` runs at most once per session. `ResetOwnSession` (an action property): the reset `cli_session = NULL` in `delete_session` only ever clears NULL or the session the resetting thread removed. The run also checks `IInv`, the inductive invariant of the proofs. |
| `speedtest_safety` | `Speedtest.cfg` | pass | Three properties, with a 2-packet file and a 1-packet window. `ChecksumOnFullFile`: P never sends its checksum before the whole file arrived, even while `g_data_len` is still 0. `StartAfterTransportReady`: the busy-wait keeps P's `session_start` after `transport_ready`. `WriterFinishes`: the writer always ends (1,098 states). The run also checks `IInv`, the inductive invariant of the proofs. |
| `speedtest_unchanged_streams` | `SpeedtestCounter.cfg` | violation | `UnchangedStreamsCounted` fails in 6 steps. P's ICE thread runs its `--` between the carrier thread's load and store of `++`. The count stays 1 and the busy-wait never ends. |
| `speedtest_length_order` | `SpeedtestLenOrder.cfg` | violation | `FinishedWhenFileReceived` fails. Both packets arrive before the length message, so `bytes == g_data_len` never holds and P never answers. |
| `speedtest_busy_drop` | `SpeedtestBusy.cfg` | violation | `FinishMeansWholeFile` fails. A write refused with BUSY drops its packet, and the writer still ends with "Finish". |
| `dht_wrappers` | `Dht.cfg` | pass | `ErrorIffCallFailed`: every wrapper returns 0 exactly when all its calls succeeded, whatever each call returns. `FriendsListedOnSuccess`: `dht_get_friends` returns 0 only after the whole list, or after the callback said stop (2,606 states, up to two friends). |
| `dht_file_control_view` | `DhtFileControlView.cfg` | pass | `CarrierSeesPeerState`: once the controls are delivered, the carrier's last notification names the peer's state of the transfer. Deadlock is not checked, because the transfer ends when it is cancelled or when the bound on controls is reached. |
| `dht_accepted_twice` | `DhtFileControl.cfg` | violation | `AcceptedOnce` fails. The peer accepts, pauses and resumes, and the carrier gets `accepted` twice. `notify_file_control_cb` cannot tell a resume from an accept, as its TODO says. |
| `invite_transactions` | `InviteTransactions.cfg` | pass | Four tids in two colliding buckets, with duplicated and late replies, the timeout and a kill (2,592 states). `CalledAtMostOnce`: a callback runs at most once, and never after an error return. `OwnReplyOnly`: a callback gets its own reply or TIMEOUT. `EveryInviteAnswered`: a sent invite is eventually answered, unless the carrier is killed. `ImplementsInviteCallbacks`: the table implements `InviteCallbacks`, fairness included. The run also checks `IInv`, the inductive invariant of the proofs. |
| `pfd_server` | `PfdServer.cfg` | pass | Two handles, with a stream's callbacks serialised (447 states). `SdpReadSafe`: the SDP copy is never passed to `strlen` or `IOEX_session_start` after a free or through a NULL userdata. `SdpReleased`: a closed session with no callback running has had its copy freed. `ServerCloseOnce`: each session is closed at most once, whichever of the five paths that delete it runs. The run also checks `IInv`, the inductive invariant of the proofs. |
| `pfd_server_double_free` | `PfdServerDoubleFree.cfg` | violation | `SdpMemorySafe` (the copy is freed at most once and never read after a free) fails in 8 steps. The reply in the "initialized" callback fails. Line 289 frees the copy, and the callback deletes and closes the session. add_stream then returns an error: the handler's `delete_session` finds nothing, and `free(p)` at line 384 frees the same block again. This is a real bug in `pfd.c` whenever the library reports that failure. |
| `pfd_client_use_after_close` | `PfdClientUAF.cfg` | violation | `NoUseAfterClose` fails, in 10 steps. The reply arrives, and the carrier thread enters the busy-wait. The ICE thread fails the stream, deletes the session and closes it. The busy-wait then calls `IOEX_stream_get_state` on the closed handle. This is a real bug in `pfd.c:208-226`. |

Why three handles are enough:
- A handle is used at most once, so three handles allow a session, its
  deletion, and two re-creations.
- Both threads can then delete concurrently, and setup can run while a
  deletion is in flight.
- The full state space is about 29,500 states.

Each passing property has a mutant: a plausible bug that TLC then catches.
- `delete_session_unchecked` continues even when the entry was already
  removed. Both threads then close the same session, and `CloseOnce` fails.
- `setup_session_new_not_unique` is a library that allows a second session
  per peer. The ICE thread's reset of `cli_session` then hits the new
  session, and `ClientTracksSession` fails.

Speedtest:
- `p_on_data_at_least` completes on `bytes >= g_data_len`. It answers on
  the first packet while the length is unknown, which breaks
  `ChecksumOnFullFile`.
- `p_reply_start_off_by_one` busy-waits on `> 1`, which breaks
  `StartAfterTransportReady` and `IInv`.
- `a_write_retry_busy` retries a BUSY packet, as the spec asks. With the
  join waiting, the writer waits for the worker and the worker waits for
  the writer, which breaks `WriterFinishes`. The code's drop of the packet
  is what avoids that deadlock, and `speedtest_busy_drop` shows its cost.

Bounds for Speedtest:
- Two packets with a window of one make the window fill. They also let the
  length message fall before, between or after the packets.
- One stream is what the application adds.

DHT:
- `dht_friend_delete_unchecked` ignores the error of `tox_friend_delete`,
  which breaks `ErrorIffCallFailed`.
- `dht_get_friends_short` stops the loop one friend early, which breaks
  `FriendsListedOnSuccess`.
- `notify_file_control_cb_no_pause` drops PAUSE into the logging
  `default:`, which breaks `CarrierSeesPeerState`.

pfd server:
- `init_free_no_delete` frees the copy after the failed reply but does not
  delete the session. The worker's transport_ready then reads the freed
  copy, which breaks `SdpReadSafe`.
- `failed_check_no_free` deletes the session in the failed branch without
  freeing the userdata, which breaks `SdpReleased`.
- `transport_ready_free_keep_ud` also breaks `IInv`: after a started
  session's transport_ready the userdata still points to a freed copy while
  the session stays in the table.

Invite transactions:
- `cid_compare_no_less` returns 0 for a smaller tid. A reply to tid 0 then
  reaches the callback of tid -1, which shares its bucket. This breaks
  `OwnReplyOnly`.
- `invite_reply_keep` calls the callback and leaves the entry in place. A
  duplicated reply then calls it again, which breaks `CalledAtMostOnce`
  and `IInv`.
- `invite_expire_silent` releases the entry without calling the callback,
  which breaks `EveryInviteAnswered`.
- `invite_expire_early` lets the timeout fire before `invite_friend` has
  sent the invite. The callback then gets TIMEOUT for an invite the
  abstract specification has not sent, which breaks
  `ImplementsInviteCallbacks`.

PfdClient assumes no fairness, because none of its runs checks liveness.

## Proofs (`PfdClientProofs`)

`PfdClientProofs` proves the following for every set of handles, with
`NULL \notin Sess` as the only assumption:

- `TypeCorrect`: the model is well typed.
- `IInvInvariant`: `IInv` is an invariant.
- `ClientTracksSessionInvariant` and `CloseOnceInvariant`: the two safety
  invariants of the safety run.
- `ResetOwnSessionProperty`: the run's action property `ResetOwnSession`.

`ClientTracksSession` alone is not inductive. `IInv` adds what makes the
ICE thread's unconditional `cli_session = NULL` harmless:

- `OneOpen`: at most one session is open.
- `TableOpen` and `OutsideTable`: the table holds only open sessions, and an
  open session is outside the table only while it is being set up or
  deleted.
- `DeletingOpen` and `DeletingDistinct`: a thread in the middle of
  `delete_session` has removed an entry that is still open, and no other
  thread deletes the same one.
- `SetupOwned`: between `IOEX_session_new` and add_stream, no thread is
  deleting and the new session's stream is still raw.
- `NewAfterDelete`: when setup calls `IOEX_session_new`, every open session
  is being deleted.
- `ClosesCount`: the close count is 1 exactly for closed handles.

Why these suffice: setup can only create a session once the previous one
is out of the table and closed. And a deleting thread resets the globals
before it closes. So a later setup never overlaps a reset.

The proof structure:
- One lemma per action, with one step for each conjunct that the action
  can disturb.
- `IInvInductive` combines the per-action lemmas.
- `IInvInvariant` concludes by PTL.

## Proofs (`InviteTransactionsProofs`)

These hold for every width `W` >= 1:
- `IInvInvariant`: `IInv` is an invariant.
- `CalledAtMostOnceInvariant` and `OwnReplyOnlyInvariant`: the two safety
  properties of `invite_transactions`.

`CalledAtMostOnce` is not inductive on its own. Nothing in it stops a
second reply from finding an entry whose callback already ran. `IInv`
adds what the removes guarantee:
- an entry in the table belongs to a call that is pending (`put` or
  `sent`), and its callback has not run;
- a call that has not sent its invite has nothing on the wire and no
  result, and the same holds for a call that failed;
- a tid whose call has not started is not in the table.

The lemma `LookupExact` says that a lookup of `t` finds `t` itself, when
`t` is present, and nothing else. It follows from `cid_compare` alone:
whatever `cid_hash_code` does, two tids in one bucket are told apart. With
this lemma:
- `invite_reply` and `invite_expire` remove exactly the entry whose
  callback they call;
- `invite_put` finds its tid absent.

Each action is its own step of `NextIInv`, and `invite_send` splits into
its success branch and its failure branch. `EveryInviteAnswered` is a
liveness property, so it is only model-checked.

`RefinesInviteCallbacks` proves `Spec => Abs!ASafeSpec`, the safety part
of the refinement, for every `W`. Its two lemmas are:
- `InitRefines`: the initial state maps to `AInit`;
- `NextRefines`: under `IInv`, each step maps to an abstract step or a
  stutter.

The step mapping is as follows:
- `invite_put` maps to `Begin`;
- `invite_send` maps to `Send` or `Fail`;
- `invite_reply` maps to `Answer(t, "reply")` when it finds its entry, and
  to a stutter otherwise;
- `invite_expire` maps to `Answer(t, "TIMEOUT")`;
- `carrier_kill` maps to `Kill`.

`Answer` requires that the callback has not run yet. `IInv` provides this:
an entry in the table has an empty delivery history, and a tid on the
wire belongs to a sent call. `LookupExact` gives that the removed entry is
the answered tid. The fairness half of `ImplementsInviteCallbacks` needs
ENABLED, so it is model-checked only.

## Proofs (`PfdServerProofs`)

These hold for every set of session handles, assuming `NULL` and
`"carrier"` are not handles (`ServerNullAssumption`). The model's guard
`~InInitCallback(s)` is the serialisation of spec section 5: the library
does not run a stream's callback on the worker while the carrier thread is
still inside that stream's "initialized" callback.
- `IInvInvariant`: `IInv` is an invariant.
- `SdpReadSafeInvariant` and `SdpReleasedInvariant`: two properties of
  `pfd_server`.
- `ServerCloseOnceInvariant`: the run's third property. `IOEX_session_close`
  is called at most once per session.

Freeing at most once (`SdpMemorySafe`) is not proved: it is false, as
`pfd_server_double_free` shows. `IInv` allows a double free in `memErr`
and nothing else.

`SdpReadSafe` is only a history of errors, so it says nothing about
why the next read is safe. `IInv` (the carrier thread's places, and
`SessionInv(s)` for each handle) ties every place of every thread to the
session's userdata `ud`, copy `mem` and stream state:
- while a session is in the table, its userdata is the live copy, or NULL
  after transport_ready freed it;
- the userdata dangles only in a closed session, or inside the
  `delete_session` that closes it (on the carrier after line 289, on the
  ICE thread after line 250);
- an open session outside the table is always being deleted by the thread
  that removed it;
- each stream state matches a place: `Raw` only during the carrier's setup,
  `TransportReady` and `Failed` only while the ICE thread handles them,
  `Connecting` with an idle worker only after the copy was freed;
- a closed session with a live copy has the carrier thread about to free it
  at line 384;
- when add_stream returns after a failed reply (`AfterInitCallback`), the
  session is closed, out of the table and its copy freed, so no callback
  of the stream reads it again.

The serialisation is used in one step: `lib_transport_ready` and
`lib_failed` cannot fire while the carrier is between lines 285 and 291.
Without it, the worker's transport_ready could read the copy that line 289
freed before the carrier's deref closes the session. The spec does not
settle this reading either, so it remains an assumption.

`NextIInv` has one step per action. The two-way actions (`add_stream`,
`transport_ready_free`, `failed_check`) split into their branches. Inside
each branch, the primed variables are first stated explicitly, and then the
per-session goal is split into the session the action works on and the
others.

`ServerCloseOnce` follows from `CloseCount`: a handle's close count is 1
exactly when the library has closed it. `CloseCount` is inductive relative
to `IInv` (`NextCloseCount`). Two actions can change it:
- `session_request_callback` takes an unused handle, whose close count is
  0, and on a refusal closes it at once (0 to 1);
- `delete_close` closes a handle. `DerefOpen` shows from `IInv` that a
  thread at that step holds a session that is still open.

## Proofs (`SpeedtestProofs`)

These hold for every file length and window (the proof needs neither
`FileLenAssumption` nor `WindowAssumption`), under the model's interleaving of P's carrier and ICE
threads, with the unlocked `++` and `--` of `unchanged_streams` split into
a load and a store:
- `IInvInvariant`: `IInv` is an invariant.
- `StartAfterTransportReadyInvariant`: the property of `speedtest_safety`.

`~pStartEarly` alone is not inductive: `p_reply_start` keeps it only if the
busy-wait cannot end while P's stream is `Initialized`. `IInv` gives that
argument in three parts:
- The message chain. The invite is in `toP` at most once, and only while
  `pSt = Raw`. The `invite_reply`, A's request and the `request` message
  all come after P's stream exists. So the carrier thread reaches the
  busy-wait only after `invite_request_callback` set up the stream, and
  `session_new`'s `unchanged_streams = 0` happens once.
- The counter. While the stream is only `Initialized`, the ICE thread has
  not run its decrement. So the carrier's increment, whatever it loaded,
  leaves the counter at 1 or more whenever the carrier thread is idle or
  busy-waiting.
- The conclusion. A busy-wait that ends (`pCnt <= 0`) therefore finds the
  stream at `TransportReady` or later.

The lost update that `speedtest_unchanged_streams` shows breaks liveness,
not this safety property. `NextIInv` has one step per action. Actions that
only move a message are grouped into four generic steps (take the head of
`toA`, append to `toA`, append to `toP`, take the head of `toP`). These rest
on the lemmas `InQueueAppend`, `InQueueTail`, `UniqueTail` and
`UniqueAppend` about queue membership.

## Proofs (`DhtProofs`, `DhtFileControlProofs`)

`DhtProofs` proves `ErrorIffCallFailedInvariant` and
`FriendsListedOnSuccessInvariant` for every `MaxFriends`. These are the two
properties of `dht_wrappers`. Their conjunction `Inv` is inductive as it
stands, because every wrapper sets `call`, `toxRes` and `rc` afresh. The
argument rests on three lemmas:
- `TablesMapOnlyOkToSuccess`: in each of the thirteen tables, only `OK`
  maps to `Success`, and `Other` maps to an error. So a wrapper that
  returns the mapped code whatever it is still returns 0 only on success.
- `MinIsLeast`: the least failing index of a set of naturals is below
  every other member. It comes from the well-foundedness of `<` on `Nat`
  (`WellFoundedInduction`). `dht_bootstrap` and `dht_get_friends` return
  the code of the first failing call, and every call before it succeeded.
- `BootstrapInv` and `GetFriendsInv`: the per-action steps. They use
  `SubSeqProperties` for the calls `dht_bootstrap` made up to the failure.

`DhtFileControlProofs` proves `CarrierSeesPeerStateInvariant`, the property
of `dht_file_control_view`, for every `MaxControls`. The property alone is
not inductive: delivering one control of several could make the last
notification disagree with the peer. `FCInv` adds two facts:
- while controls are queued, the peer is in the state that the last queued
  control leaves (`AfterControl`);
- a transfer with a queued control or a notification has left `"none"`,
  so `dht_file_send_request` cannot start while one exists.

Delivering the last queued control then appends notifications whose last
one (`NotesOfLast`, `LastOfConcat`) tells exactly that state.

`SpeedtestProofs` also proves `ChecksumOnFullFileInvariant` from `CInv`:
- `g_data_len` is 0 or the file length;
- the byte count stands at the file length once P is done.

The test `bytes == g_data_len` cannot succeed while `g_data_len` is 0,
because a packet has already been counted.

With these proofs, every safety invariant of a passing run has a TLAPS
proof. The liveness properties `WriterFinishes` and
`EveryInviteAnswered` cannot be proved with TLAPS, because they need
fairness and ENABLED. They are checked with TLC only.

## Not modelled (yet)

- **pfd's signal-driven `shutdown`** and `friend_request`. `shutdown` sets
  `sessions` to NULL and destroys the table, and may do so while another
  thread is inside `delete_session`. Modelling it would need the library's
  behaviour when sessions close during teardown.
- **speedtest's interactive commands** and their argument parsing, for
  example the `argv[2]` slip in `reply_invite`. The refusal path of the
  invite is not modelled either.
- **The parts of `dht.c` with no error path:** `dht_kill`, the getters
  and setters (nospam, status, secret key, savedata), `dht_iterate`,
  `log_cb`, and the callbacks that only forward their arguments.
  `dht_kill` leaves `dht->tox` pointing at the freed instance, so a second
  kill would use freed memory. Only its callers, in the carrier core
  outside the repository, can avoid that. The bootstrap nodes that
  tox has taken are not kept either. No property reads them, and they
  multiplied the state space.
- **What is absent from the repository or is pure I/O:**
  - the session library internals (ICE, FMP);
  - configuration parsing and the CLI;
  - logging and the byte-level port forwarding.
