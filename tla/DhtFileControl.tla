--------------------------- MODULE DhtFileControl ---------------------------
(***************************************************************************)
(* One file transfer through src/src/carrier/dht/dht.c: the carrier sends *)
(* a file (dht_file_send_request), the peer's carrier accepts, pauses,    *)
(* resumes, rejects or cancels it with the dht_file_send_* wrappers, and  *)
(* tox delivers each control to notify_file_control_cb, which tells the   *)
(* carrier what happened.                                                 *)
(*                                                                         *)
(* Whether tox takes a control is taken from the codes tox returns for    *)
(* it and that dht_file_control_error maps (NOT_PAUSED, ALREADY_PAUSED,   *)
(* NOT_FOUND): the state tox keeps is outside the repository.  Controls   *)
(* travel in order and are not lost (the overlay is reliable).            *)
(***************************************************************************)
EXTENDS Sequences, Naturals, DhtErrors

CONSTANT MaxControls   \* file controls the peer sends in one run

ASSUME MaxControlsAssumption == MaxControls \in Nat

VARIABLES
  call,       \* the wrapper that ran last
  toxRes,     \* the code of its tox call
  rc,         \* what it returned
  peerFile,   \* the peer's side of the transfer
  ctrlQ,      \* file controls on their way from the peer
  controls,   \* file controls the peer has sent
  notes       \* file notifications the carrier received, in order

vars == <<call, toxRes, rc, peerFile, ctrlQ, controls, notes>>

(***************************************************************************)
(* dht_file_send_request: fopen the file for its size (a failure returns  *)
(* IOEX_GENERAL_ERROR(FILE_INVALID)), then tox_file_send; the mapped code *)
(* is returned whatever it is.  The model follows one transfer.           *)
(***************************************************************************)
dht_file_send_request ==
  /\ peerFile = "none"
  /\ \/ /\ toxRes' = <<"FOPEN_FAILED">>
        /\ rc' = GeneralErr("FILE_INVALID")
        /\ UNCHANGED peerFile
     \/ \E e \in DOMAIN dht_file_send_error :
          /\ toxRes' = <<e>>
          /\ rc' = dht_file_send_error[e]
          /\ peerFile' = IF e = "OK" THEN "requested" ELSE peerFile
  /\ call' = "file_send_request"
  /\ UNCHANGED <<ctrlQ, controls, notes>>

(***************************************************************************)
(* tox's answer to a file control from the peer's side of the transfer:   *)
(* an incoming file waits paused until accepted; RESUME needs a paused    *)
(* transfer, PAUSE a running one; nothing is found once it is canceled.   *)
(* A control tox would accept may still fail on a full send queue or an  *)
(* offline friend.                                                        *)
(***************************************************************************)
ControlCodes(ctrl, f) ==
  LET verdict ==
        CASE f \in {"none", "canceled"} -> "NOT_FOUND"
          [] ctrl = "RESUME" ->
               IF f \in {"requested", "paused"} THEN "OK" ELSE "NOT_PAUSED"
          [] ctrl = "PAUSE" ->
               IF f = "transferring" THEN "OK" ELSE "ALREADY_PAUSED"
          [] ctrl = "CANCEL" -> "OK"
  IN IF verdict = "OK" THEN {"OK", "SENDQ", "FRIEND_NOT_CONNECTED"}
     ELSE {verdict}

AfterControl(ctrl) ==
  CASE ctrl = "RESUME" -> "transferring"
    [] ctrl = "PAUSE" -> "paused"
    [] ctrl = "CANCEL" -> "canceled"

(***************************************************************************)
(* The peer's dht_file_send_accept/pause/resume/reject/cancel:            *)
(* tox_file_control, and the mapped code returned whatever it is.  A      *)
(* control tox takes is on its way to the carrier.                        *)
(***************************************************************************)
FileControl(name, ctrl) ==
  /\ controls < MaxControls
  /\ \E e \in ControlCodes(ctrl, peerFile) :
       /\ call' = name
       /\ toxRes' = <<e>>
       /\ rc' = dht_file_control_error[e]
       /\ IF e = "OK"
            THEN /\ peerFile' = AfterControl(ctrl)
                 /\ ctrlQ' = Append(ctrlQ, ctrl)
                 /\ controls' = controls + 1
            ELSE UNCHANGED <<peerFile, ctrlQ, controls>>
  /\ UNCHANGED notes

dht_file_send_accept == FileControl("file_send_accept", "RESUME")
dht_file_send_pause == FileControl("file_send_pause", "PAUSE")
dht_file_send_resume == FileControl("file_send_resume", "RESUME")
dht_file_send_reject == FileControl("file_send_reject", "CANCEL")
dht_file_send_cancel == FileControl("file_send_cancel", "CANCEL")

(* Mutant: a PAUSE control falls to the default branch, logged only. *)
notify_file_control_cb_no_pause ==
  /\ ctrlQ # <<>>
  /\ ctrlQ' = Tail(ctrlQ)
  /\ notes' = notes \o CASE Head(ctrlQ) = "PAUSE" -> <<>>
                         [] Head(ctrlQ) = "RESUME" -> <<"resumed", "accepted">>
                         [] Head(ctrlQ) = "CANCEL" -> <<"canceled", "rejected">>
  /\ UNCHANGED <<call, toxRes, rc, peerFile, controls>>

(***************************************************************************)
(* notify_file_control_cb: tox delivers the next control; the carrier is *)
(* told paused, resumed and accepted, or canceled and rejected.           *)
(***************************************************************************)
notify_file_control_cb ==
  /\ ctrlQ # <<>>
  /\ ctrlQ' = Tail(ctrlQ)
  /\ notes' = notes \o CASE Head(ctrlQ) = "PAUSE" -> <<"paused">>
                         [] Head(ctrlQ) = "RESUME" -> <<"resumed", "accepted">>
                         [] Head(ctrlQ) = "CANCEL" -> <<"canceled", "rejected">>
  /\ UNCHANGED <<call, toxRes, rc, peerFile, controls>>


-----------------------------------------------------------------------------
Init ==
  /\ call = "none" /\ toxRes = <<>> /\ rc = Success
  /\ peerFile = "none" /\ ctrlQ = <<>> /\ controls = 0 /\ notes = <<>>

Next ==
  \/ dht_file_send_request
  \/ dht_file_send_accept \/ dht_file_send_pause \/ dht_file_send_resume
  \/ dht_file_send_reject \/ dht_file_send_cancel
  \/ notify_file_control_cb

Spec == Init /\ [][Next]_vars

-----------------------------------------------------------------------------
Notes == {"paused", "resumed", "accepted", "canceled", "rejected"}

TypeOK ==
  /\ peerFile \in {"none", "requested", "transferring", "paused", "canceled"}
  /\ ctrlQ \in Seq({"PAUSE", "RESUME", "CANCEL"})
  /\ controls \in 0 .. MaxControls
  /\ notes \in Seq(Notes)

(* The transfer state a notification tells the carrier of. *)
Told == [paused |-> "paused", resumed |-> "transferring",
         accepted |-> "transferring", canceled |-> "canceled",
         rejected |-> "canceled"]

(***************************************************************************)
(* Once tox has delivered every control the peer sent, the last file      *)
(* notification the carrier got tells the state the peer's side of the    *)
(* transfer is in: notify_file_control_cb reports every control tox can   *)
(* deliver.                                                               *)
(***************************************************************************)
CarrierSeesPeerState ==
  (ctrlQ = <<>> /\ notes # <<>>) => Told[notes[Len(notes)]] = peerFile

(***************************************************************************)
(* The carrier is told that a file transfer was accepted at most once:    *)
(* notify_file_control_cb cannot tell the accept of a transfer from the  *)
(* resume after a pause (both are RESUME).                                *)
(***************************************************************************)
AcceptedOnce ==
  Len(SelectSeq(notes, LAMBDA n : n = "accepted")) <= 1

=============================================================================
