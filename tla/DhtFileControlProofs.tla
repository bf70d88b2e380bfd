------------------------ MODULE DhtFileControlProofs ------------------------
(***************************************************************************)
(* Proof that CarrierSeesPeerState holds for every bound on the controls: *)
(* once tox has delivered every file control, the carrier's last          *)
(* notification tells the state of the peer's side of the transfer.      *)
(***************************************************************************)
EXTENDS DhtFileControl, SequenceTheorems, TLAPS

Ctrls == {"PAUSE", "RESUME", "CANCEL"}

(* The notifications notify_file_control_cb gives for one control. *)
NotesOf(c) == CASE c = "PAUSE" -> <<"paused">>
                [] c = "RESUME" -> <<"resumed", "accepted">>
                [] c = "CANCEL" -> <<"canceled", "rejected">>

(***************************************************************************)
(* The strengthening.  While controls are in flight the peer's state is   *)
(* the one the last queued control left it in; the last notification     *)
(* tells the peer's state only once the queue is empty; and a transfer   *)
(* with a control or a notification has left "none", so that a second    *)
(* dht_file_send_request cannot start while either exists.               *)
(***************************************************************************)
FCInv ==
  /\ TypeOK
  /\ ctrlQ # <<>> => peerFile = AfterControl(ctrlQ[Len(ctrlQ)])
  /\ CarrierSeesPeerState
  /\ (ctrlQ # <<>> \/ notes # <<>>) => peerFile # "none"

(* The last element of s \o t is the last of t when t is not empty. *)
LEMMA LastOfConcat ==
  ASSUME NEW S, NEW s \in Seq(S), NEW t \in Seq(S), t # <<>>
  PROVE  /\ s \o t \in Seq(S)
         /\ s \o t # <<>>
         /\ (s \o t)[Len(s \o t)] = t[Len(t)]
<1>1. Len(t) \in Nat \ {0}
  BY EmptySeq, LenProperties
<1>2. QED
  BY <1>1, ConcatProperties

(* The notifications of a control are a non-empty sequence of Notes, and *)
(* their last one tells the state the control leaves the transfer in.    *)
LEMMA NotesOfLast ==
  ASSUME NEW c \in Ctrls
  PROVE  /\ NotesOf(c) \in Seq(Notes)
         /\ NotesOf(c) # <<>>
         /\ Told[NotesOf(c)[Len(NotesOf(c))]] = AfterControl(c)
<1>1. CASE c = "PAUSE"
  BY <1>1 DEF NotesOf, Notes, Told, AfterControl
<1>2. CASE c = "RESUME"
  BY <1>2 DEF NotesOf, Notes, Told, AfterControl
<1>3. CASE c = "CANCEL"
  BY <1>3 DEF NotesOf, Notes, Told, AfterControl
<1>4. QED
  BY <1>1, <1>2, <1>3 DEF Ctrls

(* Nothing is sent or received initially. *)
LEMMA InitFCInv == Init => FCInv
BY MaxControlsAssumption DEF Init, FCInv, TypeOK, CarrierSeesPeerState

(* A control the peer sends keeps FCInv: if tox takes it, it is the last *)
(* queued control and the peer is in the state it leaves.                *)
LEMMA FileControlFCInv ==
  ASSUME FCInv, NEW name, NEW ctrl \in Ctrls, FileControl(name, ctrl)
  PROVE  FCInv'
<1>1. PICK e \in ControlCodes(ctrl, peerFile) :
        /\ call' = name
        /\ toxRes' = <<e>>
        /\ rc' = dht_file_control_error[e]
        /\ IF e = "OK"
             THEN /\ peerFile' = AfterControl(ctrl)
                  /\ ctrlQ' = Append(ctrlQ, ctrl)
                  /\ controls' = controls + 1
             ELSE UNCHANGED <<peerFile, ctrlQ, controls>>
  BY DEF FileControl
<1>2. controls < MaxControls /\ UNCHANGED notes
  BY DEF FileControl
<1>3. CASE e = "OK"
  <2>1. /\ peerFile' = AfterControl(ctrl)
        /\ ctrlQ' = Append(ctrlQ, ctrl)
        /\ controls' = controls + 1
    BY <1>1, <1>3
  <2>2. ctrlQ' \in Seq(Ctrls) /\ ctrlQ' # <<>> /\ ctrlQ'[Len(ctrlQ')] = ctrl
    BY <2>1, AppendProperties DEF FCInv, TypeOK, Ctrls
  <2>3. TypeOK'
    BY <1>2, <2>1, <2>2, MaxControlsAssumption DEF FCInv, TypeOK, Ctrls, AfterControl
  <2>4. peerFile' # "none"
    BY <2>1 DEF Ctrls, AfterControl
  <2>5. QED
    BY <2>1, <2>2, <2>3, <2>4 DEF FCInv, CarrierSeesPeerState
<1>4. CASE e # "OK"
  <2>1. UNCHANGED <<peerFile, ctrlQ, controls, notes>>
    BY <1>1, <1>2, <1>4
  <2>2. QED
    BY <2>1 DEF FCInv, TypeOK, CarrierSeesPeerState
<1>5. QED
  BY <1>3, <1>4

(* Delivering a control keeps FCInv: the queue empties only when the     *)
(* last queued control is delivered, whose last notification tells the  *)
(* peer's state.                                                         *)
LEMMA NotifyFCInv ==
  ASSUME FCInv, notify_file_control_cb
  PROVE  FCInv'
<1> DEFINE c == Head(ctrlQ)
<1>1. /\ ctrlQ # <<>>
      /\ ctrlQ' = Tail(ctrlQ)
      /\ notes' = notes \o NotesOf(c)
      /\ UNCHANGED <<peerFile, controls>>
  BY DEF notify_file_control_cb, NotesOf
<1>2. ctrlQ \in Seq(Ctrls) /\ notes \in Seq(Notes)
  BY DEF FCInv, TypeOK, Ctrls
<1>3. c \in Ctrls /\ c = ctrlQ[1]
  BY <1>1, <1>2
<1>4. /\ ctrlQ' \in Seq(Ctrls)
      /\ Len(ctrlQ') = Len(ctrlQ) - 1
      /\ \A i \in 1 .. Len(ctrlQ') : ctrlQ'[i] = ctrlQ[i + 1]
  BY <1>1, <1>2, HeadTailProperties
<1>5. /\ notes' \in Seq(Notes)
      /\ notes' # <<>>
      /\ Told[notes'[Len(notes')]] = AfterControl(c)
  <2>1. NotesOf(c) \in Seq(Notes) /\ NotesOf(c) # <<>>
        /\ Told[NotesOf(c)[Len(NotesOf(c))]] = AfterControl(c)
    BY <1>3, NotesOfLast
  <2>2. QED
    BY <1>1, <1>2, <2>1, LastOfConcat
<1>6. peerFile = AfterControl(ctrlQ[Len(ctrlQ)]) /\ peerFile # "none"
  BY <1>1 DEF FCInv
<1>7. TypeOK'
  BY <1>1, <1>4, <1>5, <1>6 DEF FCInv, TypeOK, Ctrls
<1>8. CASE ctrlQ' = <<>>
  <2>1. Len(ctrlQ) = 1
    BY <1>2, <1>4, <1>8, EmptySeq
  <2>2. peerFile' = AfterControl(c)
    BY <1>1, <1>3, <1>6, <2>1
  <2>3. QED
    BY <1>1, <1>5, <1>6, <1>7, <1>8, <2>2 DEF FCInv, CarrierSeesPeerState
<1>9. CASE ctrlQ' # <<>>
  <2>1. Len(ctrlQ') \in Nat \ {0}
    BY <1>4, <1>9, EmptySeq, LenProperties
  <2>2. ctrlQ'[Len(ctrlQ')] = ctrlQ[Len(ctrlQ)]
    BY <1>2, <1>4, <2>1
  <2>3. QED
    BY <1>1, <1>6, <1>7, <1>9, <2>2 DEF FCInv, CarrierSeesPeerState
<1>10. QED
  BY <1>8, <1>9

(* Every step keeps FCInv. *)
LEMMA NextFCInv == FCInv /\ [Next]_vars => FCInv'
<1> SUFFICES ASSUME FCInv, [Next]_vars PROVE FCInv'
  OBVIOUS
<1>1. CASE dht_file_send_request
  <2>1. peerFile = "none"
    BY <1>1 DEF dht_file_send_request
  <2>2. ctrlQ = <<>> /\ notes = <<>>
    BY <2>1 DEF FCInv
  <2>3. UNCHANGED <<ctrlQ, controls, notes>>
    BY <1>1 DEF dht_file_send_request
  <2>4. peerFile' \in {"none", "requested"}
    BY <1>1, <2>1 DEF dht_file_send_request
  <2>5. QED
    BY <2>2, <2>3, <2>4 DEF FCInv, TypeOK, CarrierSeesPeerState
<1>2. CASE dht_file_send_accept \/ dht_file_send_resume
  BY <1>2, FileControlFCInv
     DEF dht_file_send_accept, dht_file_send_resume, Ctrls
<1>3. CASE dht_file_send_pause
  BY <1>3, FileControlFCInv DEF dht_file_send_pause, Ctrls
<1>4. CASE dht_file_send_reject \/ dht_file_send_cancel
  BY <1>4, FileControlFCInv
     DEF dht_file_send_reject, dht_file_send_cancel, Ctrls
<1>5. CASE notify_file_control_cb
  BY <1>5, NotifyFCInv
<1>6. CASE UNCHANGED vars
  BY <1>6 DEF vars, FCInv, TypeOK, CarrierSeesPeerState
<1>7. QED
  BY <1>1, <1>2, <1>3, <1>4, <1>5, <1>6 DEF Next

(***************************************************************************)
(* For every bound on the controls: once notify_file_control_cb has      *)
(* delivered every control the peer sent through the dht_file_send_*     *)
(* wrappers, the carrier's last file notification tells the state of the *)
(* peer's side of the transfer.                                          *)
(***************************************************************************)
THEOREM CarrierSeesPeerStateInvariant == Spec => []CarrierSeesPeerState
<1>1. FCInv => CarrierSeesPeerState
  BY DEF FCInv
<1>2. QED
  BY <1>1, InitFCInv, NextFCInv, PTL DEF Spec
=============================================================================
