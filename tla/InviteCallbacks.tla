--------------------------- MODULE InviteCallbacks ---------------------------
(***************************************************************************)
(* What the carrier promises the caller of IOEX_invite_friend (spec       *)
(* section 5), with the table abstracted away: a call either fails, and   *)
(* its callback is never called, or sends the invite, after which the    *)
(* callback is called once, with the reply or with TIMEOUT, unless the   *)
(* carrier is killed first.                                               *)
(***************************************************************************)
CONSTANT Calls   \* the invite_friend calls, named by their tid

VARIABLES
  st,      \* per call: "none", "pending" (invite not sent yet), "error", "sent"
  answer,  \* per call: "none", or what the callback was called with
  dead     \* the carrier was killed

avars == <<st, answer, dead>>

Answers == {"reply", "TIMEOUT"}

(* A call starts while the carrier lives. *)
Begin(t) ==
  /\ ~dead
  /\ st[t] = "none"
  /\ st' = [st EXCEPT ![t] = "pending"]
  /\ UNCHANGED <<answer, dead>>

(* The call returns an error: its callback will never run. *)
Fail(t) ==
  /\ st[t] = "pending"
  /\ st' = [st EXCEPT ![t] = "error"]
  /\ UNCHANGED <<answer, dead>>

(* The invite is sent and the call returns success. *)
Send(t) ==
  /\ st[t] = "pending"
  /\ st' = [st EXCEPT ![t] = "sent"]
  /\ UNCHANGED <<answer, dead>>

(* The callback of a sent invite runs, once. *)
Answer(t, k) ==
  /\ ~dead
  /\ st[t] = "sent"
  /\ answer[t] = "none"
  /\ answer' = [answer EXCEPT ![t] = k]
  /\ UNCHANGED <<st, dead>>

Kill ==
  /\ ~dead
  /\ dead' = TRUE
  /\ UNCHANGED <<st, answer>>

AInit ==
  /\ st = [t \in Calls |-> "none"]
  /\ answer = [t \in Calls |-> "none"]
  /\ dead = FALSE

ANext ==
  \/ \E t \in Calls : Begin(t) \/ Fail(t) \/ Send(t)
  \/ \E t \in Calls, k \in Answers : Answer(t, k)
  \/ Kill

(* A started call returns, and a sent invite is answered while the carrier lives. *)
AFairness ==
  \A t \in Calls : /\ WF_avars(Fail(t) \/ Send(t))
                   /\ WF_avars(\E k \in Answers : Answer(t, k))

ASafeSpec == AInit /\ [][ANext]_avars

ASpec == ASafeSpec /\ AFairness

=============================================================================
