----------------------- MODULE InviteTransactionsProofs -----------------------
(***************************************************************************)
(* Proofs about the transacted-callback table, for every tid width W:     *)
(* IInv is an inductive invariant of InviteTransactions, so an invite's   *)
(* callback is called at most once and only with its own reply or with    *)
(* TIMEOUT (CalledAtMostOnce, OwnReplyOnly).                              *)
(***************************************************************************)
EXTENDS InviteTransactions, TLAPS

(***************************************************************************)
(* A lookup of tid t in the table finds t itself when it is there and     *)
(* nothing else: cid_compare is 0 only on equal tids, whatever bucket     *)
(* cid_hash_code gives.                                                    *)
(***************************************************************************)
LEMMA LookupExact ==
  ASSUME NEW tbl \in SUBSET Int, NEW t \in Int
  PROVE  /\ Lookup(tbl, t) \subseteq {t}
         /\ t \in tbl => t \in Lookup(tbl, t)
<1>1. \A e \in Lookup(tbl, t) : e = t
  BY DEF Lookup, cid_compare
<1>2. t \in tbl => t \in Lookup(tbl, t)
  BY DEF Lookup, cid_compare
<1>3. QED
  BY <1>1, <1>2

(* Initially nothing is in the table and no callback has been called. *)
LEMMA InitIInv == Init => IInv
<1> SUFFICES ASSUME Init PROVE IInv
  OBVIOUS
<1>1. delivered \in [Tids -> Seq(Results)]
  BY DEF Init
<1>2. \A t \in Tids : delivered[t] = <<>> /\ Len(delivered[t]) = 0
                      /\ DOMAIN delivered[t] = {}
  BY DEF Init
<1>3. phase \in [Tids -> Phases] /\ \A t \in Tids : phase[t] = "none"
  BY DEF Init, Phases
<1>4. table = {} /\ wire = {} /\ killed = FALSE
  BY DEF Init
<1>5. TypeOK
  BY <1>1, <1>3, <1>4 DEF TypeOK
<1>6. \A t \in Tids : \A i \in DOMAIN delivered[t] : delivered[t][i].tid = t
  BY <1>2
<1>7. QED
  BY <1>2, <1>3, <1>4, <1>5, <1>6 DEF IInv

(* Every step of the callers, the iteration thread or a kill keeps IInv. *)
LEMMA NextIInv == IInv /\ [Next]_vars => IInv'
<1> SUFFICES ASSUME IInv, [Next]_vars PROVE IInv'
  OBVIOUS
<1> USE DEF IInv, TypeOK, Phases, Results
<1>0. Tids \subseteq Int
  BY DEF Tids
<1>1. ASSUME NEW t \in Tids, invite_put(t) PROVE IInv'
  <2>1. t \notin table
    BY <1>0, <1>1, LookupExact DEF invite_put, transacted_callbacks_exist
  <2>2. QED
    BY <1>1, <2>1 DEF invite_put, transacted_callbacks_put
<1>2. ASSUME NEW t \in Tids, invite_send(t) PROVE IInv'
  <2>1. delivered[t] = <<>> /\ t \notin wire
    BY <1>2 DEF invite_send
  <2>2. table' \subseteq table
    BY <1>2 DEF invite_send, transacted_callbacks_remove
  <2>3. CASE wire' = wire \cup {t} /\ phase' = [phase EXCEPT ![t] = "sent"]
                /\ UNCHANGED table
    BY <1>2, <2>1, <2>3 DEF invite_send
  <2>4. CASE wire' = wire /\ phase' = [phase EXCEPT ![t] = "error"]
    <3>1. t \notin table'
      <4>1. CASE transacted_callbacks_get(table, t) = {} /\ UNCHANGED table
        BY <1>0, <4>1, LookupExact DEF transacted_callbacks_get
      <4>2. CASE \E e \in transacted_callbacks_get(table, t) :
                   table' = transacted_callbacks_remove(table, e)
        BY <1>0, <4>2, LookupExact
           DEF transacted_callbacks_get, transacted_callbacks_remove
      <4>3. QED
        BY <1>2, <2>4, <4>1, <4>2 DEF invite_send
    <3>2. QED
      BY <1>2, <2>1, <2>2, <2>4, <3>1 DEF invite_send
  <2>5. QED
    BY <1>2, <2>3, <2>4 DEF invite_send
<1>3. ASSUME NEW t \in Tids, invite_reply(t) PROVE IInv'
  <2>1. CASE transacted_callbacks_get(table, t) = {} /\ UNCHANGED <<table, delivered>>
    BY <1>3, <2>1 DEF invite_reply
  <2>2. CASE \E e \in transacted_callbacks_get(table, t) :
               /\ table' = transacted_callbacks_remove(table, e)
               /\ delivered' = [delivered EXCEPT ![e] = Append(@, [kind |-> "reply", tid |-> t])]
    <3>1. PICK e \in transacted_callbacks_get(table, t) :
               /\ table' = transacted_callbacks_remove(table, e)
               /\ delivered' = [delivered EXCEPT ![e] = Append(@, [kind |-> "reply", tid |-> t])]
      BY <2>2
    <3>2. e = t /\ t \in table
      BY <1>0, LookupExact DEF transacted_callbacks_get, Lookup
    <3>3. delivered[t] = <<>>
      BY <3>2
    <3>4. delivered' = [delivered EXCEPT ![t] = <<[kind |-> "reply", tid |-> t]>>]
      BY <3>1, <3>2, <3>3
    <3>5. table' = table \ {t}
      BY <3>1, <3>2 DEF transacted_callbacks_remove
    <3>6. QED
      BY <1>3, <3>2, <3>4, <3>5 DEF invite_reply
  <2>3. QED
    BY <1>3, <2>1, <2>2 DEF invite_reply
<1>4. ASSUME NEW t \in Tids, invite_expire(t) PROVE IInv'
  <2>1. PICK e \in transacted_callbacks_get(table, t) :
               table' = transacted_callbacks_remove(table, e)
    BY <1>4 DEF invite_expire
  <2>2. e = t /\ t \in table /\ delivered[t] = <<>>
    BY <1>0, <1>4, LookupExact DEF transacted_callbacks_get, Lookup, invite_expire
  <2>3. table' = table \ {t}
    BY <2>1, <2>2 DEF transacted_callbacks_remove
  <2>4. delivered' = [delivered EXCEPT ![t] = <<[kind |-> "TIMEOUT", tid |-> t]>>]
    BY <1>4, <2>2 DEF invite_expire
  <2>5. QED
    BY <1>4, <2>3, <2>4 DEF invite_expire
<1>5. CASE carrier_kill
  BY <1>5 DEF carrier_kill, transacted_callbacks_clear
<1>6. CASE UNCHANGED vars
  BY <1>6 DEF vars
<1>7. QED
  BY <1>1, <1>2, <1>3, <1>4, <1>5, <1>6 DEF Next

(* IInv holds in every state of every behaviour. *)
THEOREM IInvInvariant == Spec => []IInv
BY InitIInv, NextIInv, PTL DEF Spec

(***************************************************************************)
(* Whatever replies, duplicated replies and 60 s timeouts race on the     *)
(* iteration thread, an invite's callback is called at most once, and     *)
(* never after invite_friend returned an error.                           *)
(***************************************************************************)
THEOREM CalledAtMostOnceInvariant == Spec => []CalledAtMostOnce
<1>1. IInv => CalledAtMostOnce
  BY DEF IInv, CalledAtMostOnce
<1>2. QED
  BY <1>1, IInvInvariant, PTL

(***************************************************************************)
(* A callback is called with the reply to its own invite or with          *)
(* TIMEOUT, never with the reply to an invite whose tid shares its       *)
(* cid_hash_code bucket.                                                  *)
(***************************************************************************)
THEOREM OwnReplyOnlyInvariant == Spec => []OwnReplyOnly
<1>1. IInv => OwnReplyOnly
  BY DEF IInv, OwnReplyOnly
<1>2. QED
  BY <1>1, IInvInvariant, PTL

-----------------------------------------------------------------------------
(***************************************************************************)
(* Refinement, safety part: each step of the table is a step of           *)
(* InviteCallbacks under the mapping (AbsSt, AbsAnswer, killed), or leaves *)
(* the mapped state alone.                                                *)
(***************************************************************************)
LEMMA InitRefines == Init => Abs!AInit
  BY DEF Init, Abs!AInit, AbsSt, AbsAnswer

LEMMA NextRefines == IInv /\ [Next]_vars => [Abs!ANext]_Abs!avars
<1> SUFFICES ASSUME IInv, [Next]_vars PROVE [Abs!ANext]_Abs!avars
  OBVIOUS
<1> USE DEF IInv, TypeOK, Phases, Results
<1>0. Tids \subseteq Int
  BY DEF Tids
<1>1. ASSUME NEW t \in Tids, invite_put(t) PROVE Abs!Begin(t)
  BY <1>1 DEF invite_put, Abs!Begin, AbsSt, AbsAnswer
<1>2. ASSUME NEW t \in Tids, invite_send(t)
      PROVE  Abs!Send(t) \/ Abs!Fail(t)
  <2>1. CASE phase' = [phase EXCEPT ![t] = "sent"]
    BY <1>2, <2>1 DEF invite_send, Abs!Send, AbsSt, AbsAnswer
  <2>2. CASE phase' = [phase EXCEPT ![t] = "error"]
    BY <1>2, <2>2 DEF invite_send, Abs!Fail, AbsSt, AbsAnswer
  <2>3. QED
    BY <1>2, <2>1, <2>2 DEF invite_send
<1>3. ASSUME NEW t \in Tids, invite_reply(t)
      PROVE  Abs!Answer(t, "reply") \/ UNCHANGED Abs!avars
  <2>1. CASE transacted_callbacks_get(table, t) = {}
    <3>1. UNCHANGED <<table, delivered, phase, killed>>
      BY <1>3, <2>1 DEF invite_reply
    <3>2. AbsSt' = AbsSt /\ AbsAnswer' = AbsAnswer
      BY <3>1 DEF AbsSt, AbsAnswer
    <3>3. QED
      BY <3>1, <3>2 DEF Abs!avars
  <2>2. CASE transacted_callbacks_get(table, t) # {}
    <3>0. Lookup(table, t) # {} /\ Lookup(table, t) \subseteq {t}
      BY <1>0, <2>2, LookupExact DEF transacted_callbacks_get
    <3>1. t \in table /\ transacted_callbacks_get(table, t) = {t}
      BY <3>0 DEF transacted_callbacks_get, Lookup
    <3>2. /\ delivered' = [delivered EXCEPT ![t] = Append(@, [kind |-> "reply", tid |-> t])]
          /\ UNCHANGED <<phase, killed>>
          /\ ~killed /\ t \in wire
      BY <1>3, <2>2, <3>1 DEF invite_reply
    <3>3. phase[t] = "sent" /\ delivered[t] = <<>>
      BY <3>1, <3>2
    <3>4. Abs!Answer(t, "reply")
      <4>1. AbsSt' = AbsSt
        BY <3>2 DEF AbsSt
      <4>2. delivered'[t] = <<[kind |-> "reply", tid |-> t]>>
        BY <3>2, <3>3
      <4>3. AbsAnswer' = [AbsAnswer EXCEPT ![t] = "reply"]
        <5>1. \A u \in Tids : delivered'[u] = IF u = t THEN delivered'[t] ELSE delivered[u]
          BY <3>2, <4>2
        <5>2. \A u \in Tids : AbsAnswer'[u] = IF u = t THEN "reply" ELSE AbsAnswer[u]
          BY <3>2, <4>2, <5>1 DEF AbsAnswer
        <5>3. QED
          BY <5>2 DEF AbsAnswer
      <4>4. AbsSt[t] = "sent" /\ AbsAnswer[t] = "none"
        BY <3>3 DEF AbsSt, AbsAnswer
      <4>5. QED
        BY <3>2, <4>1, <4>3, <4>4 DEF Abs!Answer
    <3>5. QED
      BY <3>4
  <2>3. QED
    BY <2>1, <2>2
<1>4. ASSUME NEW t \in Tids, invite_expire(t) PROVE Abs!Answer(t, "TIMEOUT")
  <2>1. /\ delivered' = [delivered EXCEPT ![t] = Append(@, [kind |-> "TIMEOUT", tid |-> t])]
        /\ UNCHANGED <<phase, killed>>
        /\ ~killed /\ t \in table /\ phase[t] = "sent"
    BY <1>4 DEF invite_expire
  <2>2. delivered[t] = <<>>
    BY <2>1
  <2>3. AbsSt' = AbsSt
    BY <2>1 DEF AbsSt
  <2>4. delivered'[t] = <<[kind |-> "TIMEOUT", tid |-> t]>>
    BY <2>1, <2>2
  <2>5. AbsAnswer' = [AbsAnswer EXCEPT ![t] = "TIMEOUT"]
    <3>1. \A u \in Tids : delivered'[u] = IF u = t THEN delivered'[t] ELSE delivered[u]
      BY <2>1, <2>4
    <3>2. \A u \in Tids : AbsAnswer'[u] = IF u = t THEN "TIMEOUT" ELSE AbsAnswer[u]
      BY <2>1, <2>4, <3>1 DEF AbsAnswer
    <3>3. QED
      BY <3>2 DEF AbsAnswer
  <2>6. AbsSt[t] = "sent" /\ AbsAnswer[t] = "none"
    BY <2>1, <2>2 DEF AbsSt, AbsAnswer
  <2>7. QED
    BY <2>1, <2>3, <2>5, <2>6 DEF Abs!Answer
<1>5. ASSUME carrier_kill PROVE Abs!Kill
  <2>1. ~killed /\ killed' = TRUE /\ UNCHANGED <<phase, delivered>>
    BY <1>5 DEF carrier_kill
  <2>2. AbsSt' = AbsSt /\ AbsAnswer' = AbsAnswer
    BY <2>1 DEF AbsSt, AbsAnswer
  <2>3. QED
    BY <2>1, <2>2 DEF Abs!Kill
<1>6. ASSUME UNCHANGED vars PROVE UNCHANGED Abs!avars
  BY <1>6 DEF vars, Abs!avars, AbsSt, AbsAnswer
<1>7. QED
  BY <1>1, <1>2, <1>3, <1>4, <1>5, <1>6 DEF Next, Abs!ANext, Abs!Answers

(***************************************************************************)
(* The transacted-callback table implements the safety part of the        *)
(* promise of IOEX_invite_friend (InviteCallbacks): a failed call's       *)
(* callback never runs, and a sent invite's runs at most once, with the   *)
(* reply or TIMEOUT, and not after the carrier was killed.                *)
(***************************************************************************)
THEOREM RefinesInviteCallbacks == Spec => Abs!ASafeSpec
<1>1. Init => Abs!AInit
  BY InitRefines
<1>2. IInv /\ [Next]_vars => [Abs!ANext]_Abs!avars
  BY NextRefines
<1>3. QED
  BY <1>1, <1>2, IInvInvariant, PTL DEF Spec, Abs!ASafeSpec

====
