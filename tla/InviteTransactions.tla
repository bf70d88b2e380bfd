------------------------- MODULE InviteTransactions -------------------------
(***************************************************************************)
(* The transacted-callback table of the carrier (src/src/carrier/         *)
(* tcallbacks.h): a hash table keyed by the 64-bit transaction id (tid)   *)
(* of a friend invite, holding the callback to call with the reply.       *)
(*                                                                         *)
(* The table's helpers are translated from tcallbacks.h: the bucket a tid *)
(* hashes to (cid_hash_code, the sum of the tid's two 32-bit halves modulo *)
(* 2^32), the comparison (cid_compare) and put/get/remove/clear.  The     *)
(* tid is given 2*W bits in place of 64, so that cid_hash_code's halves   *)
(* are W bits wide and distinct tids share buckets.                       *)
(*                                                                         *)
(* The users of the table live in the carrier core, which is not in the   *)
(* repository; they are modelled from spec section 5: an application     *)
(* thread puts the callback and sends the invite, the identity-overlay    *)
(* iteration thread delivers replies and expires entries after 60 s with  *)
(* TIMEOUT, each under the table's mutex; killing the carrier clears the  *)
(* table.                                                                  *)
(***************************************************************************)
EXTENDS Integers, Sequences

CONSTANT W    \* bits of each half of a tid (32 in the code)

ASSUME WAssumption == W \in Nat \ {0}

(* The tids: signed integers of 2*W bits. *)
Tids == -(2^(2*W - 1)) .. 2^(2*W - 1) - 1

VARIABLES
  table,      \* the tids of the entries in the table
  phase,      \* per tid, where the invite_friend call that owns it is
  wire,       \* the tids whose invite reached the peer
  delivered,  \* per tid, what its callback has been called with
  killed      \* the carrier was killed

vars == <<table, phase, wire, delivered, killed>>

Phases == {"none", "put", "sent", "error"}
(* What a callback is called with: the reply to invite tid, or TIMEOUT. *)
Results == [kind : {"reply", "TIMEOUT"}, tid : Tids]

-----------------------------------------------------------------------------
(***************************************************************************)
(* cid_hash_code: the tid is read as 2*W bits (tid & mask converts it to  *)
(* unsigned), and the low and high halves are added as uint32, wrapping.  *)
(***************************************************************************)
cid_hash_code(tid) ==
  LET u == tid % 2^(2*W)
  IN  ((u % 2^W) + (u \div 2^W)) % 2^W

(* Mutant: only the tids of equal value or above compare unequal. *)
cid_compare_no_less(tid1, tid2) == IF tid1 > tid2 THEN 1 ELSE 0

(* cid_compare: signed comparison of two tids. *)
cid_compare(tid1, tid2) ==
  IF tid1 > tid2 THEN 1 ELSE IF tid1 < tid2 THEN -1 ELSE 0

(***************************************************************************)
(* The entries hashtable_get, _exist and _remove can find for a key: in  *)
(* the key's bucket, one that cid_compare says is equal (the order of the *)
(* bucket's chain is left open).                                          *)
(***************************************************************************)
Lookup(tbl, tid) ==
  {e \in tbl : cid_hash_code(e) = cid_hash_code(tid) /\ cid_compare(e, tid) = 0}

transacted_callbacks_exist(tbl, tid) == Lookup(tbl, tid) # {}

transacted_callbacks_put(tbl, tid) == tbl \cup {tid}

(* transacted_callbacks_get: the set of entries it may return. *)
transacted_callbacks_get(tbl, tid) == Lookup(tbl, tid)

(***************************************************************************)
(* transacted_callbacks_remove with the key of entry e found by a lookup  *)
(* of the same key: hashtable_remove walks the same chain, unlinks e and  *)
(* the deref drops the table's reference.                                 *)
(***************************************************************************)
transacted_callbacks_remove(tbl, e) == tbl \ {e}

transacted_callbacks_clear(tbl) == {}

-----------------------------------------------------------------------------
(***************************************************************************)
(* invite_friend, first step: the callback is put under a fresh tid.      *)
(***************************************************************************)
invite_put(t) ==
  /\ ~killed
  /\ phase[t] = "none"
  /\ ~transacted_callbacks_exist(table, t)
  /\ table' = transacted_callbacks_put(table, t)
  /\ phase' = [phase EXCEPT ![t] = "put"]
  /\ UNCHANGED <<wire, delivered, killed>>

(***************************************************************************)
(* invite_friend, second step: the invite goes to the overlay.  When the  *)
(* overlay refuses it, the entry is removed again and the call returns    *)
(* the error, without calling the callback (a carrier killed meanwhile  *)
(* has cleared the entry already, and the remove finds nothing).          *)
(***************************************************************************)
invite_send(t) ==
  /\ phase[t] = "put"
  /\ \/ /\ wire' = wire \cup {t}
        /\ phase' = [phase EXCEPT ![t] = "sent"]
        /\ UNCHANGED table
     \/ /\ \/ transacted_callbacks_get(table, t) = {} /\ UNCHANGED table
           \/ \E e \in transacted_callbacks_get(table, t) :
                table' = transacted_callbacks_remove(table, e)
        /\ phase' = [phase EXCEPT ![t] = "error"]
        /\ UNCHANGED wire
  /\ UNCHANGED <<delivered, killed>>

(* Mutant: the reply is delivered and the entry left in the table. *)
invite_reply_keep(t) ==
  /\ ~killed
  /\ t \in wire
  /\ \/ /\ transacted_callbacks_get(table, t) = {}
        /\ UNCHANGED <<table, delivered>>
     \/ \E e \in transacted_callbacks_get(table, t) :
          /\ delivered' = [delivered EXCEPT ![e] = Append(@, [kind |-> "reply", tid |-> t])]
          /\ UNCHANGED table
  /\ UNCHANGED <<phase, wire, killed>>

(***************************************************************************)
(* The peer's reply to the invite with tid t, on the iteration thread; it *)
(* may come more than once, or after the entry expired.  An entry found   *)
(* for t is removed and its callback called with the reply; a reply with  *)
(* no entry is dropped.                                                   *)
(***************************************************************************)
invite_reply(t) ==
  /\ ~killed
  /\ t \in wire
  /\ \/ /\ transacted_callbacks_get(table, t) = {}
        /\ UNCHANGED <<table, delivered>>
     \/ \E e \in transacted_callbacks_get(table, t) :
          /\ table' = transacted_callbacks_remove(table, e)
          /\ delivered' = [delivered EXCEPT ![e] = Append(@, [kind |-> "reply", tid |-> t])]
  /\ UNCHANGED <<phase, wire, killed>>

(* Mutant: the expired entry is released and its caller never told. *)
invite_expire_silent(t) ==
  /\ ~killed
  /\ t \in table
  /\ phase[t] = "sent"
  /\ \E e \in transacted_callbacks_get(table, t) :
       table' = transacted_callbacks_remove(table, e)
  /\ UNCHANGED <<phase, wire, delivered, killed>>

(* Mutant: the timeout may fire before invite_friend has sent the invite. *)
invite_expire_early(t) ==
  /\ ~killed
  /\ t \in table
  /\ \E e \in transacted_callbacks_get(table, t) :
       table' = transacted_callbacks_remove(table, e)
  /\ delivered' = [delivered EXCEPT ![t] = Append(@, [kind |-> "TIMEOUT", tid |-> t])]
  /\ UNCHANGED <<phase, wire, killed>>

(***************************************************************************)
(* The 60 s timeout of entry t, on the iteration thread: the entry is     *)
(* removed by its tid and its callback called with TIMEOUT.  The timeout  *)
(* counts from the invite, so it comes after invite_friend returned.      *)
(***************************************************************************)
invite_expire(t) ==
  /\ ~killed
  /\ t \in table
  /\ phase[t] = "sent"
  /\ \E e \in transacted_callbacks_get(table, t) :
       table' = transacted_callbacks_remove(table, e)
  /\ delivered' = [delivered EXCEPT ![t] = Append(@, [kind |-> "TIMEOUT", tid |-> t])]
  /\ UNCHANGED <<phase, wire, killed>>

(* Killing the carrier clears the table; pending callbacks are dropped. *)
carrier_kill ==
  /\ ~killed
  /\ table' = transacted_callbacks_clear(table)
  /\ killed' = TRUE
  /\ UNCHANGED <<phase, wire, delivered>>

-----------------------------------------------------------------------------
Init ==
  /\ table = {}
  /\ phase = [t \in Tids |-> "none"]
  /\ wire = {}
  /\ delivered = [t \in Tids |-> <<>>]
  /\ killed = FALSE

Next ==
  \/ \E t \in Tids :
       invite_put(t) \/ invite_send(t) \/ invite_reply(t) \/ invite_expire(t)
  \/ carrier_kill

(***************************************************************************)
(* The iteration thread runs its expiry check while the carrier lives,   *)
(* and an application thread inside invite_friend finishes the call.     *)
(***************************************************************************)
Fairness ==
  \A t \in Tids : WF_vars(invite_send(t)) /\ WF_vars(invite_expire(t))

Spec == Init /\ [][Next]_vars /\ Fairness

-----------------------------------------------------------------------------
TypeOK ==
  /\ table \subseteq Tids
  /\ phase \in [Tids -> Phases]
  /\ wire \subseteq Tids
  /\ delivered \in [Tids -> Seq(Results)]
  /\ killed \in BOOLEAN

(***************************************************************************)
(* Exactly-once, safety half: an invite's callback is called at most      *)
(* once, whatever replies, duplicates and timeouts race, and never for a  *)
(* call of invite_friend that returned an error.                          *)
(***************************************************************************)
CalledAtMostOnce ==
  \A t \in Tids :
    /\ Len(delivered[t]) <= 1
    /\ phase[t] = "error" => delivered[t] = <<>>

(***************************************************************************)
(* A callback is called with the reply to its own invite or TIMEOUT,      *)
(* never with the reply to another invite whose tid shares its bucket.    *)
(***************************************************************************)
OwnReplyOnly ==
  \A t \in Tids : \A i \in DOMAIN delivered[t] : delivered[t][i].tid = t

(***************************************************************************)
(* Exactly-once, liveness half: once invite_friend has sent the invite,   *)
(* its callback is called (with the reply or TIMEOUT) unless the carrier *)
(* is killed first.                                                       *)
(***************************************************************************)
EveryInviteAnswered ==
  \A t \in Tids : (phase[t] = "sent") ~> (delivered[t] # <<>> \/ killed)

(***************************************************************************)
(* The inductive invariant behind CalledAtMostOnce and OwnReplyOnly: an   *)
(* entry in the table belongs to a pending invite_friend call whose       *)
(* callback has not been called, and a call that has not sent its invite *)
(* (or failed to) has no reply on the wire and no result.  It states why  *)
(* the remove in the reply and in the expiry is what prevents a second   *)
(* call: only a tid in the table can be delivered.                        *)
(***************************************************************************)
IInv ==
  /\ TypeOK
  /\ \A t \in table : phase[t] \in {"put", "sent"} /\ delivered[t] = <<>>
  /\ \A t \in Tids : phase[t] \in {"none", "put", "error"} =>
                        t \notin wire /\ delivered[t] = <<>>
  /\ \A t \in Tids : phase[t] = "none" => t \notin table
  /\ \A t \in Tids : Len(delivered[t]) <= 1
  /\ \A t \in Tids : \A i \in DOMAIN delivered[t] : delivered[t][i].tid = t

-----------------------------------------------------------------------------
(***************************************************************************)
(* The refinement mapping to InviteCallbacks: a call whose callback is in *)
(* the table before the send is "pending", and what its callback was     *)
(* called with is the kind of its first delivery.                        *)
(***************************************************************************)
AbsSt == [t \in Tids |-> IF phase[t] = "put" THEN "pending" ELSE phase[t]]

AbsAnswer ==
  [t \in Tids |-> IF delivered[t] = <<>> THEN "none" ELSE delivered[t][1].kind]

Abs == INSTANCE InviteCallbacks
         WITH Calls <- Tids, st <- AbsSt, answer <- AbsAnswer, dead <- killed

(***************************************************************************)
(* The table, with its hashing, duplicated and late replies, the expiry   *)
(* and the kill, implements the promise of invite_friend: each sent       *)
(* invite's callback is called exactly once (the reply or TIMEOUT) while  *)
(* the carrier lives, a failed call's never, and every call returns.      *)
(***************************************************************************)
ImplementsInviteCallbacks == Abs!ASpec

====
