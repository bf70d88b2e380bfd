------------------------------ MODULE DhtProofs ------------------------------
(***************************************************************************)
(* Proofs about the dht_* wrappers (Dht), for every size of tox's friend  *)
(* list: a wrapper returns 0 exactly when every call it made succeeded    *)
(* (ErrorIffCallFailed), and dht_get_friends returns 0 only after a       *)
(* complete or a deliberately stopped walk (FriendsListedOnSuccess).      *)
(***************************************************************************)
EXTENDS Dht, WellFoundedInduction, FiniteSetTheorems, SequenceTheorems, TLAPS

(* The error mapping of a switch gives IOEXSUCCESS for the OK code only. *)
MapsOnlyOkToSuccess(map) == \A e \in DOMAIN map : map[e] = Success <=> e = "OK"

(* Every __dht_ error mapping sends only the OK code to success. *)
LEMMA TablesMapOnlyOkToSuccess ==
  /\ MapsOnlyOkToSuccess(dht_new_error)
  /\ MapsOnlyOkToSuccess(dht_bootstrap_error)
  /\ MapsOnlyOkToSuccess(dht_friend_query_error)
  /\ MapsOnlyOkToSuccess(dht_friend_get_pk_error)
  /\ MapsOnlyOkToSuccess(dht_set_info_error)
  /\ MapsOnlyOkToSuccess(dht_friend_by_pk_error)
  /\ MapsOnlyOkToSuccess(dht_friend_add_error)
  /\ MapsOnlyOkToSuccess(dht_friend_send_msg_error)
  /\ MapsOnlyOkToSuccess(dht_friend_delete_error)
  /\ MapsOnlyOkToSuccess(dht_file_send_error)
  /\ MapsOnlyOkToSuccess(dht_file_seek_error)
  /\ MapsOnlyOkToSuccess(dht_file_control_error)
  /\ MapsOnlyOkToSuccess(dht_file_send_chunk_error)
<1> USE DEF MapsOnlyOkToSuccess, Switch, Success, DhtErr, Other
<1>1. MapsOnlyOkToSuccess(dht_new_error)
  BY DEF dht_new_error
<1>2. MapsOnlyOkToSuccess(dht_bootstrap_error)
  BY DEF dht_bootstrap_error
<1>3. MapsOnlyOkToSuccess(dht_friend_query_error)
  BY DEF dht_friend_query_error
<1>4. MapsOnlyOkToSuccess(dht_friend_get_pk_error)
  BY DEF dht_friend_get_pk_error
<1>5. MapsOnlyOkToSuccess(dht_set_info_error)
  BY DEF dht_set_info_error
<1>6. MapsOnlyOkToSuccess(dht_friend_by_pk_error)
  BY DEF dht_friend_by_pk_error
<1>7. MapsOnlyOkToSuccess(dht_friend_add_error)
  BY DEF dht_friend_add_error
<1>8. MapsOnlyOkToSuccess(dht_friend_send_msg_error)
  BY DEF dht_friend_send_msg_error
<1>9. MapsOnlyOkToSuccess(dht_friend_delete_error)
  BY DEF dht_friend_delete_error
<1>10. MapsOnlyOkToSuccess(dht_file_send_error)
  BY DEF dht_file_send_error
<1>11. MapsOnlyOkToSuccess(dht_file_seek_error)
  BY DEF dht_file_seek_error
<1>12. MapsOnlyOkToSuccess(dht_file_control_error)
  BY DEF dht_file_control_error
<1>13. MapsOnlyOkToSuccess(dht_file_send_chunk_error)
  BY DEF dht_file_send_chunk_error
<1>14. QED
  BY <1>1, <1>2, <1>3, <1>4, <1>5, <1>6, <1>7, <1>8, <1>9, <1>10, <1>11,
     <1>12, <1>13

(* A non-empty set of naturals has a least element, and Min picks it. *)
LEMMA MinIsLeast ==
  ASSUME NEW S \in SUBSET Nat, S # {}
  PROVE  Min(S) \in S /\ \A y \in S : Min(S) <= y
<1>1. \E x \in S : \A y \in S : ~(<<y, x>> \in OpToRel(<, Nat))
  BY NatLessThanWellFounded, WFMin
<1>2. \E x \in S : \A y \in S : ~(y < x)
  BY <1>1, Zenon DEF OpToRel
<1>4. \E x \in S : \A y \in S : x <= y
  BY <1>2
<1>3. QED
  BY <1>4 DEF Min

(* A friend's outcome is a success exactly when its code is OK, and a    *)
(* failed query of dht_get_friends returns an error.                     *)
LEMMA FriendOutcomeCodes ==
  ASSUME NEW o \in FriendOutcomes
  PROVE  /\ o[1] = "ok" <=> o[2] = "OK"
         /\ o[1] # "ok" => FriendError(o) # Success
<1>1. CASE o[1] = "pk"
  BY <1>1, TablesMapOnlyOkToSuccess
     DEF FriendOutcomes, FriendError, MapsOnlyOkToSuccess
<1>2. CASE o[1] # "pk"
  BY <1>2, TablesMapOnlyOkToSuccess
     DEF FriendOutcomes, FriendError, MapsOnlyOkToSuccess
<1>3. QED
  BY <1>1, <1>2

-----------------------------------------------------------------------------
(* The two properties together: what the proof carries from step to step. *)
Inv == ErrorIffCallFailed /\ FriendsListedOnSuccess

(* A wrapper other than dht_get_friends leaves a state with both properties *)
(* when what it returns is 0 exactly when its calls all returned OK.       *)
LEMMA OtherCall ==
  ASSUME call' # "get_friends",
         (rc' = Success) <=> (\A i \in DOMAIN toxRes' : toxRes'[i] = "OK")
  PROVE  Inv'
  BY DEF Inv, ErrorIffCallFailed, FriendsListedOnSuccess

(* One tox call whose error is mapped by a table sending only OK to 0. *)
LEMMA OneCallInv ==
  ASSUME NEW name, name # "get_friends", NEW map, MapsOnlyOkToSuccess(map),
         OneCall(name, map)
  PROVE  Inv'
<1>1. PICK e \in DOMAIN map :
        call' = name /\ toxRes' = <<e>> /\ rc' = IF e # "OK" THEN map[e] ELSE Success
  BY DEF OneCall
<1>2. (rc' = Success) <=> (\A i \in DOMAIN toxRes' : toxRes'[i] = "OK")
  BY <1>1 DEF MapsOnlyOkToSuccess
<1>3. QED
  BY <1>1, <1>2, OtherCall

(* dht_bootstrap returns the mapped error of the first failing call. *)
LEMMA BootstrapInv ==
  ASSUME dht_bootstrap PROVE Inv'
<1>1. PICK has4 \in BOOLEAN, has6 \in BOOLEAN :
        LET steps == BootstrapSteps(has4, has6) IN
        \E res \in [1 .. Len(steps) -> DOMAIN dht_bootstrap_error] :
          LET failed == {i \in DOMAIN res : res[i] # "OK"}
              last == IF failed = {} THEN Len(steps) ELSE Min(failed)
          IN /\ call' = "bootstrap"
             /\ toxRes' = SubSeq(res, 1, last)
             /\ rc' = IF failed = {} THEN Success
                      ELSE dht_bootstrap_error[res[last]]
  BY DEF dht_bootstrap
<1> DEFINE steps == BootstrapSteps(has4, has6)
<1>2. Len(steps) \in Nat
  BY DEF BootstrapSteps
<1>3. PICK res \in [1 .. Len(steps) -> DOMAIN dht_bootstrap_error] :
        LET failed == {i \in DOMAIN res : res[i] # "OK"}
            last == IF failed = {} THEN Len(steps) ELSE Min(failed)
        IN /\ call' = "bootstrap"
           /\ toxRes' = SubSeq(res, 1, last)
           /\ rc' = IF failed = {} THEN Success
                    ELSE dht_bootstrap_error[res[last]]
  BY <1>1
<1> DEFINE failed == {i \in DOMAIN res : res[i] # "OK"}
<1>7. failed \subseteq 1 .. Len(steps) /\ failed \in SUBSET Nat
  OBVIOUS
<1>8. ASSUME NEW last \in 0 .. Len(steps)
      PROVE  /\ DOMAIN SubSeq(res, 1, last) = 1 .. last
             /\ \A i \in 1 .. last : SubSeq(res, 1, last)[i] = res[i]
  <2>1. /\ SubSeq(res, 1, last) \in Seq(DOMAIN dht_bootstrap_error)
        /\ Len(SubSeq(res, 1, last)) = IF 1 <= last THEN last ELSE 0
        /\ \A i \in 1 .. last : SubSeq(res, 1, last)[i] = res[i]
    BY <1>2, SubSeqProperties
  <2>2. QED
    BY <2>1
<1>4. CASE failed = {}
  <2>1. /\ toxRes' = SubSeq(res, 1, Len(steps))
        /\ rc' = Success /\ call' = "bootstrap"
    BY <1>3, <1>4
  <2>2. \A i \in DOMAIN toxRes' : toxRes'[i] = "OK"
    BY <1>2, <1>4, <1>8, <2>1
  <2>3. QED
    BY <2>1, <2>2, OtherCall
<1>5. CASE failed # {}
  <2> DEFINE last == Min(failed)
  <2>1. last \in failed
    BY <1>5, <1>7, MinIsLeast
  <2>2. /\ toxRes' = SubSeq(res, 1, last)
        /\ rc' = dht_bootstrap_error[res[last]]
        /\ call' = "bootstrap"
    BY <1>3, <1>5
  <2>3. rc' # Success
    BY <2>1, <2>2, TablesMapOnlyOkToSuccess DEF MapsOnlyOkToSuccess
  <2>6. last \in 1 .. Len(steps) /\ res[last] # "OK"
    BY <1>7, <2>1
  <2>8. last \in 0 .. Len(steps) /\ last \in 1 .. last
    BY <2>6
  <2>7. /\ DOMAIN SubSeq(res, 1, last) = 1 .. last
        /\ SubSeq(res, 1, last)[last] = res[last]
    BY <1>8, <2>8, Zenon
  <2>4. last \in DOMAIN toxRes' /\ toxRes'[last] # "OK"
    BY <2>2, <2>6, <2>7, <2>8, Zenon
  <2>5. QED
    BY <2>2, <2>3, <2>4, OtherCall
<1>6. QED
  BY <1>4, <1>5

(***************************************************************************)
(* dht_get_friends: every friend before the last one visited passed all  *)
(* its queries and the callback; the walk returns an error exactly when   *)
(* the last one visited failed a query.                                   *)
(***************************************************************************)
LEMMA GetFriendsInv ==
  ASSUME dht_get_friends PROVE Inv'
<1>1. PICK n \in 0 .. MaxFriends :
        \E out \in [1 .. n -> FriendOutcomes], cb \in [1 .. n -> BOOLEAN] :
          LET ends == {i \in 1 .. n : out[i][1] # "ok" \/ ~cb[i]}
              last == IF ends = {} THEN n ELSE Min(ends)
          IN /\ call' = "get_friends"
             /\ listSize' = n
             /\ toxRes' = [i \in 1 .. last |-> out[i][2]]
             /\ listed' = Cardinality({i \in 1 .. last : out[i][1] = "ok"})
             /\ stopped' = (ends # {} /\ out[last][1] = "ok")
             /\ rc' = IF ends # {} /\ out[last][1] # "ok"
                      THEN FriendError(out[last]) ELSE Success
             /\ UNCHANGED online
  BY DEF dht_get_friends
<1>2. PICK out \in [1 .. n -> FriendOutcomes], cb \in [1 .. n -> BOOLEAN] :
        LET ends == {i \in 1 .. n : out[i][1] # "ok" \/ ~cb[i]}
            last == IF ends = {} THEN n ELSE Min(ends)
        IN /\ call' = "get_friends"
           /\ listSize' = n
           /\ toxRes' = [i \in 1 .. last |-> out[i][2]]
           /\ listed' = Cardinality({i \in 1 .. last : out[i][1] = "ok"})
           /\ stopped' = (ends # {} /\ out[last][1] = "ok")
           /\ rc' = IF ends # {} /\ out[last][1] # "ok"
                    THEN FriendError(out[last]) ELSE Success
           /\ UNCHANGED online
  BY <1>1
<1> DEFINE ends == {i \in 1 .. n : out[i][1] # "ok" \/ ~cb[i]}
<1>0. n \in Nat /\ MaxFriends \in Nat
  BY MaxFriendsAssumption
<1>3. \A i \in 1 .. n : out[i][1] = "ok" <=> out[i][2] = "OK"
  BY <1>2, FriendOutcomeCodes
<1>9. ends \in SUBSET Nat
  OBVIOUS
<1>4. CASE ends = {}
  <2>1. /\ toxRes' = [i \in 1 .. n |-> out[i][2]] /\ rc' = Success
        /\ listSize' = n
        /\ listed' = Cardinality({i \in 1 .. n : out[i][1] = "ok"})
    BY <1>2, <1>4
  <2>2. \A i \in 1 .. n : out[i][1] = "ok"
    BY <1>4
  <2>3. {i \in 1 .. n : out[i][1] = "ok"} = 1 .. n
    BY <2>2
  <2>4. Cardinality(1 .. n) = n
    BY <1>0, FS_Interval
  <2>5. ErrorIffCallFailed'
    BY <1>3, <2>1, <2>2 DEF ErrorIffCallFailed
  <2>6. FriendsListedOnSuccess'
    BY <2>1, <2>3, <2>4 DEF FriendsListedOnSuccess
  <2>7. QED
    BY <2>5, <2>6 DEF Inv
<1>5. CASE ends # {}
  <2> DEFINE last == Min(ends)
  <2>1. last \in ends /\ \A j \in ends : last <= j
    BY <1>5, <1>9, MinIsLeast
  <2>2. /\ toxRes' = [i \in 1 .. last |-> out[i][2]]
        /\ stopped' = (out[last][1] = "ok")
        /\ rc' = IF out[last][1] # "ok" THEN FriendError(out[last]) ELSE Success
    BY <1>2, <1>5
  <2>3. \A i \in 1 .. last - 1 : out[i][2] = "OK"
    BY <1>0, <1>3, <2>1
  <2>4. CASE out[last][1] = "ok"
    <3>1. rc' = Success /\ stopped'
      BY <2>2, <2>4
    <3>2. \A i \in DOMAIN toxRes' : toxRes'[i] = "OK"
      <4>1. last \in 1 .. n
        BY <2>1
      <4>2. out[last][2] = "OK"
        BY <1>3, <2>4, <4>1
      <4>3. SUFFICES ASSUME NEW i \in 1 .. last PROVE toxRes'[i] = "OK"
        BY <2>2
      <4>4. toxRes'[i] = out[i][2]
        BY <2>2
      <4>5. i = last \/ i \in 1 .. last - 1
        BY <1>0, <4>1
      <4>6. QED
        BY <2>3, <4>2, <4>4, <4>5
    <3>3. QED
      BY <3>1, <3>2 DEF Inv, ErrorIffCallFailed, FriendsListedOnSuccess
  <2>5. CASE out[last][1] # "ok"
    <3>1. rc' # Success
      BY <2>1, <2>2, <2>5, FriendOutcomeCodes
    <3>2. last \in DOMAIN toxRes' /\ toxRes'[last] # "OK"
      BY <1>0, <1>3, <2>1, <2>2, <2>5
    <3>3. QED
      BY <3>1, <3>2 DEF Inv, ErrorIffCallFailed, FriendsListedOnSuccess
  <2>6. QED
    BY <2>4, <2>5
<1>6. QED
  BY <1>4, <1>5

-----------------------------------------------------------------------------
(* Initially no wrapper has run and nothing is reported. *)
LEMMA InitInv == Init => Inv
  BY DEF Init, Inv, ErrorIffCallFailed, FriendsListedOnSuccess

(* Every wrapper, and the connection callback, keeps both properties. *)
LEMMA NextInv == Inv /\ [Next]_vars => Inv'
<1> SUFFICES ASSUME Inv, [Next]_vars PROVE Inv'
  OBVIOUS
<1>2. CASE dht_new \/ dht_self_set_name \/ dht_self_set_desc
           \/ dht_get_friend_number \/ dht_friend_add
           \/ dht_friend_add_norequest \/ dht_friend_message
           \/ dht_friend_delete \/ dht_file_send_seek \/ dht_file_send_chunk
  BY TablesMapOnlyOkToSuccess, <1>2, OneCallInv
     DEF dht_new, dht_self_set_name, dht_self_set_desc, dht_get_friend_number,
         dht_friend_add, dht_friend_add_norequest, dht_friend_message,
         dht_friend_delete, dht_file_send_seek, dht_file_send_chunk
<1>3. CASE dht_bootstrap
  BY <1>3, BootstrapInv
<1>4. CASE dht_get_friends
  BY <1>4, GetFriendsInv
<1>5. CASE dht_get_self_info
  BY <1>5, OtherCall DEF dht_get_self_info
<1>6. CASE dht_get_random_tcp_relay
  <2>1. call' = "get_random_tcp_relay"
    BY <1>6 DEF dht_get_random_tcp_relay
  <2>2. CASE toxRes' = <<"NO_RELAY">> /\ rc' = RawRc("tox rc")
    <3>1. rc' # Success
      BY <2>2 DEF RawRc, Success
    <3>4. 1 \in DOMAIN <<"NO_RELAY">> /\ <<"NO_RELAY">>[1] # "OK"
      OBVIOUS
    <3>2. 1 \in DOMAIN toxRes' /\ toxRes'[1] # "OK"
      BY <2>2, <3>4, Zenon
    <3>3. QED
      BY <2>1, <3>1, <3>2, OtherCall
  <2>3. CASE toxRes' = <<"OK", "BUFFER_SHORT">> /\ rc' = RawRc(-1)
    BY <2>1, <2>3, OtherCall DEF RawRc, Success
  <2>4. CASE toxRes' = <<"OK">> /\ rc' = Success
    BY <2>1, <2>4, OtherCall
  <2>5. QED
    BY <1>6, <2>2, <2>3, <2>4 DEF dht_get_random_tcp_relay
<1>7. CASE dht_file_send_request
  BY TablesMapOnlyOkToSuccess, <1>7, OtherCall
     DEF dht_file_send_request, GeneralErr, Success, MapsOnlyOkToSuccess
<1>8. CASE dht_file_send_accept \/ dht_file_send_pause \/ dht_file_send_resume
           \/ dht_file_send_reject \/ dht_file_send_cancel
  BY TablesMapOnlyOkToSuccess, <1>8, OtherCall
     DEF dht_file_send_accept, dht_file_send_pause, dht_file_send_resume,
         dht_file_send_reject, dht_file_send_cancel, FileControlCall,
         MapsOnlyOkToSuccess
<1>9. CASE notify_friend_connection_cb \/ UNCHANGED vars
  BY <1>9 DEF notify_friend_connection_cb, vars, Transfer, Inv,
              ErrorIffCallFailed, FriendsListedOnSuccess
<1>10. QED
  BY <1>2, <1>3, <1>4, <1>5, <1>6, <1>7, <1>8, <1>9 DEF Next

(***************************************************************************)
(* Whatever the size of the friend list, no dht_* wrapper loses a tox     *)
(* error on the way out (nor the fopen or buffer check), and none         *)
(* reports a failure after every call succeeded.                          *)
(***************************************************************************)
THEOREM ErrorIffCallFailedInvariant == Spec => []ErrorIffCallFailed
<1>1. Init => Inv
  BY InitInv
<1>2. Inv /\ [Next]_vars => Inv'
  BY NextInv
<1>3. Inv => ErrorIffCallFailed
  BY DEF Inv
<1>4. QED
  BY <1>1, <1>2, <1>3, PTL DEF Spec

(***************************************************************************)
(* Whatever the size of the friend list, dht_get_friends returns 0 only   *)
(* after it passed every friend to the callback or the callback asked it  *)
(* to stop: a failed query is never reported as a complete listing.       *)
(***************************************************************************)
THEOREM FriendsListedOnSuccessInvariant == Spec => []FriendsListedOnSuccess
<1>1. Init => Inv
  BY InitInv
<1>2. Inv /\ [Next]_vars => Inv'
  BY NextInv
<1>3. Inv => FriendsListedOnSuccess
  BY DEF Inv
<1>4. QED
  BY <1>1, <1>2, <1>3, PTL DEF Spec

=============================================================================
