---------------------------- MODULE XrayInbounds ----------------------------
(***************************************************************************)
(* internal/adapters/xray Client.AddUser and RemoveUser: how one user of   *)
(* one transport becomes AlterInbound calls on several xray inbounds (the  *)
(* transport's own and the mirror inbound), when calls for the same user   *)
(* run at the same time.  Callers are the applier's shards and the         *)
(* goroutines of backendRebuilder.                                         *)
(*                                                                         *)
(* xray itself is external: adding a user that is there, and removing one  *)
(* that is not, are errors.                                                *)
(***************************************************************************)
EXTENDS Naturals, Sequences

CONSTANTS
    Callers, Users, Transports, Tags,
    TagFor,         \* the inbound of a transport
    MirrorTag, NoTag,
    RPCFails        \* AlterInbound may fail for other reasons

ASSUME TagForAssumption == TagFor \in [Transports -> Tags]
ASSUME MirrorAssumption == MirrorTag \in Tags \cup {NoTag} /\ NoTag \notin Tags
ASSUME RPCFailsAssumption == RPCFails \in BOOLEAN

VARIABLES
    inbound,        \* users of each inbound
    call,           \* per caller: the call in progress
    claimed,        \* per user (observation): the inbounds the last AddUser
                    \* has answered for
    trouble         \* (observation) users whose calls overlapped, or for whom
                    \* an AlterInbound failed, since they were in no inbound
xrayVars == <<inbound, call, claimed, trouble>>

(* A call: the inbounds AddUser still has to reach, the ones RemoveUser    *)
(* still has to visit, whether it has removed anything, and what AddUser   *)
(* will answer for (an observation).                                       *)
NoCall(u) ==
    [pc |-> "idle", user |-> u, todo |-> <<>>, left |-> {}, removed |-> FALSE,
     want |-> {}]

XrayTypeOK ==
    /\ inbound \in [Tags -> SUBSET Users]
    /\ call \in [Callers -> [pc: {"idle", "add", "clean", "readd", "remove"}, user: Users,
                             todo: Seq(Tags), left: SUBSET Tags, removed: BOOLEAN,
                             want: SUBSET Tags]]
    /\ claimed \in [Users -> SUBSET Tags]
    /\ trouble \subseteq Users

XrayInit ==
    /\ inbound = [t \in Tags |-> {}]
    /\ call \in [Callers -> {NoCall(u) : u \in Users}]
    /\ claimed = [u \in Users |-> {}]
    /\ trouble = {}

-----------------------------------------------------------------------------

(* The inbounds AddUser adds a user of transport x to, in order.           *)
AddTags(x) ==
    IF MirrorTag = NoTag \/ MirrorTag = TagFor[x] THEN <<TagFor[x]>> ELSE <<TagFor[x], MirrorTag>>

TagSet(s) == {s[i] : i \in DOMAIN s}

Busy(u) == \E k \in Callers : call[k].user = u /\ call[k].pc # "idle"

(* A call for user u begins.                                               *)
Begin(k, u, c) ==
    /\ call[k].pc = "idle"
    /\ call' = [call EXCEPT ![k] = c]
    /\ claimed' = [claimed EXCEPT ![u] = {}]
    /\ trouble' = IF Busy(u) THEN trouble \cup {u}
                  ELSE IF \A t \in Tags : u \notin inbound[t] THEN trouble \ {u}
                  ELSE trouble
    /\ UNCHANGED inbound

BeginAdd(k, u, x) ==
    Begin(k, u, [NoCall(u) EXCEPT !.pc = "add", !.todo = AddTags(x), !.want = TagSet(AddTags(x))])

(* Faulty variant: an unset tag is visited too.                            *)
BeginRemoveUnset(k, u) ==
    Begin(k, u, [NoCall(u) EXCEPT !.pc = "remove", !.left = Tags \cup {NoTag}])

(* Faulty variant: the mirror inbound is not visited.                      *)
BeginRemoveUnmirrored(k, u) ==
    Begin(k, u, [NoCall(u) EXCEPT !.pc = "remove", !.left = Tags \ {MirrorTag}])

(* RemoveUser visits every known inbound.                                  *)
BeginRemove(k, u) == Begin(k, u, [NoCall(u) EXCEPT !.pc = "remove", !.left = Tags])

AddReturns(k, ok) ==
    /\ call' = [call EXCEPT ![k] = NoCall(call[k].user)]
    /\ claimed' = IF ok /\ call[k].user \notin trouble
                  THEN [claimed EXCEPT ![call[k].user] = call[k].want] ELSE claimed

(* AddUser goes on to the next inbound, or returns nil after the last one. *)
NextTag(k) ==
    IF Len(call[k].todo) = 1 THEN AddReturns(k, TRUE)
    ELSE /\ call' = [call EXCEPT ![k].pc = "add", ![k].todo = Tail(@)]
         /\ UNCHANGED claimed

AddToTag(k) ==
    LET u == call[k].user
        t == Head(call[k].todo)
    IN  /\ call[k].pc \in {"add", "readd"}
        /\ u \notin inbound[t]
        /\ inbound' = [inbound EXCEPT ![t] = @ \cup {u}]
        /\ NextTag(k)
        /\ UNCHANGED trouble

(* "already exists": the user is first removed, from every inbound.        *)
AlreadyExists(k) ==
    /\ call[k].pc = "add"
    /\ call[k].user \in inbound[Head(call[k].todo)]
    /\ call' = [call EXCEPT ![k].pc = "clean", ![k].left = Tags, ![k].removed = FALSE]
    /\ UNCHANGED <<inbound, claimed, trouble>>

(* The second attempt finds the user again: AddUser returns the error.     *)
StillExists(k) ==
    /\ call[k].pc = "readd"
    /\ call[k].user \in inbound[Head(call[k].todo)]
    /\ AddReturns(k, FALSE)
    /\ UNCHANGED <<inbound, trouble>>

(* Any other error.  The call may have taken effect all the same.          *)
AddFails(k) ==
    LET t == Head(call[k].todo) IN
        /\ RPCFails
        /\ call[k].pc \in {"add", "readd"}
        /\ inbound' \in {inbound, [inbound EXCEPT ![t] = @ \cup {call[k].user}]}
        /\ AddReturns(k, FALSE)
        /\ trouble' = trouble \cup {call[k].user}

(* One AlterInbound of RemoveUser.  An error is remembered and the next    *)
(* inbound is tried.                                                       *)
RemoveFromTag(k, t) ==
    LET u == call[k].user IN
        /\ call[k].pc \in {"clean", "remove"} /\ t \in call[k].left
        /\ inbound' = [inbound EXCEPT ![t] = @ \ {u}]
        /\ call' = [call EXCEPT ![k].left = @ \ {t}, ![k].removed = @ \/ u \in inbound[t]]
        /\ UNCHANGED <<claimed, trouble>>

RemoveTagFails(k, t) ==
    /\ RPCFails
    /\ call[k].pc \in {"clean", "remove"} /\ t \in call[k].left
    /\ inbound' \in {inbound, [inbound EXCEPT ![t] = @ \ {call[k].user}]}
    /\ call' = [call EXCEPT ![k].left = @ \ {t}]
    /\ trouble' = trouble \cup {call[k].user}
    /\ UNCHANGED claimed

(* Faulty variant: the user is not added again.                            *)
CleanIsEnough(k) ==
    /\ call[k].pc = "clean" /\ call[k].left = {}
    /\ AddReturns(k, TRUE)
    /\ UNCHANGED <<inbound, trouble>>

(* The cleanup inside AddUser is over: nil if anything was removed.        *)
CleanReturns(k) ==
    /\ call[k].pc = "clean" /\ call[k].left = {}
    /\ IF call[k].removed
       THEN call' = [call EXCEPT ![k].pc = "readd"] /\ UNCHANGED claimed
       ELSE AddReturns(k, FALSE)
    /\ UNCHANGED <<inbound, trouble>>

RemoveReturns(k) ==
    /\ call[k].pc = "remove" /\ call[k].left = {}
    /\ call' = [call EXCEPT ![k] = NoCall(call[k].user)]
    /\ UNCHANGED <<inbound, claimed, trouble>>

-----------------------------------------------------------------------------

XrayNext ==
    \E k \in Callers :
        \/ \E u \in Users : BeginRemove(k, u) \/ \E x \in Transports : BeginAdd(k, u, x)
        \/ AddToTag(k) \/ AlreadyExists(k) \/ StillExists(k) \/ AddFails(k)
        \/ \E t \in Tags : RemoveFromTag(k, t) \/ RemoveTagFails(k, t)
        \/ CleanReturns(k) \/ RemoveReturns(k)

XraySpec == XrayInit /\ [][XrayNext]_xrayVars

-----------------------------------------------------------------------------
(* Properties.                                                             *)

(* AddUser is idempotent: as long as the calls for a user are successful   *)
(* and do not overlap, an AddUser leaves it in the transport's and in the  *)
(* mirror inbound, whether or not it was there before.                     *)
AddUserIsIdempotent ==
    \A u \in Users : \A t \in claimed[u] : u \in inbound[t]

(* And a RemoveUser that returns nil leaves it in none: no inbound is      *)
(* forgotten, although nil only says that something was removed.           *)
RemovedMeansGone ==
    [][\A k \in Callers :
         /\ call[k].pc = "remove" /\ call[k].removed /\ call'[k].pc = "idle"
         /\ call[k].user \notin trouble
         => \A t \in Tags : call[k].user \notin inbound[t]]_xrayVars
=============================================================================
