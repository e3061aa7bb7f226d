---------------------------- MODULE SingboxProofs ---------------------------
(***************************************************************************)
(* Theorems about the sing-box entry node for any commands, scenarios,     *)
(* backends, batch size and channel capacity.                              *)
(*                                                                         *)
(* The argument follows the requests.  One that its caller still waits for *)
(* is the last of its placement in the coalescer, and carries the row of   *)
(* the call in progress; so it wins over the requests given up earlier     *)
(* when a batch is laid over the listed placements, and what the batch     *)
(* stores for its placement is what the call has checked against.          *)
(*                                                                         *)
(* From there a row is followed to what sing-box does.  IssuedInv: rows,   *)
(* calls and requests come from the commands.  DoneInv: a call past its    *)
(* PutPlacement finds its own row.  ListInv, FileInv and RenderInv: what   *)
(* is listed, rendered, written and loaded has the overlays in it, and a   *)
(* selector that a rule overrules has no other option.  OverlayInv: when   *)
(* the batch stores its rows, sing-box already carries them.  FlipInv:     *)
(* the same of a flip made in the running sing-box.  CarryInv is their     *)
(* conjunction; it needs that no two placements share a client and that a  *)
(* version is issued once (Ordered).                                       *)
(***************************************************************************)
EXTENDS SingboxEntry, SequenceTheorems, TLAPS

(* The call cl[p] waits for a request with this overlay.                   *)
Waits(cl, p, overlay) ==
    /\ cl[p].pc \in {"wait", "cooling"}
    /\ overlay = IF cl[p].pc = "wait" THEN cl[p].cmd ELSE NoPlacement

(* A request carries a row of its caller's placement.  If it is live its   *)
(* caller waits for it, and it is live unless a request was given up.      *)
RequestOK(r, cl, ab) ==
    /\ r.overlay # NoPlacement => r.overlay.pid = r.by
    /\ r.by \in Placements /\ r.live => Waits(cl, r.by, r.overlay)
    /\ r.by \in Placements \ ab => r.live

(* A live request is the last of its caller in rs.                         *)
LiveLast(rs) ==
    \A i, j \in DOMAIN rs : i < j /\ rs[i].live /\ rs[i].by \in Placements => rs[j].by # rs[i].by

(* A caller with a live request in the batch has none in the channel.      *)
LiveAlone(batch, rs) ==
    \A i \in DOMAIN batch, j \in DOMAIN rs :
        batch[i].live /\ batch[i].by \in Placements => rs[j].by # batch[i].by

(* A call has not been overtaken, unless a request was given up.           *)
CallOK(p, cl, st, ab) ==
    cl[p].pc # "idle" =>
        /\ cl[p].cmd \in Commands /\ cl[p].cmd.pid = p
        /\ p \notin ab /\ Found(st[p]) => st[p].op <= cl[p].cmd.op

(* The overlays still to be stored are overlays of the batch, none of them *)
(* of a live request's placement but its own; the row of a live request is *)
(* among them or is stored.                                                *)
OverlaysOK(fl, st) ==
    /\ \A c \in fl.overlays : \E i \in DOMAIN fl.batch : fl.batch[i].overlay = c
    /\ \A c \in fl.overlays, i \in DOMAIN fl.batch :
         /\ fl.batch[i].live /\ fl.batch[i].by \in Placements /\ fl.batch[i].overlay # NoPlacement
         /\ c.pid = fl.batch[i].by
         => c = fl.batch[i].overlay
    /\ fl.pc \in {"render", "write", "reload", "persist"} =>
         \A i \in DOMAIN fl.batch :
            fl.batch[i].live /\ fl.batch[i].by \in Placements /\ fl.batch[i].overlay # NoPlacement =>
               fl.batch[i].overlay \in fl.overlays \/
               st[fl.batch[i].by] = Row(fl.batch[i].overlay, "applied")

FlushPhase == {"idle", "render", "write", "reload", "persist", "failed"}

CallRecord == [pc: CallPhase, cmd: Commands \cup {NoPlacement}, flip: BOOLEAN]

(* The types the argument needs.                                           *)
QueueTypes ==
    /\ StoreTypeOK
    /\ submit \in Seq(RequestType)
    /\ flush = [pc |-> flush.pc, batch |-> flush.batch, list |-> flush.list,
                overlays |-> flush.overlays, cfg |-> flush.cfg]
    /\ flush.pc \in FlushPhase
    /\ flush.batch \in Seq(RequestType)
    /\ flush.overlays \subseteq Commands
    /\ call \in [Placements -> CallRecord]

QueueInv ==
    /\ \A p \in Placements : CallOK(p, call, store, abandoned)
    /\ \A i \in DOMAIN submit : RequestOK(submit[i], call, abandoned)
    /\ \A i \in DOMAIN flush.batch : RequestOK(flush.batch[i], call, abandoned)
    /\ LiveLast(submit)
    /\ LiveAlone(flush.batch, submit)
    /\ OverlaysOK(flush, store)

-----------------------------------------------------------------------------
(* Rows and requests.                                                      *)

LEMMA CommandIs ==
    ASSUME NEW c \in Commands
    PROVE  /\ c.pid \in Placements /\ c.op \in Nat /\ c # NoPlacement
           /\ \A a \in AppliedState :
                /\ Row(c, a) \in RowType /\ Found(Row(c, a)) /\ Row(c, a).op = c.op
BY CommandsAssumption, NoPlacementAssumption, CallerAssumption
   DEF Row, RowType, CommandType, Found

(* A put changes the row of its placement and no other.                    *)
LEMMA PutIs ==
    ASSUME StoreTypeOK, NEW c \in Commands, NEW a \in AppliedState, PutPlacement(c, a)
    PROVE  /\ StoreTypeOK'
           /\ store'[c.pid] = Row(c, a)
           /\ \A p \in Placements \ {c.pid} : store'[p] = store[p]
BY CommandIs DEF StoreTypeOK, PutPlacement

(* Nobody waits for the requests of p any more, the others are unchanged.  *)
LEMMA AbandonIs ==
    ASSUME NEW rs \in Seq(RequestType), NEW p
    PROVE  /\ Abandon(rs, p) \in Seq(RequestType)
           /\ DOMAIN Abandon(rs, p) = DOMAIN rs
           /\ \A i \in DOMAIN rs :
                /\ Abandon(rs, p)[i].by = rs[i].by
                /\ Abandon(rs, p)[i].overlay = rs[i].overlay
                /\ rs[i].by = p => ~Abandon(rs, p)[i].live
                /\ rs[i].by # p => Abandon(rs, p)[i] = rs[i]
<1>1. PICK no \in BOOLEAN : no = FALSE
  BY Zenon
<1>2. Abandon(rs, p) = [i \in DOMAIN rs |-> IF rs[i].by = p THEN [rs[i] EXCEPT !.live = no] ELSE rs[i]]
  BY <1>1, Zenon DEF Abandon
<1>3. \A i \in DOMAIN rs : rs[i] \in RequestType
  BY ElementOfSeq
<1>4. \A i \in DOMAIN rs :
        /\ Abandon(rs, p)[i] \in RequestType
        /\ Abandon(rs, p)[i].by = rs[i].by
        /\ Abandon(rs, p)[i].overlay = rs[i].overlay
        /\ rs[i].by = p => Abandon(rs, p)[i].live = no
        /\ rs[i].by # p => Abandon(rs, p)[i] = rs[i]
  BY <1>2, <1>3 DEF RequestType
<1>5. DOMAIN Abandon(rs, p) = DOMAIN rs
  BY <1>2
<1>6. Abandon(rs, p) \in Seq(RequestType)
  <2>. DEFINE f == Abandon(rs, p)
  <2>1. DOMAIN f = 1..Len(rs) /\ Len(rs) \in Nat /\ \A i \in 1..Len(rs) : f[i] \in RequestType
    BY <1>4, <1>5
  <2>2. f = [i \in 1..Len(rs) |-> f[i]]
    BY <1>2, <2>1
  <2>. HIDE DEF f
  <2>3. [i \in 1..Len(rs) |-> f[i]] \in Seq(RequestType)
    BY <2>1
  <2>4. f \in Seq(RequestType)
    BY <2>2, <2>3
  <2>. QED  BY <2>4 DEF f
<1>7. \A i \in DOMAIN rs : rs[i].by = p => ~Abandon(rs, p)[i].live
  BY <1>1, <1>4, Zenon
<1>. QED  BY <1>4, <1>5, <1>6, <1>7

-----------------------------------------------------------------------------
(* A call moves on without the coalescer.                                  *)

Waiting == {"wait", "cooling"}

(* The call of p goes from where it waits for nobody to such a place.  It  *)
(* keeps its command, or starts with one that is not stale.                *)
Moves(p) ==
    /\ UNCHANGED <<submit, flush, abandoned>>
    /\ call' \in [Placements -> CallRecord]
    /\ \A q \in Placements \ {p} : call'[q] = call[q]
    /\ call[p].pc \notin Waiting /\ call'[p].pc \notin Waiting
    /\ call'[p].pc # "idle" =>
         \/ call[p].pc # "idle" /\ call'[p].cmd = call[p].cmd
         \/ /\ call'[p].cmd \in Commands /\ call'[p].cmd.pid = p
            /\ Found(store[p]) => store[p].op <= call'[p].cmd.op

LEMMA NoCallIs == NoCall \in CallRecord /\ NoCall.pc = "idle"
<1>1. PICK no \in BOOLEAN : no = FALSE
  BY Zenon
<1>2. NoCall = [pc |-> "idle", cmd |-> NoPlacement, flip |-> no]
  BY <1>1, Zenon DEF NoCall
<1>. QED  BY <1>2 DEF CallRecord, CallPhase

LEMMA GotoIs ==
    ASSUME QueueTypes, NEW p \in Placements, NEW pc \in CallPhase, Goto(p, pc)
    PROVE  /\ call' \in [Placements -> CallRecord]
           /\ \A q \in Placements \ {p} : call'[q] = call[q]
           /\ call'[p].pc = pc /\ call'[p].cmd = call[p].cmd
BY Zenon DEF Goto, QueueTypes, CallRecord

LEMMA DispatchMoves ==
    ASSUME QueueTypes, NEW p \in Placements, NEW c \in Commands, Dispatch(p, c)
    PROVE  Moves(p)
<1>1. PICK flip \in BOOLEAN : flip = IsBackendFlip(store[p], c)
  BY Zenon DEF IsBackendFlip
<1>2. call' = [call EXCEPT ![p] = [pc |-> "start", cmd |-> c, flip |-> flip]]
  BY <1>1, Zenon DEF Dispatch
<1>3. Found(store[p]) => store[p].op <= c.op
  BY CommandIs DEF Dispatch, IsStale, QueueTypes, StoreTypeOK, RowType, Found
<1>4. call[p].pc = "idle" /\ c.pid = p /\ UNCHANGED <<submit, flush, abandoned>>
  BY DEF Dispatch, At, coalescerVars, auxVars
<1>. QED  BY <1>2, <1>3, <1>4 DEF Moves, Waiting, QueueTypes, CallRecord, CallPhase

LEMMA CallMoves ==
    ASSUME QueueTypes, NEW p \in Placements,
           \/ Checks(p) \/ ListsUsers(p) \/ SelectOutbound(p) \/ SelectRefused(p) \/ Drained(p)
           \/ SelectFails(p) \/ DrainFails(p) \/ StoreFails(p)
    PROVE  Moves(p) /\ UNCHANGED store
<1>1. ASSUME NEW pc \in CallPhase \ Waiting, Goto(p, pc), call[p].pc \notin Waiting \cup {"idle"},
             UNCHANGED <<submit, flush, abandoned>>
      PROVE  Moves(p)
  BY <1>1, GotoIs DEF Moves
<1>2. UNCHANGED <<store, submit, flush, abandoned>>
  BY Zenon DEF Checks, ListsUsers, SelectOutbound, SelectRefused, Drained, SelectFails, DrainFails,
               StoreFails, coalescerVars, auxVars
<1>3. CASE call' = [call EXCEPT ![p] = NoCall] /\ (At(p, "ok") \/ At(p, "error"))
  BY <1>2, <1>3, NoCallIs DEF Moves, Waiting, At, QueueTypes
<1>4. CASE Checks(p)
  <2>1. AfterChecks(p) \in CallPhase \ Waiting
    BY DEF AfterChecks, Swapped, CallPhase, Waiting
  <2>. QED  BY <1>1, <1>2, <1>4, <2>1 DEF Checks, At, Waiting
<1>5. CASE ListsUsers(p) \/ SelectOutbound(p) \/ SelectRefused(p) \/ Drained(p)
           \/ SelectFails(p) \/ DrainFails(p)
  <2>1. call[p].pc \notin Waiting \cup {"idle"}
    BY <1>5 DEF ListsUsers, SelectOutbound, SelectRefused, Drained, SelectFails, DrainFails, At,
                Waiting
  <2>2. \E pc \in CallPhase \ Waiting : Goto(p, pc)
    BY <1>5 DEF ListsUsers, SelectOutbound, SelectRefused, Drained, SelectFails, DrainFails, 
                CallPhase, Waiting
  <2>. QED  BY <1>1, <1>2, <2>1, <2>2
<1>6. CASE StoreFails(p)
  <2>1. CASE (At(p, "start") \/ At(p, "put")) /\ Goto(p, "error")
    BY <1>1, <1>2, <2>1 DEF At, Waiting, CallPhase
  <2>2. CASE At(p, "list") /\ Goto(p, "submit")
    BY <1>1, <1>2, <2>2 DEF At, Waiting, CallPhase
  <2>. QED  BY <1>2, <1>3, <1>6, <2>1, <2>2 DEF StoreFails
<1>. QED  BY <1>2, <1>4, <1>5, <1>6

(* The rows that a step of the call of p may leave.                        *)
OwnRow(p) ==
    /\ StoreTypeOK'
    /\ \A q \in Placements \ {p} : store'[q] = store[q]
    /\ \/ store'[p] = store[p]
       \/ /\ call[p].pc # "idle" /\ call[p].cmd \in Commands
          /\ call'[p].pc # "idle" => call'[p].cmd = call[p].cmd
          /\ Found(store'[p]) /\ store'[p].op = call[p].cmd.op

LEMMA MoveInv ==
    ASSUME QueueTypes, QueueInv, NEW p \in Placements, Moves(p), OwnRow(p)
    PROVE  QueueTypes' /\ QueueInv'
<1>1. QueueTypes'
  BY DEF QueueTypes, Moves, OwnRow
<1>2. ASSUME NEW q \in Placements
      PROVE  CallOK(q, call', store', abandoned')
  <2>1. CASE q # p
    BY <2>1 DEF Moves, OwnRow, QueueInv, CallOK
  <2>2. CASE q = p
    <3>1. CASE store'[p] = store[p]
      BY <2>2, <3>1 DEF Moves, QueueInv, CallOK
    <3>2. CASE store'[p] # store[p]
      <4>1. call'[p].pc # "idle" => call'[p].cmd = call[p].cmd
        BY <3>2 DEF OwnRow
      <4>2. call[p].pc # "idle" /\ call[p].cmd \in Commands /\ store'[p].op = call[p].cmd.op
        BY <3>2 DEF OwnRow
      <4>3. call[p].cmd.pid = p /\ call[p].cmd.op \in Nat
        BY <4>2, CommandIs DEF QueueInv, CallOK
      <4>. QED  BY <2>2, <4>1, <4>2, <4>3 DEF CallOK
    <3>. QED  BY <3>1, <3>2
  <2>. QED  BY <2>1, <2>2
<1>3. ASSUME NEW r, RequestOK(r, call, abandoned)
      PROVE  /\ RequestOK(r, call', abandoned')
             /\ r.by \in Placements /\ r.live => r.by # p
  BY <1>3 DEF RequestOK, Waits, Moves, Waiting
<1>4. OverlaysOK(flush', store')
  <2>1. ASSUME NEW i \in DOMAIN flush.batch, flush.batch[i].live, flush.batch[i].by \in Placements
        PROVE  store'[flush.batch[i].by] = store[flush.batch[i].by]
    BY <1>3, <2>1 DEF QueueInv, OwnRow
  <2>. QED  BY <2>1 DEF QueueInv, OverlaysOK, Moves
<1>. QED  BY <1>1, <1>2, <1>3, <1>4 DEF QueueInv, Moves

(* StoresSelected and the handler store the row of the call's command.     *)
LEMMA CallStores ==
    ASSUME QueueTypes, QueueInv, NEW p \in Placements, StoresSelected(p) \/ HandlerStores(p)
    PROVE  Moves(p) /\ OwnRow(p)
<1>1. call[p].pc \notin Waiting \cup {"idle"} /\ UNCHANGED <<submit, flush, abandoned>>
  BY DEF StoresSelected, HandlerStores, At, Waiting, coalescerVars, auxVars
<1>2. call[p].cmd \in Commands /\ call[p].cmd.pid = p
  BY <1>1 DEF QueueInv, CallOK
<1>3. PICK a \in AppliedState : PutPlacement(call[p].cmd, a)
  BY DEF StoresSelected, HandlerStores, AppliedState
<1>4. /\ StoreTypeOK' /\ \A q \in Placements \ {p} : store'[q] = store[q]
      /\ Found(store'[p]) /\ store'[p].op = call[p].cmd.op
  BY <1>2, <1>3, PutIs, CommandIs DEF QueueTypes
<1>5. CASE StoresSelected(p)
  <2>1. Goto(p, Swapped(p)) /\ Swapped(p) \in CallPhase \ Waiting
    BY <1>5 DEF StoresSelected, Swapped, CallPhase, Waiting
  <2>. QED  BY <1>1, <1>2, <1>4, <2>1, GotoIs DEF Moves, OwnRow
<1>6. CASE HandlerStores(p)
  <2>1. call' = [call EXCEPT ![p] = NoCall]
    BY <1>6 DEF HandlerStores
  <2>2. /\ call' \in [Placements -> CallRecord] /\ call'[p].pc = "idle"
        /\ \A q \in Placements \ {p} : call'[q] = call[q]
    BY <2>1, NoCallIs DEF QueueTypes
  <2>. QED  BY <1>1, <1>2, <1>4, <2>2 DEF Moves, OwnRow, Waiting
<1>. QED  BY <1>5, <1>6

-----------------------------------------------------------------------------
(* Requests come in and are given up.                                      *)

LEMMA RequestIs ==
    ASSUME NEW by \in Placements \cup {NoCaller}, NEW overlay \in Commands \cup {NoPlacement}
    PROVE  /\ Request(by, overlay) \in RequestType /\ Request(by, overlay).live
           /\ Request(by, overlay).by = by /\ Request(by, overlay).overlay = overlay
<1>1. PICK yes \in BOOLEAN : yes = TRUE
  BY Zenon
<1>2. Request(by, overlay) = [by |-> by, overlay |-> overlay, live |-> yes]
  BY <1>1, Zenon DEF Request
<1>3. /\ Request(by, overlay) \in RequestType /\ Request(by, overlay).live = yes
      /\ Request(by, overlay).by = by /\ Request(by, overlay).overlay = overlay
  BY <1>2 DEF RequestType
<1>. QED  BY <1>1, <1>3, Zenon

(* A request joins the channel.  No live request has the same caller.      *)
LEMMA JoinInv ==
    ASSUME QueueTypes, QueueInv, NEW r \in RequestType, submit' = Append(submit, r),
           UNCHANGED <<store, flush, abandoned>>,
           call' \in [Placements -> CallRecord],
           \A q \in Placements : CallOK(q, call', store, abandoned),
           \A q \in Placements : q = r.by \/ call'[q] = call[q],
           r.by \in Placements => call[r.by].pc \notin Waiting,
           RequestOK(r, call', abandoned)
    PROVE  QueueTypes' /\ QueueInv'
<1>1. /\ submit' \in Seq(RequestType) /\ DOMAIN submit' = 1..Len(submit) + 1
      /\ DOMAIN submit = 1..Len(submit) /\ Len(submit) \in Nat
      /\ \A i \in DOMAIN submit : submit'[i] = submit[i]
      /\ submit'[Len(submit) + 1] = r
  BY AppendProperties DEF QueueTypes
<1>2. QueueTypes'
  BY <1>1 DEF QueueTypes, StoreTypeOK
<1>3. ASSUME NEW s, RequestOK(s, call, abandoned)
      PROVE  /\ s.by \in Placements /\ s.live => s.by # r.by
             /\ RequestOK(s, call', abandoned)
  <2>1. s.by \in Placements /\ s.live => s.by # r.by
    BY <1>3 DEF RequestOK, Waits, Waiting
  <2>. QED  BY <1>3, <2>1 DEF RequestOK, Waits
<1>4. \A i \in DOMAIN submit' : RequestOK(submit'[i], call', abandoned)
  BY <1>1, <1>3 DEF QueueInv
<1>5. LiveLast(submit')
  <2>. SUFFICES ASSUME NEW i \in DOMAIN submit', NEW j \in DOMAIN submit', i < j,
                       submit'[i].live, submit'[i].by \in Placements
                PROVE  submit'[j].by # submit'[i].by
    BY DEF LiveLast
  <2>1. i \in DOMAIN submit
    BY <1>1
  <2>2. CASE j \in DOMAIN submit
    BY <1>1, <2>1, <2>2 DEF QueueInv, LiveLast
  <2>3. CASE j = Len(submit) + 1
    BY <1>1, <1>3, <2>1, <2>3 DEF QueueInv
  <2>. QED  BY <1>1, <2>2, <2>3
<1>6. LiveAlone(flush.batch, submit')
  BY <1>1, <1>3 DEF QueueInv, LiveAlone
<1>7. \A i \in DOMAIN flush.batch : RequestOK(flush.batch[i], call', abandoned)
  BY <1>3 DEF QueueInv
<1>. QED  BY <1>2, <1>4, <1>5, <1>6, <1>7 DEF QueueInv

LEMMA SubmitsInv ==
    ASSUME QueueTypes, QueueInv, NEW p \in Placements, Submits(p)
    PROVE  QueueTypes' /\ QueueInv'
<1>. DEFINE overlay == IF At(p, "submit") THEN call[p].cmd ELSE NoPlacement
            pc == IF At(p, "submit") THEN "wait" ELSE "cooling"
<1>1. /\ call[p].pc \in {"submit", "cool"} /\ UNCHANGED <<store, flush, abandoned>>
      /\ submit' = Append(submit, Request(p, overlay)) /\ Goto(p, pc)
  BY DEF Submits, At, auxVars
<1>2. call[p].cmd \in Commands /\ call[p].cmd.pid = p /\ call[p].cmd # NoPlacement
  BY <1>1, CommandIs DEF QueueInv, CallOK
<1>3. pc \in {"wait", "cooling"} /\ overlay \in Commands \cup {NoPlacement}
      /\ (overlay # NoPlacement => overlay.pid = p)
      /\ (overlay = IF pc = "wait" THEN call[p].cmd ELSE NoPlacement)
  BY <1>2 DEF At
<1>. HIDE DEF overlay, pc
<1>4. /\ call' \in [Placements -> CallRecord]
      /\ \A q \in Placements \ {p} : call'[q] = call[q]
      /\ call'[p].pc = pc /\ call'[p].cmd = call[p].cmd
  BY <1>1, <1>3, GotoIs DEF CallPhase
<1>5. /\ Request(p, overlay) \in RequestType /\ Request(p, overlay).live
      /\ Request(p, overlay).by = p /\ Request(p, overlay).overlay = overlay
  BY <1>3, RequestIs
<1>6. RequestOK(Request(p, overlay), call', abandoned)
  BY <1>3, <1>4, <1>5 DEF RequestOK, Waits
<1>7. \A q \in Placements : CallOK(q, call', store, abandoned)
  BY <1>1, <1>4 DEF QueueInv, CallOK
<1>. QED  BY <1>1, <1>4, <1>5, <1>6, <1>7, JoinInv DEF Waiting

LEMMA RebuildInv ==
    ASSUME QueueTypes, QueueInv, RebuildFromStore
    PROVE  QueueTypes' /\ QueueInv'
<1>1. UNCHANGED <<store, flush, call, abandoned>> /\ submit' = Append(submit, Request(NoCaller, NoPlacement))
  BY DEF RebuildFromStore, auxVars
<1>2. /\ Request(NoCaller, NoPlacement) \in RequestType
      /\ Request(NoCaller, NoPlacement).by = NoCaller
      /\ Request(NoCaller, NoPlacement).overlay = NoPlacement
  BY RequestIs
<1>3. RequestOK(Request(NoCaller, NoPlacement), call, abandoned)
  BY <1>2, CallerAssumption DEF RequestOK
<1>. QED  BY <1>1, <1>2, <1>3, JoinInv, CallerAssumption DEF QueueTypes, QueueInv

LEMMA GivesUpInv ==
    ASSUME QueueTypes, QueueInv, NEW p \in Placements, GivesUp(p)
    PROVE  QueueTypes' /\ QueueInv'
<1>. DEFINE batch == Abandon(flush.batch, p)
<1>1. /\ UNCHANGED store /\ submit' = Abandon(submit, p)
      /\ flush' = [flush EXCEPT !.batch = batch]
      /\ call' = [call EXCEPT ![p] = NoCall]
  BY DEF GivesUp
<1>2. abandoned \subseteq abandoned' /\ (call[p].pc \in Waiting => p \in abandoned')
  BY DEF GivesUp, At, Waiting
<1>3. /\ batch \in Seq(RequestType) /\ DOMAIN batch = DOMAIN flush.batch
      /\ \A i \in DOMAIN flush.batch :
           /\ batch[i].by = flush.batch[i].by
           /\ batch[i].overlay = flush.batch[i].overlay
           /\ flush.batch[i].by = p => ~batch[i].live
           /\ flush.batch[i].by # p => batch[i] = flush.batch[i]
  BY AbandonIs DEF QueueTypes
<1>4. /\ submit' \in Seq(RequestType) /\ DOMAIN submit' = DOMAIN submit
      /\ \A i \in DOMAIN submit :
           /\ submit'[i].by = submit[i].by
           /\ submit'[i].overlay = submit[i].overlay
           /\ submit[i].by = p => ~submit'[i].live
           /\ submit[i].by # p => submit'[i] = submit[i]
  BY <1>1, AbandonIs DEF QueueTypes
<1>. HIDE DEF batch
<1>5. /\ flush' = [pc |-> flush'.pc, batch |-> flush'.batch, list |-> flush'.list,
                   overlays |-> flush'.overlays, cfg |-> flush'.cfg]
      /\ flush'.batch = batch /\ flush'.pc = flush.pc /\ flush'.overlays = flush.overlays
  BY <1>1 DEF QueueTypes
<1>6. /\ call' \in [Placements -> CallRecord] /\ call'[p].pc = "idle"
      /\ \A q \in Placements \ {p} : call'[q] = call[q]
  BY <1>1, NoCallIs DEF QueueTypes
<1>7. QueueTypes'
  BY <1>1, <1>3, <1>4, <1>5, <1>6 DEF QueueTypes, StoreTypeOK
<1>8. \A q \in Placements : CallOK(q, call', store', abandoned')
  BY <1>1, <1>2, <1>6 DEF QueueInv, CallOK
<1>9. ASSUME NEW r, NEW s, RequestOK(r, call, abandoned), s.by = r.by, s.overlay = r.overlay,
             r.by = p => ~s.live, r.by # p => s = r
      PROVE  RequestOK(s, call', abandoned')
  <2>1. CASE r.by = p
    BY <1>2, <1>9, <2>1 DEF RequestOK, Waits, Waiting
  <2>2. CASE r.by # p
    BY <1>2, <1>6, <1>9, <2>2 DEF RequestOK, Waits
  <2>. QED  BY <2>1, <2>2
<1>10. \A i \in DOMAIN submit' : RequestOK(submit'[i], call', abandoned')
  BY <1>4, <1>9 DEF QueueInv
<1>11. \A i \in DOMAIN batch : RequestOK(batch[i], call', abandoned')
  BY <1>3, <1>9 DEF QueueInv
<1>12. LiveLast(submit')
  BY <1>4 DEF QueueInv, LiveLast
<1>13. LiveAlone(batch, submit')
  BY <1>3, <1>4 DEF QueueInv, LiveAlone
<1>14. OverlaysOK(flush', store')
  BY <1>1, <1>3, <1>5 DEF QueueInv, OverlaysOK
<1>. QED  BY <1>5, <1>7, <1>8, <1>10, <1>11, <1>12, <1>13, <1>14 DEF QueueInv

-----------------------------------------------------------------------------
(* The flush.                                                              *)

LEMMA NoFlushIs ==
    /\ NoFlush = [pc |-> NoFlush.pc, batch |-> NoFlush.batch, list |-> NoFlush.list,
                  overlays |-> NoFlush.overlays, cfg |-> NoFlush.cfg]
    /\ NoFlush.pc = "idle" /\ NoFlush.batch = <<>> /\ NoFlush.overlays = {}
    /\ NoFlush.batch \in Seq(RequestType)
BY DEF NoFlush

LEMMA ResetInv ==
    ASSUME QueueTypes, UNCHANGED store, submit' = <<>>, flush' = NoFlush,
           call' = [p \in Placements |-> NoCall]
    PROVE  QueueTypes' /\ QueueInv'
<1>1. QueueTypes'
  BY NoFlushIs, NoCallIs DEF QueueTypes, StoreTypeOK, FlushPhase
<1>2. \A p \in Placements : CallOK(p, call', store', abandoned')
  BY NoCallIs DEF CallOK
<1>. QED  BY <1>1, <1>2, NoFlushIs DEF QueueInv, LiveLast, LiveAlone, OverlaysOK

(* The flush goes on with the same batch.  It has dropped its overlays if  *)
(* it has failed, and otherwise keeps them.                                *)
LEMMA GoesOnInv ==
    ASSUME QueueTypes, QueueInv, UNCHANGED <<store, submit, call, abandoned>>,
           flush' = [pc |-> flush'.pc, batch |-> flush'.batch, list |-> flush'.list,
                     overlays |-> flush'.overlays, cfg |-> flush'.cfg],
           flush.pc \in {"render", "write", "reload", "persist"},
           flush'.batch = flush.batch,
           \/ flush'.pc = "failed" /\ flush'.overlays = {}
           \/ flush'.pc \in FlushPhase /\ flush'.overlays = flush.overlays
    PROVE  QueueTypes' /\ QueueInv'
<1>1. QueueTypes'
  BY DEF QueueTypes, StoreTypeOK, FlushPhase
<1>2. OverlaysOK(flush', store')
  BY DEF QueueInv, OverlaysOK
<1>. QED  BY <1>1, <1>2 DEF QueueInv

LEMMA FlushGoesOn ==
    ASSUME QueueTypes, QueueInv,
           \/ FlushRenders \/ RenderFails \/ FlushWrites \/ FlushReloads \/ ReloadRefused
           \/ FlushStoreFails \/ FlushFails
    PROVE  QueueTypes' /\ QueueInv'
<1>1. UNCHANGED <<store, submit, call, abandoned>>
  BY Zenon DEF FlushRenders, RenderFails, FlushWrites, FlushReloads, ReloadRefused, FlushStoreFails,
         FlushFails, auxVars
<1>2. flush.pc \in {"render", "write", "reload", "persist"}
  BY Zenon DEF FlushRenders, RenderFails, FlushWrites, FlushReloads, ReloadRefused, FlushStoreFails,
         FlushFails
<1>3. CASE RenderFails \/ ReloadRefused \/ FlushStoreFails \/ FlushFails
  <2>1. flush' = [NoFlush EXCEPT !.pc = "failed", !.batch = flush.batch]
    BY <1>3 DEF RenderFails, ReloadRefused, FlushStoreFails, FlushFails
  <2>2. /\ flush' = [pc |-> flush'.pc, batch |-> flush'.batch, list |-> flush'.list,
                     overlays |-> flush'.overlays, cfg |-> flush'.cfg]
        /\ flush'.batch = flush.batch /\ flush'.pc = "failed" /\ flush'.overlays = {}
    BY <2>1, Zenon DEF NoFlush
  <2>. QED  BY <1>1, <1>2, <2>2, GoesOnInv
<1>4. CASE FlushRenders \/ FlushWrites \/ FlushReloads
  <2>1. /\ flush' = [pc |-> flush'.pc, batch |-> flush'.batch, list |-> flush'.list,
                     overlays |-> flush'.overlays, cfg |-> flush'.cfg]
        /\ flush'.batch = flush.batch /\ flush'.overlays = flush.overlays
        /\ flush'.pc \in FlushPhase
    <3>1. CASE FlushRenders
      BY <3>1, Zenon DEF FlushRenders, QueueTypes, FlushPhase
    <3>2. CASE FlushWrites
      BY <3>2 DEF FlushWrites, QueueTypes, FlushPhase
    <3>3. CASE FlushReloads
      BY <3>3, Zenon DEF FlushReloads, QueueTypes, FlushPhase
    <3>. QED  BY <1>4, <3>1, <3>2, <3>3
  <2>. QED  BY <1>1, <1>2, <2>1, GoesOnInv
<1>. QED  BY <1>3, <1>4

(* A prefix of the channel and what is left behind it.                     *)
LEMMA SplitIs ==
    ASSUME NEW S, NEW s \in Seq(S), NEW n \in 1..Len(s)
    PROVE  /\ SubSeq(s, 1, n) \in Seq(S) /\ DOMAIN SubSeq(s, 1, n) = 1..n
           /\ \A i \in 1..n : SubSeq(s, 1, n)[i] = s[i]
           /\ SubSeq(s, n + 1, Len(s)) \in Seq(S)
           /\ DOMAIN SubSeq(s, n + 1, Len(s)) = 1..Len(s) - n
           /\ \A i \in 1..Len(s) - n : SubSeq(s, n + 1, Len(s))[i] = s[i + n]
           /\ Len(s) \in Nat /\ DOMAIN s = 1..Len(s)
<1>1. /\ SubSeq(s, 1, n) \in Seq(S) /\ Len(SubSeq(s, 1, n)) = n
      /\ \A i \in 1..n : SubSeq(s, 1, n)[i] = s[i]
  BY SubSeqProperties
<1>2. /\ SubSeq(s, n + 1, Len(s)) \in Seq(S)
      /\ Len(SubSeq(s, n + 1, Len(s))) = Len(s) - n
      /\ \A i \in 1..Len(s) - n : SubSeq(s, n + 1, Len(s))[i] = s[i + n]
  BY SubSeqProperties
<1>. QED  BY <1>1, <1>2

(* A batch has one overlay per placement.                                  *)
LEMMA OneOverlayEach ==
    ASSUME NEW batch \in Seq(RequestType)
    PROVE  /\ \A c \in Overlays(batch) :
                c \in Commands /\ \E i \in DOMAIN batch : batch[i].overlay = c
           /\ \A c, d \in Overlays(batch) : c.pid = d.pid => c = d
<1>0. \A i \in DOMAIN batch : batch[i] \in RequestType
  BY ElementOfSeq
<1>. DEFINE Wins(i) == /\ batch[i].overlay # NoPlacement
                       /\ \A j \in DOMAIN batch : j > i /\ batch[j].overlay # NoPlacement =>
                              batch[j].overlay.pid # batch[i].overlay.pid
<1>1. ASSUME NEW c \in Overlays(batch)
      PROVE  \E i \in DOMAIN batch : Wins(i) /\ batch[i].overlay = c
  BY <1>1, Zenon DEF Overlays
<1>2. ASSUME NEW c \in Overlays(batch), NEW d \in Overlays(batch), c.pid = d.pid
      PROVE  c = d
  <2>1. PICK i \in DOMAIN batch : Wins(i) /\ batch[i].overlay = c
    BY <1>1, Zenon
  <2>2. PICK j \in DOMAIN batch : Wins(j) /\ batch[j].overlay = d
    BY <1>1, Zenon
  <2>3. i = j
    BY <1>2, <2>1, <2>2
  <2>. QED  BY <2>1, <2>2, <2>3
<1>3. \A c \in Overlays(batch) : c \in Commands /\ \E i \in DOMAIN batch : batch[i].overlay = c
  BY <1>0, <1>1 DEF RequestType
<1>. QED  BY <1>2, <1>3

(* The overlays of live requests are among them.                           *)
LEMMA OverlaysAre ==
    ASSUME NEW batch \in Seq(RequestType), LiveLast(batch),
           \A i \in DOMAIN batch :
               batch[i].overlay # NoPlacement => batch[i].overlay.pid = batch[i].by
    PROVE  /\ Overlays(batch) \subseteq Commands
           /\ \A c \in Overlays(batch) : \E i \in DOMAIN batch : batch[i].overlay = c
           /\ \A c, d \in Overlays(batch) : c.pid = d.pid => c = d
           /\ \A i \in DOMAIN batch :
                batch[i].live /\ batch[i].by \in Placements /\ batch[i].overlay # NoPlacement =>
                    batch[i].overlay \in Overlays(batch)
<1>. DEFINE Wins(i) == /\ batch[i].overlay # NoPlacement
                       /\ \A j \in DOMAIN batch : j > i /\ batch[j].overlay # NoPlacement =>
                              batch[j].overlay.pid # batch[i].overlay.pid
<1>1. ASSUME NEW i \in DOMAIN batch, batch[i].live, batch[i].by \in Placements,
             batch[i].overlay # NoPlacement
      PROVE  batch[i].overlay \in Overlays(batch)
  <2>1. Wins(i)
    BY <1>1 DEF LiveLast
  <2>. QED  BY <2>1, Zenon DEF Overlays
<1>. QED  BY <1>1, OneOverlayEach

LEMMA FlushListsInv ==
    ASSUME QueueTypes, QueueInv, NEW n \in 1..MaxBatch, FlushLists(n)
    PROVE  QueueTypes' /\ QueueInv'
<1>. DEFINE batch == SubSeq(submit, 1, n)
            overlays == Overlays(batch)
<1>1. n \in 1..Len(submit) /\ submit' = SubSeq(submit, n + 1, Len(submit))
      /\ UNCHANGED <<store, call, abandoned>>
  BY DEF FlushLists, auxVars
<1>2. PICK list : flush' = [NoFlush EXCEPT !.pc = "render", !.batch = batch, !.overlays = overlays,
                                           !.list = list]
  BY Zenon DEF FlushLists
<1>3. /\ batch \in Seq(RequestType) /\ DOMAIN batch = 1..n
      /\ \A i \in 1..n : batch[i] = submit[i]
      /\ submit' \in Seq(RequestType)
      /\ DOMAIN submit' = 1..Len(submit) - n
      /\ \A i \in 1..Len(submit) - n : submit'[i] = submit[i + n]
      /\ Len(submit) \in Nat /\ DOMAIN submit = 1..Len(submit)
  BY <1>1, SplitIs DEF QueueTypes
<1>. HIDE DEF batch
<1>4. LiveLast(batch) /\ LiveLast(submit') /\ LiveAlone(batch, submit')
  <2>1. ASSUME NEW i \in 1..Len(submit), NEW j \in 1..Len(submit), i < j,
               submit[i].live, submit[i].by \in Placements
        PROVE  submit[j].by # submit[i].by
    BY <1>3, <2>1 DEF QueueInv, LiveLast
  <2>2. LiveLast(batch)
    BY <1>1, <1>3, <2>1 DEF LiveLast
  <2>3. LiveLast(submit')
    <3>. SUFFICES ASSUME NEW i \in DOMAIN submit', NEW j \in DOMAIN submit', i < j,
                         submit'[i].live, submit'[i].by \in Placements
                  PROVE  submit'[j].by # submit'[i].by
      BY DEF LiveLast
    <3>1. i + n \in 1..Len(submit) /\ j + n \in 1..Len(submit) /\ i + n < j + n
      BY <1>1, <1>3
    <3>2. submit'[i] = submit[i + n] /\ submit'[j] = submit[j + n]
      BY <1>3
    <3>. QED  BY <2>1, <3>1, <3>2
  <2>4. LiveAlone(batch, submit')
    <3>. SUFFICES ASSUME NEW i \in DOMAIN batch, NEW j \in DOMAIN submit',
                         batch[i].live, batch[i].by \in Placements
                  PROVE  submit'[j].by # batch[i].by
      BY DEF LiveAlone
    <3>1. i \in 1..Len(submit) /\ j + n \in 1..Len(submit) /\ i < j + n
      BY <1>1, <1>3
    <3>2. batch[i] = submit[i] /\ submit'[j] = submit[j + n]
      BY <1>3
    <3>. QED  BY <2>1, <3>1, <3>2
  <2>. QED  BY <2>2, <2>3, <2>4
<1>5. /\ \A i \in DOMAIN batch : RequestOK(batch[i], call, abandoned)
      /\ \A i \in DOMAIN submit' : RequestOK(submit'[i], call, abandoned)
  BY <1>1, <1>3 DEF QueueInv
<1>6. /\ overlays \subseteq Commands
      /\ \A c \in overlays : \E i \in DOMAIN batch : batch[i].overlay = c
      /\ \A c, d \in overlays : c.pid = d.pid => c = d
      /\ \A i \in DOMAIN batch :
           batch[i].live /\ batch[i].by \in Placements /\ batch[i].overlay # NoPlacement =>
               batch[i].overlay \in overlays
  <2>1. \A i \in DOMAIN batch : batch[i].overlay # NoPlacement => batch[i].overlay.pid = batch[i].by
    BY <1>5 DEF RequestOK
  <2>. QED  BY <1>3, <1>4, <2>1, OverlaysAre, Zenon
<1>. HIDE DEF overlays
<1>7. /\ flush' = [pc |-> flush'.pc, batch |-> flush'.batch, list |-> flush'.list,
                   overlays |-> flush'.overlays, cfg |-> flush'.cfg]
      /\ flush'.batch = batch /\ flush'.pc = "render" /\ flush'.overlays = overlays
  BY <1>2, Zenon DEF NoFlush
<1>8. QueueTypes'
  BY <1>1, <1>3, <1>6, <1>7 DEF QueueTypes, StoreTypeOK, FlushPhase
<1>9. OverlaysOK(flush', store')
  <2>1. ASSUME NEW c \in overlays, NEW i \in DOMAIN batch, batch[i].live,
               batch[i].by \in Placements, batch[i].overlay # NoPlacement, c.pid = batch[i].by
        PROVE  c = batch[i].overlay
    BY <1>5, <1>6, <2>1 DEF RequestOK
  <2>. QED  BY <1>6, <1>7, <2>1 DEF OverlaysOK
<1>. QED  BY <1>1, <1>4, <1>5, <1>7, <1>8, <1>9 DEF QueueInv

(* Who waits for an overlay that is still to be stored.                    *)
LEMMA AwaitedOverlay ==
    ASSUME QueueTypes, QueueInv, NEW c \in flush.overlays, c.pid \notin abandoned
    PROVE  call[c.pid].pc = "wait" /\ call[c.pid].cmd = c
<1>1. c \in Commands /\ c.pid \in Placements /\ c # NoPlacement
  BY CommandIs DEF QueueTypes
<1>2. PICK i \in DOMAIN flush.batch : flush.batch[i].overlay = c
  BY DEF QueueInv, OverlaysOK
<1>. QED  BY <1>1, <1>2 DEF QueueInv, RequestOK, Waits

LEMMA FlushPersistsInv ==
    ASSUME QueueTypes, QueueInv, NEW c \in Commands, FlushPersists(c)
    PROVE  QueueTypes' /\ QueueInv'
<1>1. /\ flush.pc = "persist" /\ c \in flush.overlays
      /\ UNCHANGED <<submit, call, abandoned>>
      /\ flush' = [flush EXCEPT !.overlays = @ \ {c}]
  BY DEF FlushPersists, auxVars
<1>2. /\ StoreTypeOK' /\ store'[c.pid] = Row(c, "applied")
      /\ \A p \in Placements \ {c.pid} : store'[p] = store[p]
      /\ c.pid \in Placements /\ c.op \in Nat /\ store'[c.pid].op = c.op
  BY PutIs, CommandIs DEF FlushPersists, AppliedState, QueueTypes
<1>3. /\ flush' = [pc |-> flush'.pc, batch |-> flush'.batch, list |-> flush'.list,
                   overlays |-> flush'.overlays, cfg |-> flush'.cfg]
      /\ flush'.batch = flush.batch /\ flush'.pc = "persist"
      /\ flush'.overlays = flush.overlays \ {c}
  BY <1>1, Zenon DEF QueueTypes
<1>4. QueueTypes'
  BY <1>1, <1>2, <1>3 DEF QueueTypes, FlushPhase
<1>5. \A p \in Placements : CallOK(p, call', store', abandoned')
  <2>. SUFFICES ASSUME NEW p \in Placements PROVE CallOK(p, call, store', abandoned)
    BY <1>1
  <2>1. CASE p # c.pid
    BY <1>2, <2>1 DEF QueueInv, CallOK
  <2>2. CASE p = c.pid /\ p \in abandoned
    BY <2>2 DEF QueueInv, CallOK
  <2>3. CASE p = c.pid /\ p \notin abandoned
    <3>1. call[p].cmd = c
      BY <1>1, <2>3, AwaitedOverlay
    <3>. QED  BY <1>2, <2>3, <3>1 DEF CallOK
  <2>. QED  BY <2>1, <2>2, <2>3
<1>6. OverlaysOK(flush', store')
  <2>1. ASSUME NEW i \in DOMAIN flush.batch, flush.batch[i].live, flush.batch[i].by \in Placements,
               flush.batch[i].overlay # NoPlacement, flush.batch[i].overlay \notin flush'.overlays
        PROVE  store'[flush.batch[i].by] = Row(flush.batch[i].overlay, "applied")
    <3>1. flush.batch[i].overlay.pid = flush.batch[i].by
      BY <2>1 DEF QueueInv, RequestOK
    <3>2. CASE flush.batch[i].overlay = c
      BY <1>2, <3>1, <3>2
    <3>3. CASE flush.batch[i].overlay # c
      <4>1. store[flush.batch[i].by] = Row(flush.batch[i].overlay, "applied")
        BY <1>1, <1>3, <2>1, <3>3 DEF QueueInv, OverlaysOK
      <4>2. flush.batch[i].by # c.pid
        BY <1>1, <2>1, <3>3 DEF QueueInv, OverlaysOK
      <4>. QED  BY <1>2, <2>1, <4>1, <4>2
    <3>. QED  BY <3>2, <3>3
  <2>. QED  BY <1>1, <1>3, <2>1 DEF QueueInv, OverlaysOK
<1>. QED  BY <1>1, <1>3, <1>4, <1>5, <1>6 DEF QueueInv

(* The answer.  A caller that gets one has no other request; that of a     *)
(* successful batch finds its row stored.                                  *)
LEMMA AnswerIs ==
    ASSUME QueueTypes, QueueInv, NEW p \in Placements, Answered(p)
    PROVE  /\ call[p].pc \in Waiting
           /\ \A i \in DOMAIN submit : submit[i].by # p
           /\ /\ call[p].pc = "wait" /\ flush.pc = "persist" /\ flush.overlays = {}
              => store[p] = Row(call[p].cmd, "applied")
<1>1. PICK i \in DOMAIN flush.batch : flush.batch[i].by = p /\ flush.batch[i].live
  BY DEF Answered
<1>2. Waits(call, p, flush.batch[i].overlay)
  BY <1>1 DEF QueueInv, RequestOK
<1>3. \A j \in DOMAIN submit : submit[j].by # p
  BY <1>1 DEF QueueInv, LiveAlone
<1>4. ASSUME call[p].pc = "wait", flush.pc = "persist", flush.overlays = {}
      PROVE  store[p] = Row(call[p].cmd, "applied")
  <2>1. flush.batch[i].overlay = call[p].cmd /\ call[p].cmd # NoPlacement
    BY <1>2, <1>4, CommandIs DEF Waits, QueueInv, CallOK
  <2>. QED  BY <1>1, <1>4, <2>1 DEF QueueInv, OverlaysOK
<1>. QED  BY <1>2, <1>3, <1>4 DEF Waits, Waiting

LEMMA FlushAnswersInv ==
    ASSUME QueueTypes, QueueInv, FlushAnswers
    PROVE  QueueTypes' /\ QueueInv'
<1>1. /\ UNCHANGED <<store, submit, abandoned>> /\ flush' = NoFlush
      /\ call' = [p \in Placements |->
                    IF Answered(p) THEN [call[p] EXCEPT !.pc = AfterAnswer(p)] ELSE call[p]]
  BY DEF FlushAnswers, auxVars
<1>2. ASSUME NEW p \in Placements
      PROVE  /\ call'[p] \in CallRecord /\ call'[p].cmd = call[p].cmd
             /\ Answered(p) => call[p].pc # "idle"
             /\ ~Answered(p) => call'[p] = call[p]
  <2>1. AfterAnswer(p) \in CallPhase /\ call[p] \in CallRecord
    BY DEF AfterAnswer, Swapped, CallPhase, QueueTypes
  <2>. QED  BY <1>1, <2>1, AnswerIs DEF CallRecord, Waiting
<1>3. QueueTypes'
  <2>1. call' \in [Placements -> CallRecord]
    BY <1>1, <1>2
  <2>. QED  BY <1>1, <2>1, NoFlushIs DEF QueueTypes, StoreTypeOK, FlushPhase
<1>4. \A p \in Placements : CallOK(p, call', store', abandoned')
  BY <1>1, <1>2 DEF QueueInv, CallOK
<1>5. \A i \in DOMAIN submit : RequestOK(submit[i], call', abandoned)
  <2>. SUFFICES ASSUME NEW i \in DOMAIN submit PROVE RequestOK(submit[i], call', abandoned)
    OBVIOUS
  <2>1. submit[i].by \in Placements => call'[submit[i].by] = call[submit[i].by]
    BY <1>2, AnswerIs
  <2>. QED  BY <2>1 DEF QueueInv, RequestOK, Waits
<1>. QED  BY <1>1, <1>3, <1>4, <1>5, NoFlushIs DEF QueueInv, LiveAlone, OverlaysOK

-----------------------------------------------------------------------------
(* All steps together.                                                     *)

LEMMA QueueInitInv == SbInit => QueueTypes /\ QueueInv
<1>. SUFFICES ASSUME SbInit PROVE QueueTypes /\ QueueInv
  OBVIOUS
<1>1. QueueTypes
  BY NoFlushIs, NoCallIs DEF SbInit, StoreInit, StoreTypeOK, QueueTypes, FlushPhase
<1>2. \A p \in Placements : CallOK(p, call, store, abandoned)
  BY NoCallIs DEF SbInit, CallOK
<1>. QED  BY <1>1, <1>2, NoFlushIs DEF SbInit, QueueInv, LiveLast, LiveAlone, OverlaysOK

(* What a handler call does to the calls and the rows.                     *)
LEMMA CallStepIs ==
    ASSUME QueueTypes, QueueInv, NEW p \in Placements, CallWorks(p) \/ CallFails(p)
    PROVE  (Moves(p) /\ OwnRow(p)) \/ Submits(p) \/ GivesUp(p)
<1>1. ASSUME UNCHANGED store
      PROVE  OwnRow(p)
  BY <1>1, SMTT(30) DEF OwnRow, QueueTypes, StoreTypeOK
<1>2. ASSUME NEW c \in Commands, Dispatch(p, c)
      PROVE  Moves(p) /\ OwnRow(p)
  BY <1>1, <1>2, DispatchMoves, ZenonT(40) DEF Dispatch
<1>3. CASE \/ Checks(p) \/ ListsUsers(p) \/ SelectOutbound(p) \/ SelectRefused(p) \/ Drained(p)
           \/ SelectFails(p) \/ DrainFails(p) \/ StoreFails(p)
  BY <1>1, <1>3, CallMoves
<1>4. CASE StoresSelected(p) \/ HandlerStores(p)
  BY <1>4, CallStores
<1>. QED  BY <1>2, <1>3, <1>4 DEF CallWorks, CallFails

(* The steps, by what they do to the calls and the rows.                   *)
LEMMA StepIs ==
    ASSUME QueueTypes, QueueInv, [SbNext]_sbVars
    PROVE  \/ \E p \in Placements : Moves(p) /\ OwnRow(p)
           \/ \E p \in Placements : Submits(p) \/ GivesUp(p)
           \/ RebuildFromStore
           \/ \E n \in 1..MaxBatch : FlushLists(n)
           \/ \/ FlushRenders \/ RenderFails \/ FlushWrites \/ FlushReloads \/ ReloadRefused
              \/ FlushStoreFails \/ FlushFails
           \/ \E c \in Commands : FlushPersists(c)
           \/ FlushAnswers
           \/ AgentCrash
           \/ UNCHANGED <<store, submit, flush, call, abandoned>>
<1>1. CASE (\E e \in Upstreams : UpstreamChanged(e)) \/ SingboxRestarts \/ UNCHANGED sbVars
  BY <1>1 DEF UpstreamChanged, SingboxRestarts, sbVars, coalescerVars, auxVars
<1>. QED  BY <1>1, CallStepIs DEF SbNext, SbWorks, FlushWorks

LEMMA QueueStepInv ==
    ASSUME QueueTypes, QueueInv, [SbNext]_sbVars
    PROVE  QueueTypes' /\ QueueInv'
<1>1. CASE AgentCrash
  BY <1>1, ResetInv DEF AgentCrash
<1>2. CASE UNCHANGED <<store, submit, flush, call, abandoned>>
  BY <1>2, Zenon DEF QueueTypes, StoreTypeOK, QueueInv
<1>. QED  BY <1>1, <1>2, StepIs, MoveInv, SubmitsInv, GivesUpInv, RebuildInv, FlushListsInv,
             FlushGoesOn, FlushPersistsInv, FlushAnswersInv

LEMMA VersionStep ==
    ASSUME QueueTypes, QueueInv, [SbNext]_sbVars, NEW p \in Placements \ abandoned, Found(store[p])
    PROVE  Found(store'[p]) /\ store'[p].op >= store[p].op
<1>0. store[p].op \in Nat
  BY DEF QueueTypes, StoreTypeOK, RowType, Found
<1>1. CASE store'[p] = store[p]
  BY <1>0, <1>1
<1>2. ASSUME NEW q \in Placements, OwnRow(q)
      PROVE  Found(store'[p]) /\ store'[p].op >= store[p].op
  <2>1. CASE q # p
    BY <1>1, <1>2, <2>1 DEF OwnRow
  <2>2. CASE q = p /\ store'[p] # store[p]
    <3>1. /\ call[p].pc # "idle" /\ call[p].cmd \in Commands
          /\ Found(store'[p]) /\ store'[p].op = call[p].cmd.op
      BY <1>2, <2>2 DEF OwnRow
    <3>2. call[p].cmd.op \in Nat /\ store[p].op <= call[p].cmd.op
      BY <3>1, CommandIs DEF QueueInv, CallOK
    <3>. QED  BY <1>0, <3>1, <3>2
  <2>. QED  BY <1>1, <2>1, <2>2
<1>3. ASSUME NEW c \in Commands, FlushPersists(c)
      PROVE  Found(store'[p]) /\ store'[p].op >= store[p].op
  <2>1. /\ store'[c.pid] = Row(c, "applied") /\ c \in flush.overlays
        /\ \A q \in Placements \ {c.pid} : store'[q] = store[q]
    BY <1>3, PutIs DEF FlushPersists, AppliedState, QueueTypes
  <2>2. CASE p # c.pid
    BY <1>1, <2>1, <2>2
  <2>3. CASE p = c.pid
    <3>1. call[p].pc = "wait" /\ call[p].cmd = c
      BY <2>1, <2>3, AwaitedOverlay
    <3>2. Found(store'[p]) /\ store'[p].op = c.op /\ c.op \in Nat
      BY <2>1, <2>3, CommandIs DEF AppliedState
    <3>3. store[p].op <= c.op
      BY <3>1 DEF QueueInv, CallOK
    <3>. QED  BY <1>0, <3>2, <3>3
  <2>. QED  BY <2>2, <2>3
<1>4. CASE \/ \E q \in Placements : Submits(q) \/ GivesUp(q)
           \/ RebuildFromStore \/ AgentCrash \/ FlushAnswers
           \/ \E n \in 1..MaxBatch : FlushLists(n)
           \/ FlushRenders \/ RenderFails \/ FlushWrites \/ FlushReloads \/ ReloadRefused
           \/ FlushStoreFails \/ FlushFails
           \/ UNCHANGED <<store, submit, flush, call, abandoned>>
  BY <1>1, <1>4, ZenonT(40)
     DEF Submits, GivesUp, RebuildFromStore, AgentCrash, FlushAnswers, FlushLists,
         FlushRenders, RenderFails, FlushWrites, FlushReloads, ReloadRefused, FlushStoreFails,
         FlushFails
<1>. QED  BY <1>2, <1>3, <1>4, StepIs

LEMMA AnsweredStep ==
    ASSUME QueueTypes, QueueInv, [SbNext]_sbVars, NEW p \in Placements,
           At(p, "wait"), call'[p].pc \in {"ok", "drain"}
    PROVE  store[p] = Row(call[p].cmd, "applied")
<1>0. call[p].pc = "wait" /\ call'[p].pc # call[p].pc
  BY DEF At
<1>1. ASSUME NEW q \in Placements, Moves(q)
      PROVE  FALSE
  BY <1>0, <1>1 DEF Moves, Waiting
<1>2. ASSUME NEW q \in Placements, Submits(q)
      PROVE  FALSE
  BY <1>0, <1>2 DEF Submits, Goto, At, QueueTypes
<1>3. ASSUME NEW q \in Placements, GivesUp(q)
      PROVE  FALSE
  BY <1>0, <1>3, NoCallIs DEF GivesUp, QueueTypes
<1>4. CASE AgentCrash
  BY <1>4, NoCallIs DEF AgentCrash
<1>5. CASE FlushAnswers
  <2>1. call' = [q \in Placements |->
                   IF Answered(q) THEN [call[q] EXCEPT !.pc = AfterAnswer(q)] ELSE call[q]]
    BY <1>5 DEF FlushAnswers
  <2>2. Answered(p) /\ call'[p].pc = AfterAnswer(p)
    BY <1>0, <2>1 DEF QueueTypes, CallRecord
  <2>3. flush.pc # "failed"
    BY <2>2 DEF AfterAnswer
  <2>. QED  BY <1>0, <1>5, <2>2, <2>3, AnswerIs DEF FlushAnswers
<1>6. CASE \/ RebuildFromStore \/ (\E n \in 1..MaxBatch : FlushLists(n))
           \/ (\E c \in Commands : FlushPersists(c))
           \/ FlushRenders \/ RenderFails \/ FlushWrites \/ FlushReloads \/ ReloadRefused
           \/ FlushStoreFails \/ FlushFails
           \/ UNCHANGED <<store, submit, flush, call, abandoned>>
  BY <1>0, <1>6, Zenon DEF RebuildFromStore, FlushLists, FlushPersists, FlushRenders, RenderFails,
         FlushWrites, FlushReloads, ReloadRefused, FlushStoreFails, FlushFails
<1>. QED  BY <1>1, <1>2, <1>3, <1>4, <1>5, <1>6, StepIs

(* As long as no request of a placement was given up its stored version    *)
(* never goes back, whatever batches, flips, failures and restarts do.     *)
THEOREM AwaitedVersionsAreKept == SbSpec => VersionsKeptWhileAwaited
<1>1. QueueTypes /\ QueueInv /\ [SbNext]_sbVars =>
        [\A p \in Placements \ abandoned :
           Found(store[p]) => Found(store'[p]) /\ store'[p].op >= store[p].op]_sbVars
  BY VersionStep
<1>. QED  BY <1>1, QueueInitInv, QueueStepInv, PTL DEF SbSpec, VersionsKeptWhileAwaited

(* A handler that the coalescer answers with success finds its row in the  *)
(* table, also beside requests that it had given up earlier.               *)
THEOREM AnswersAreStored == SbSpec => AnsweredMeansStored
<1>1. QueueTypes /\ QueueInv /\ [SbNext]_sbVars =>
        [\A p \in Placements :
           At(p, "wait") /\ call'[p].pc \in {"ok", "drain"} =>
               store[p] = Row(call[p].cmd, "applied")]_sbVars
  BY AnsweredStep
<1>. QED  BY <1>1, QueueInitInv, QueueStepInv, PTL DEF SbSpec, AnsweredMeansStored

-----------------------------------------------------------------------------
(* Types of the rendering.                                                 *)

ListType == UNION {[ps -> EntryType] : ps \in SUBSET Placements}

ConfigTypes ==
    /\ registry \subseteq Backends
    /\ file \in ConfigType \cup {EmptyFile}
    /\ running \in ConfigType \cup {EmptyFile}
    /\ lastHash \in ConfigType \cup {EmptyFile}
    /\ flush.cfg \in ConfigType \cup {EmptyFile}
    /\ running # EmptyFile => DOMAIN chosen = DOMAIN running.selectors
    /\ flush.pc = "render" => flush.list \in ListType

QueueBounds ==
    /\ Len(submit) <= MaxSubmit /\ Len(flush.batch) <= MaxBatch
    /\ rebuild \in {"idle", "wait"} /\ scenario \in Scenarios /\ abandoned \subseteq Placements

-----------------------------------------------------------------------------
(* The listed placements and the configurations keep their types.          *)

(* The row c has been laid over the list.                                  *)
Laid(list, c) ==
    /\ c.pid \in DOMAIN list /\ list[c.pid].desired = c.desired
    /\ list[c.pid].client = c.client /\ list[c.pid].backend = c.backend

LEMMA ListIs ==
    ASSUME NEW list \in ListType
    PROVE  DOMAIN list \subseteq Placements /\ \A p \in DOMAIN list : list[p] \in EntryType
BY DEF ListType

(* What Build and MergeBase return.                                        *)
LEMMA BuildIs ==
    ASSUME NEW list \in ListType, NEW known \in SUBSET Backends, NEW cfg \in Build(list, known)
    PROVE  /\ cfg \in ConfigType
           /\ cfg.users = CollectActiveUsers(list) /\ cfg.rules = {}
           /\ DOMAIN cfg.selectors = RoutedUsers(list, known)
           /\ \A u \in RoutedUsers(list, known) :
                /\ cfg.selectors[u].options = known /\ cfg.selectors[u].default \in known
                /\ cfg.selectors[u].default \in DesiredBackends(list, known, u)
<1>1. PICK ss \in BuildSelectors(list, known) :
        cfg = [users |-> CollectActiveUsers(list), outs |-> RoutedUsers(list, known) \X known,
               rules |-> {}, selectors |-> ss]
  BY DEF Build
<1>2. /\ ss \in [RoutedUsers(list, known) -> [options: {known}, default: known]]
      /\ \A u \in RoutedUsers(list, known) : ss[u].default \in DesiredBackends(list, known, u)
  BY DEF BuildSelectors
<1>3. CollectActiveUsers(list) \subseteq Clients /\ RoutedUsers(list, known) \subseteq Clients
  BY ListIs DEF CollectActiveUsers, RoutedUsers, Served, Active, EntryType
<1>4. ss \in [RoutedUsers(list, known) -> SelectorType]
  BY <1>2 DEF SelectorType
<1>5. ss \in UNION {[us -> SelectorType] : us \in SUBSET Clients}
  BY <1>3, <1>4
<1>6. RoutedUsers(list, known) \X known \subseteq Clients \X Backends
  BY <1>3
<1>7. cfg \in ConfigType
  BY <1>1, <1>3, <1>5, <1>6 DEF ConfigType
<1>. QED  BY <1>1, <1>2, <1>7, SMTT(30)

LEMMA MergeIs ==
    ASSUME NEW base \in ConfigType, NEW list \in ListType, NEW known \in SUBSET Backends
    PROVE  /\ MergeBase(base, list, known) \in ConfigType
           /\ MergeBase(base, list, known).users = MergeInbounds(base, list)
           /\ MergeBase(base, list, known).outs = Pairs(list, known)
           /\ MergeBase(base, list, known).rules = Pairs(list, known)
           /\ MergeBase(base, list, known).selectors = base.selectors
<1>1. MergeInbounds(base, list) \subseteq Clients
  BY ListIs DEF MergeInbounds, CollectActiveUsers, Active, EntryType, ConfigType
<1>2. Pairs(list, known) \subseteq Clients \X Backends
  BY ListIs DEF Pairs, Served, Active, EntryType
<1>. QED  BY <1>1, <1>2 DEF MergeBase, MergeOutbounds, MergeRoute, ConfigType

LEMMA RenderIs ==
    ASSUME NEW base \in ConfigType \cup {EmptyFile}, NEW list \in ListType,
           NEW known \in SUBSET Backends, NEW cfg \in RenderFromState(base, list, known)
    PROVE  /\ cfg \in ConfigType
           /\ IF base = EmptyFile THEN cfg \in Build(list, known)
                                  ELSE base \in ConfigType /\ cfg = MergeBase(base, list, known)
<1>1. CASE base = EmptyFile
  BY <1>1, BuildIs DEF RenderFromState
<1>2. CASE base # EmptyFile
  BY <1>2, MergeIs DEF RenderFromState
<1>. QED  BY <1>1, <1>2

LEMMA TemplateIs == Template \in ConfigType /\ DOMAIN Template.selectors = {}
<1>1. <<>> \in [{} -> SelectorType] /\ DOMAIN <<>> = {}
  OBVIOUS
<1>2. <<>> \in UNION {[us -> SelectorType] : us \in SUBSET Clients}
  BY <1>1
<1>. QED  BY <1>1, <1>2 DEF Template, ConfigType

(* The placements of a batch: the rows of its overlays, and of the table   *)
(* where there is none.                                                    *)
LEMMA OverlaidIs ==
    ASSUME StoreTypeOK, NEW cs \in SUBSET Commands
    PROVE  /\ ApplyPlacementOverlay(Listing, cs) \in ListType
           /\ \A p \in DOMAIN ApplyPlacementOverlay(Listing, cs) :
                \/ \E c \in cs : c.pid = p /\ Laid(ApplyPlacementOverlay(Listing, cs), c)
                \/ /\ p \in Placements /\ Found(store[p]) /\ \A c \in cs : c.pid # p
                   /\ ApplyPlacementOverlay(Listing, cs)[p].client = store[p].client
           /\ \A c \in cs : c.pid \in DOMAIN ApplyPlacementOverlay(Listing, cs)
<1>. DEFINE list == ApplyPlacementOverlay(Listing, cs)
            pids == ListPlacements \cup {c.pid : c \in cs}
            chosenOf(p) == CHOOSE c \in cs : c.pid = p
<1>1. Listing = [p \in ListPlacements |-> Entry(store[p], "listed")] /\ DOMAIN Listing = ListPlacements
  BY DEF Listing
<1>2. list = [p \in pids |->
                IF \E c \in cs : c.pid = p
                THEN Entry(chosenOf(p), IF p \in ListPlacements THEN "listed" ELSE "added")
                ELSE Listing[p]]
  BY <1>1, Zenon DEF ApplyPlacementOverlay
<1>3. ASSUME NEW p, \E c \in cs : c.pid = p
      PROVE  chosenOf(p) \in cs /\ chosenOf(p).pid = p
  BY <1>3, Zenon
<1>4. \A c \in cs : c \in CommandType
  BY CommandsAssumption, SMTT(30)
<1>. HIDE DEF chosenOf
<1>5. ASSUME NEW p \in pids
      PROVE  /\ p \in Placements /\ list[p] \in EntryType
             /\ \/ \E c \in cs : c.pid = p /\ Laid(list, c)
                \/ /\ Found(store[p]) /\ \A c \in cs : c.pid # p
                   /\ list[p].client = store[p].client
  <2>1. CASE \E c \in cs : c.pid = p
    <3>1. PICK place \in {"listed", "added"} : list[p] = Entry(chosenOf(p), place)
      BY <1>2, <2>1
    <3>2. chosenOf(p) \in cs /\ chosenOf(p).pid = p /\ chosenOf(p) \in CommandType
      BY <1>3, <1>4, <2>1
    <3>3. p \in DOMAIN list
      BY <1>2
    <3>. QED  BY <3>1, <3>2, <3>3 DEF Entry, EntryType, CommandType, Laid
  <2>2. CASE \A c \in cs : c.pid # p
    <3>1. p \in ListPlacements
      BY <2>2
    <3>2. list[p] = Entry(store[p], "listed")
      BY <1>1, <1>2, <2>2, <3>1, Zenon
    <3>3. p \in Placements /\ Found(store[p]) /\ store[p] \in RowType
      BY <3>1 DEF ListPlacements, StoreTypeOK, Found
    <3>. QED  BY <2>2, <3>2, <3>3 DEF Entry, EntryType, RowType
  <2>. QED  BY <2>1, <2>2
<1>6. DOMAIN list = pids
  BY <1>2
<1>7. list \in [pids -> EntryType] /\ pids \in SUBSET Placements
  BY <1>2, <1>5, Zenon
<1>. HIDE DEF list, pids
<1>8. list \in ListType
  BY <1>7 DEF ListType
<1>9. \A c \in cs : c.pid \in DOMAIN list
  BY <1>6 DEF pids
<1>. QED  BY <1>5, <1>6, <1>8, <1>9 DEF list

(* Nothing happens to sing-box and to what is rendered for it.             *)
SameSide ==
    /\ UNCHANGED <<registry, file, running, chosen, lastHash, scenario>>
    /\ flush'.pc = flush.pc /\ flush'.list = flush.list
    /\ flush'.overlays = flush.overlays /\ flush'.cfg = flush.cfg

(* The steps, by what they do to sing-box and the rendering.               *)
LEMMA SideSteps ==
    ASSUME QueueTypes, [SbNext]_sbVars
    PROVE  \/ SameSide
           \/ \E p \in Placements : SelectOutbound(p) \/ SelectFails(p)
           \/ \E n \in 1..MaxBatch : FlushLists(n)
           \/ FlushRenders \/ FlushWrites \/ FlushReloads
           \/ RenderFails \/ ReloadRefused \/ FlushStoreFails \/ FlushFails
           \/ \E c \in Commands : FlushPersists(c)
           \/ FlushAnswers
           \/ \E e \in Upstreams : UpstreamChanged(e)
           \/ AgentCrash \/ SingboxRestarts
<1>1. ASSUME NEW p \in Placements, CallWorks(p) \/ CallFails(p)
      PROVE  SameSide \/ SelectOutbound(p) \/ SelectFails(p)
  <2>1. ASSUME NEW c \in Commands, Dispatch(p, c)
        PROVE  SameSide
    BY <2>1, Zenon DEF Dispatch, SameSide, singboxVars, coalescerVars, auxVars
  <2>2. CASE \/ Checks(p) \/ ListsUsers(p) \/ SelectRefused(p) \/ StoresSelected(p) \/ Drained(p)
             \/ HandlerStores(p) \/ DrainFails(p) \/ StoreFails(p)
    <3>1. UNCHANGED <<registry, singboxVars, coalescerVars, auxVars>>
      BY <2>2, Zenon DEF Checks, ListsUsers, SelectRefused, StoresSelected, Drained, HandlerStores,
                         DrainFails, StoreFails
    <3>. QED  BY <3>1 DEF SameSide, singboxVars, coalescerVars, auxVars
  <2>3. CASE Submits(p)
    BY <2>3 DEF Submits, SameSide, singboxVars, auxVars
  <2>4. CASE GivesUp(p)
    <3>1. /\ UNCHANGED <<registry, file, running, chosen, lastHash, scenario>>
          /\ flush' = [flush EXCEPT !.batch = Abandon(@, p)]
      BY <2>4 DEF GivesUp, singboxVars
    <3>. QED  BY <3>1 DEF SameSide, QueueTypes
  <2>. QED  BY <1>1, <2>1, <2>2, <2>3, <2>4 DEF CallWorks, CallFails
<1>2. CASE RebuildFromStore \/ UNCHANGED sbVars
  BY <1>2 DEF RebuildFromStore, SameSide, sbVars, singboxVars, coalescerVars, auxVars
<1>. QED  BY <1>1, <1>2 DEF SbNext, SbWorks, FlushWorks

(* Failing ends a flush and leaves nothing rendered.                       *)
LEMMA FailedIs ==
    ASSUME RenderFails \/ ReloadRefused \/ FlushStoreFails \/ FlushFails
    PROVE  /\ flush'.pc = "failed" /\ flush'.cfg = EmptyFile /\ flush'.overlays = {}
           /\ flush'.batch = flush.batch
           /\ UNCHANGED <<store, registry, file, lastHash, submit, call, rebuild, scenario, abandoned>>
           /\ \/ UNCHANGED <<running, chosen>>
              \/ FlushFails /\ flush.pc = "reload" /\ Loads(file) /\ LoadFile
<1>1. flush' = [NoFlush EXCEPT !.pc = "failed", !.batch = flush.batch]
  BY DEF RenderFails, ReloadRefused, FlushStoreFails, FlushFails
<1>2. /\ flush'.pc = "failed" /\ flush'.cfg = EmptyFile /\ flush'.overlays = {}
      /\ flush'.batch = flush.batch
  BY <1>1 DEF NoFlush
<1>. QED  BY <1>2, Zenon DEF RenderFails, ReloadRefused, FlushStoreFails, FlushFails, singboxVars, auxVars

(* The other steps of a flush, field by field.                             *)
LEMMA ListsIs ==
    ASSUME QueueTypes, NEW n \in 1..MaxBatch, FlushLists(n)
    PROVE  /\ flush'.pc = "render" /\ flush'.cfg = EmptyFile
           /\ flush'.batch = SubSeq(submit, 1, n)
           /\ flush'.overlays = Overlays(SubSeq(submit, 1, n))
           /\ flush'.list = ApplyPlacementOverlay(Listing, flush'.overlays)
           /\ UNCHANGED <<store, registry, file, running, chosen, lastHash, call, rebuild, scenario,
                          abandoned>>
<1>1. flush' = [NoFlush EXCEPT !.pc = "render", !.batch = SubSeq(submit, 1, n),
                    !.overlays = Overlays(SubSeq(submit, 1, n)),
                    !.list = ApplyPlacementOverlay(Listing, Overlays(SubSeq(submit, 1, n)))]
  BY DEF FlushLists
<1>2. /\ flush'.pc = "render" /\ flush'.cfg = EmptyFile
      /\ flush'.batch = SubSeq(submit, 1, n)
      /\ flush'.overlays = Overlays(SubSeq(submit, 1, n))
      /\ flush'.list = ApplyPlacementOverlay(Listing, Overlays(SubSeq(submit, 1, n)))
  BY <1>1 DEF NoFlush
<1>. QED  BY <1>2 DEF FlushLists, singboxVars, auxVars

LEMMA RendersIs ==
    ASSUME QueueTypes, FlushRenders
    PROVE  /\ flush.pc = "render" /\ Validate(flush.list, registry)
           /\ flush'.batch = flush.batch /\ flush'.overlays = flush.overlays
           /\ \E cfg \in RenderFromState(file, flush.list, registry) :
                IF cfg = lastHash THEN flush'.pc = "persist" /\ flush'.cfg = EmptyFile
                                  ELSE flush'.pc = "write" /\ flush'.cfg = cfg
           /\ UNCHANGED <<store, registry, file, running, chosen, lastHash, submit, call, rebuild,
                          scenario, abandoned>>
<1>1. PICK cfg \in RenderFromState(file, flush.list, registry) :
        flush' = [flush EXCEPT !.pc = IF cfg = lastHash THEN "persist" ELSE "write",
                               !.list = <<>>, !.cfg = IF cfg = lastHash THEN EmptyFile ELSE cfg]
  BY Zenon DEF FlushRenders
<1>2. /\ flush'.batch = flush.batch /\ flush'.overlays = flush.overlays
      /\ IF cfg = lastHash THEN flush'.pc = "persist" /\ flush'.cfg = EmptyFile
                           ELSE flush'.pc = "write" /\ flush'.cfg = cfg
  BY <1>1 DEF QueueTypes
<1>. QED  BY <1>2 DEF FlushRenders, singboxVars, auxVars

LEMMA WritesIs ==
    ASSUME QueueTypes, FlushWrites
    PROVE  /\ flush.pc = "write" /\ flush'.pc = "reload" /\ flush'.cfg = flush.cfg
           /\ flush'.batch = flush.batch /\ flush'.overlays = flush.overlays
           /\ file' = flush.cfg
           /\ UNCHANGED <<store, registry, running, chosen, lastHash, submit, call, rebuild, scenario,
                          abandoned>>
BY DEF FlushWrites, QueueTypes, auxVars

LEMMA ReloadsIs ==
    ASSUME QueueTypes, FlushReloads
    PROVE  /\ flush.pc = "reload" /\ flush'.pc = "persist" /\ flush'.cfg = EmptyFile
           /\ flush'.batch = flush.batch /\ flush'.overlays = flush.overlays
           /\ Loads(file) /\ running' = file /\ chosen' = Defaults(file) /\ lastHash' = flush.cfg
           /\ UNCHANGED <<store, registry, file, submit, call, rebuild, scenario, abandoned>>
BY DEF FlushReloads, LoadFile, QueueTypes, auxVars

LEMMA PersistsIs ==
    ASSUME QueueTypes, NEW c \in Commands, FlushPersists(c)
    PROVE  /\ flush.pc = "persist" /\ c \in flush.overlays
           /\ flush'.pc = "persist" /\ flush'.cfg = flush.cfg /\ flush'.batch = flush.batch
           /\ flush'.overlays = flush.overlays \ {c}
           /\ UNCHANGED <<registry, file, running, chosen, lastHash, submit, call, rebuild, scenario,
                          abandoned>>
BY DEF FlushPersists, QueueTypes, singboxVars, auxVars

LEMMA AnswersIs ==
    ASSUME FlushAnswers
    PROVE  /\ flush'.pc = "idle" /\ flush'.cfg = EmptyFile /\ flush'.overlays = {}
           /\ flush'.batch = <<>>
           /\ UNCHANGED <<store, registry, file, running, chosen, lastHash, submit, scenario, abandoned>>
BY DEF FlushAnswers, NoFlush, singboxVars, auxVars

(* A choice is made in sing-box, or not.                                   *)
LEMMA SelectsIs ==
    ASSUME NEW p \in Placements, SelectOutbound(p) \/ SelectFails(p)
    PROVE  /\ UNCHANGED <<store, registry, file, running, lastHash, submit, flush, rebuild, scenario,
                          abandoned>>
           /\ At(p, "select") /\ (UNCHANGED chosen \/ SelectEffect(call[p].cmd))
BY DEF SelectOutbound, SelectFails, coalescerVars, auxVars

LEMMA DefaultsAre ==
    ASSUME NEW cfg \in ConfigType
    PROVE  /\ DOMAIN Defaults(cfg) = DOMAIN cfg.selectors
           /\ \A u \in DOMAIN cfg.selectors : Defaults(cfg)[u] = cfg.selectors[u].default
BY DEF Defaults

LEMMA ConfigTypesStep ==
    ASSUME QueueTypes, QueueInv, ConfigTypes, [SbNext]_sbVars
    PROVE  ConfigTypes'
<1>0. ASSUME Loads(file), LoadFile
      PROVE  /\ running' \in ConfigType \cup {EmptyFile}
             /\ running' # EmptyFile => DOMAIN chosen' = DOMAIN running'.selectors
  <2>1. file \in ConfigType
    BY <1>0 DEF ConfigTypes, Loads
  <2>. QED  BY <1>0, <2>1, DefaultsAre DEF LoadFile
<1>1. CASE SameSide
  BY <1>1 DEF SameSide, ConfigTypes
<1>2. ASSUME NEW p \in Placements, SelectOutbound(p) \/ SelectFails(p)
      PROVE  ConfigTypes'
  <2>1. DOMAIN chosen' = DOMAIN chosen
    BY <1>2, SelectsIs, SMTT(30) DEF SelectEffect
  <2>. QED  BY <1>2, <2>1, SelectsIs DEF ConfigTypes
<1>3. ASSUME NEW n \in 1..MaxBatch, FlushLists(n)
      PROVE  ConfigTypes'
  <2>1. flush'.overlays \subseteq Commands
    BY <1>3, FlushListsInv DEF QueueTypes
  <2>2. flush'.list \in ListType
    BY <1>3, <2>1, ListsIs, OverlaidIs DEF QueueTypes
  <2>. QED  BY <1>3, <2>2, ListsIs DEF ConfigTypes
<1>4. CASE FlushRenders
  <2>1. flush.list \in ListType
    BY <1>4 DEF FlushRenders, ConfigTypes
  <2>2. \A cfg \in RenderFromState(file, flush.list, registry) : cfg \in ConfigType
    BY <2>1, RenderIs, Zenon DEF ConfigTypes
  <2>3. flush'.cfg \in ConfigType \cup {EmptyFile} /\ flush'.pc # "render"
    BY <1>4, <2>2, RendersIs
  <2>. QED  BY <1>4, <2>3, RendersIs DEF ConfigTypes
<1>5. CASE FlushWrites
  BY <1>5, WritesIs DEF ConfigTypes
<1>6. CASE FlushReloads
  BY <1>0, <1>6, ReloadsIs DEF ConfigTypes, LoadFile
<1>7. CASE RenderFails \/ ReloadRefused \/ FlushStoreFails \/ FlushFails
  BY <1>0, <1>7, FailedIs DEF ConfigTypes
<1>8. ASSUME NEW c \in Commands, FlushPersists(c)
      PROVE  ConfigTypes'
  BY <1>8, PersistsIs DEF ConfigTypes
<1>9. CASE FlushAnswers
  BY <1>9, AnswersIs DEF ConfigTypes
<1>10. ASSUME NEW e \in Upstreams, UpstreamChanged(e)
       PROVE  ConfigTypes'
  <2>1. e.backend \in Backends
    BY UpstreamsAssumption
  <2>. QED  BY <1>10, <2>1 DEF UpstreamChanged, ConfigTypes, singboxVars, coalescerVars
<1>11. CASE AgentCrash
  BY <1>11 DEF AgentCrash, ConfigTypes, NoFlush, singboxVars
<1>12. CASE SingboxRestarts
  BY <1>0, <1>12 DEF SingboxRestarts, ConfigTypes, coalescerVars
<1>. QED  BY <1>1, <1>2, <1>3, <1>4, <1>5, <1>6, <1>7, <1>8, <1>9, <1>10, <1>11, <1>12, SideSteps

(* The lengths of the channel and the batch.                               *)
LEMMA BoundsStep ==
    ASSUME QueueTypes, QueueInv, QueueBounds, [SbNext]_sbVars
    PROVE  QueueBounds'
<1>0. /\ Len(submit) \in Nat /\ Len(flush.batch) \in Nat
      /\ MaxBatch \in Nat \ {0} /\ MaxSubmit \in Nat \ {0}
  BY BatchAssumption, LenProperties DEF QueueTypes
<1>1. ASSUME Len(submit) < MaxSubmit, NEW r, submit' = Append(submit, r)
      PROVE  Len(submit') <= MaxSubmit
  BY <1>0, <1>1, AppendProperties DEF QueueTypes
<1>2. ASSUME NEW p \in Placements, Submits(p)
      PROVE  QueueBounds'
  <2>1. Len(submit') <= MaxSubmit
    BY <1>1, <1>2 DEF Submits
  <2>. QED  BY <1>2, <2>1 DEF Submits, QueueBounds, auxVars
<1>3. CASE RebuildFromStore
  <2>1. Len(submit') <= MaxSubmit
    BY <1>1, <1>3 DEF RebuildFromStore
  <2>. QED  BY <1>3, <2>1 DEF RebuildFromStore, QueueBounds, auxVars
<1>4. ASSUME NEW p \in Placements, GivesUp(p)
      PROVE  QueueBounds'
  <2>1. ASSUME NEW rs \in Seq(RequestType)
        PROVE  Len(Abandon(rs, p)) = Len(rs)
    BY AbandonIs, LenProperties
  <2>2. /\ submit' = Abandon(submit, p) /\ flush' = [flush EXCEPT !.batch = Abandon(@, p)]
        /\ UNCHANGED <<rebuild, scenario>> /\ abandoned' \subseteq abandoned \cup {p}
    BY <1>4 DEF GivesUp
  <2>3. flush'.batch = Abandon(flush.batch, p)
    BY <2>2 DEF QueueTypes
  <2>. QED  BY <2>1, <2>2, <2>3 DEF QueueBounds, QueueTypes
<1>5. ASSUME NEW n \in 1..MaxBatch, FlushLists(n)
      PROVE  QueueBounds'
  <2>1. n \in 1..Len(submit) /\ submit' = SubSeq(submit, n + 1, Len(submit))
    BY <1>5 DEF FlushLists
  <2>2. Len(SubSeq(submit, 1, n)) = n /\ Len(submit') = Len(submit) - n
    BY <2>1, SubSeqProperties DEF QueueTypes
  <2>3. Len(submit') <= MaxSubmit /\ Len(flush'.batch) <= MaxBatch
    BY <1>0, <1>5, <2>1, <2>2, ListsIs DEF QueueBounds
  <2>. QED  BY <1>5, <2>3, ListsIs DEF QueueBounds
<1>6. CASE FlushRenders
  BY <1>6, RendersIs DEF QueueBounds
<1>7. CASE FlushWrites
  BY <1>7, WritesIs DEF QueueBounds
<1>8. CASE FlushReloads
  BY <1>8, ReloadsIs DEF QueueBounds
<1>9. CASE RenderFails \/ ReloadRefused \/ FlushStoreFails \/ FlushFails
  BY <1>9, FailedIs DEF QueueBounds
<1>10. ASSUME NEW c \in Commands, FlushPersists(c)
       PROVE  QueueBounds'
  BY <1>10, PersistsIs DEF QueueBounds
<1>11. CASE FlushAnswers
  <2>1. rebuild' \in {"idle", "wait"}
    BY <1>11 DEF FlushAnswers, QueueBounds
  <2>. QED  BY <1>0, <1>11, <2>1, AnswersIs DEF QueueBounds
<1>12. CASE AgentCrash
  BY <1>0, <1>12 DEF AgentCrash, NoFlush, QueueBounds
<1>13. CASE UNCHANGED <<submit, flush, rebuild, scenario, abandoned>>
  BY <1>13 DEF QueueBounds
<1>14. ASSUME NEW p \in Placements, CallWorks(p) \/ CallFails(p), ~Submits(p), ~GivesUp(p)
       PROVE  UNCHANGED <<submit, flush, rebuild, scenario, abandoned>>
  BY <1>14, Zenon
     DEF CallWorks, CallFails, Dispatch, Checks, ListsUsers, SelectOutbound, SelectRefused,
         StoresSelected, Drained, HandlerStores, SelectFails, DrainFails, StoreFails,
         coalescerVars, auxVars
<1>15. CASE (\E e \in Upstreams : UpstreamChanged(e)) \/ SingboxRestarts \/ UNCHANGED sbVars
  BY <1>13, <1>15 DEF UpstreamChanged, SingboxRestarts, sbVars, coalescerVars, auxVars
<1>. QED  BY <1>2, <1>3, <1>4, <1>5, <1>6, <1>7, <1>8, <1>9, <1>10, <1>11, <1>12, <1>13, <1>14, <1>15
             DEF SbNext, SbWorks, FlushWorks

LEMMA SbTypesInit == SbInit => ConfigTypes /\ QueueBounds
<1>. SUFFICES ASSUME SbInit PROVE ConfigTypes /\ QueueBounds
  OBVIOUS
<1>1. file \in ConfigType \cup {EmptyFile} /\ (file # EmptyFile => DOMAIN file.selectors = {})
  BY TemplateIs, BaseFilesAssumption DEF SbInit
<1>2. running \in {file, EmptyFile} /\ chosen = <<>> /\ flush = NoFlush
  BY DEF SbInit
<1>3. DOMAIN chosen = {} /\ Len(<<>>) = 0 /\ MaxBatch \in Nat /\ MaxSubmit \in Nat
  BY <1>2, BatchAssumption
<1>. QED  BY <1>1, <1>2, <1>3 DEF SbInit, ConfigTypes, QueueBounds, NoFlush

(* Type correctness of the sing-box entry node.                            *)
THEOREM SbTypes == SbSpec => []SbTypeOK
<1>1. QueueTypes /\ ConfigTypes /\ QueueBounds => SbTypeOK
  BY DEF QueueTypes, ConfigTypes, QueueBounds, SbTypeOK, FlushPhase, CallRecord
<1>. QED  BY <1>1, QueueInitInv, QueueStepInv, SbTypesInit, ConfigTypesStep, BoundsStep, PTL DEF SbSpec

-----------------------------------------------------------------------------
(* What an applied row means.                                              *)

(* No two placements share a client, and a version is issued once.         *)
Ordered(commands) ==
    \A c, d \in commands :
        /\ c.client = d.client => c.pid = d.pid
        /\ c.pid = d.pid /\ c.op = d.op => c = d

(* Rows, calls and requests come from the commands.                        *)
Issued(rs, commands) == \A i \in DOMAIN rs : rs[i].overlay \in commands \cup {NoPlacement}

RowIssued(p, row, commands) ==
    Found(row) => \E c \in commands, a \in AppliedState : c.pid = p /\ row = Row(c, a)

CallIssued(cl, commands) == cl.pc # "idle" => cl.cmd \in commands

IssuedInv ==
    /\ scenario \in Scenarios
    /\ \A p \in Placements :
         RowIssued(p, store[p], scenario.commands) /\ CallIssued(call[p], scenario.commands)
    /\ Issued(submit, scenario.commands) /\ Issued(flush.batch, scenario.commands)

(* A call whose row is stored, or that found it stored.                    *)
DonePhase == {"ok", "drain", "cool", "cooling"}

RowDone(cl, row) == cl.pc \in DonePhase => row \in {Row(cl.cmd, "applied"), Row(cl.cmd, "error")}

DoneInv == \A p \in Placements \ abandoned : RowDone(call[p], store[p])

(* A list has one placement per client.                                    *)
OneEach(list) == \A p, q \in DOMAIN list : list[p].client = list[q].client => p = q

ListInv ==
    flush.pc = "render" => OneEach(flush.list) /\ \A c \in flush.overlays : Laid(flush.list, c)

(* The default of a selector is one of its options.  If a configuration    *)
(* loads, the rules that overrule a selector leave it no other option.     *)
Good(cfg) ==
    /\ \A u \in DOMAIN cfg.selectors : cfg.selectors[u].default \in cfg.selectors[u].options
    /\ Loads(cfg) =>
         \A u \in DOMAIN cfg.selectors :
            /\ u \in cfg.users
            /\ \A b \in Backends : <<u, b>> \in cfg.rules => cfg.selectors[u].options = {b}

(* If it loads it has a rule for every user with a selector.               *)
Ruled(cfg) == Loads(cfg) => \A u \in DOMAIN cfg.selectors : \E b \in Backends : <<u, b>> \in cfg.rules

(* What is in the file and in sing-box.  The selectors stay as the first   *)
(* configuration has them.                                                 *)
FileInv ==
    /\ file # EmptyFile => Good(file)
    /\ running # EmptyFile =>
         Loads(running) /\ Good(running) /\ file # EmptyFile /\ running.selectors = file.selectors
    /\ lastHash # EmptyFile => Loads(lastHash) /\ file # EmptyFile
    /\ ReloadKnown => running = file

(* The rendering under way.  Unless sing-box can come up by itself in the  *)
(* meantime, the first configuration with selectors is its first one.      *)
RenderInv ==
    flush.pc \in {"write", "reload"} =>
        /\ flush.cfg # EmptyFile /\ Good(flush.cfg)
        /\ file # EmptyFile => flush.cfg.selectors = file.selectors
        /\ flush.pc = "write" => flush.cfg # lastHash /\ (file # EmptyFile => Ruled(flush.cfg))
        /\ flush.pc = "reload" =>
             /\ file = flush.cfg
             /\ running # EmptyFile /\ "proxy" \notin scenario.faults => Ruled(flush.cfg)

(* Command c is carried by configuration cfg.                              *)
Carries(cfg, choices, c) == c.desired = "active" => Egress(cfg, choices, c.client) = {c.backend}

(* The overlays of a batch are carried by what was rendered.               *)
OverlayInv ==
    /\ flush.pc \in {"write", "reload"} =>
         \A c \in flush.overlays : Carries(flush.cfg, Defaults(flush.cfg), c)
    /\ flush.pc = "persist" /\ ReloadKnown =>
         \A c \in flush.overlays :
            /\ Carries(file, Defaults(file), c)
            /\ c.pid \notin abandoned => Carries(running, chosen, c)

(* A selector flip about to be stored: the choice is in force, unless a    *)
(* restart of sing-box can forget it.                                      *)
FlipOK(c, f, r, choices, faults) ==
    /\ f # EmptyFile /\ c.client \in DOMAIN f.selectors
    /\ c.backend \in f.selectors[c.client].options
    /\ "proxy" \notin faults => r # EmptyFile /\ Egress(r, choices, c.client) = {c.backend}

FlipInv ==
    \A p \in Placements :
        call[p].pc = "put" => FlipOK(call[p].cmd, file, running, chosen, scenario.faults)

-----------------------------------------------------------------------------
(* What the rendered configurations do.                                    *)

(* A user with one rule leaves by it, whatever was chosen.                 *)
LEMMA RuleDecides ==
    ASSUME NEW cfg, NEW choices, NEW u, NEW b \in Backends, u \in cfg.users,
           \A d \in Backends : <<u, d>> \in cfg.rules <=> d = b
    PROVE  Egress(cfg, choices, u) = {b}
<1>1. {d \in Backends : <<u, d>> \in cfg.rules} = {b}
  OBVIOUS
<1>2. Min({b}) = b
  BY OrderAssumption DEF Min
<1>. QED  BY <1>1, <1>2, Zenon DEF Egress

(* A user without a rule leaves by its selector.                           *)
LEMMA SelectorDecides ==
    ASSUME NEW cfg, NEW choices, NEW u \in DOMAIN cfg.selectors, u \in cfg.users,
           \A d \in Backends : <<u, d>> \notin cfg.rules
    PROVE  Egress(cfg, choices, u) = {choices[u]}
BY ZenonT(40) DEF Egress

(* The pairs of a list with one placement per client.                      *)
LEMMA PairsAre ==
    ASSUME NEW list \in ListType, NEW known \in SUBSET Backends, OneEach(list)
    PROVE  /\ \A u, b : <<u, b>> \in Pairs(list, known) <=>
                \E p \in Served(list, known) : list[p].client = u /\ list[p].backend = b
           /\ \A u, b, d : <<u, b>> \in Pairs(list, known) /\ <<u, d>> \in Pairs(list, known) => b = d
<1>1. \A u, b : <<u, b>> \in Pairs(list, known) <=>
        \E p \in Served(list, known) : list[p].client = u /\ list[p].backend = b
  BY DEF Pairs
<1>2. \A p \in Served(list, known) : p \in DOMAIN list
  BY DEF Served, Active
<1>. QED  BY <1>1, <1>2 DEF OneEach

(* A merged configuration that loads has a rule for every user with a      *)
(* selector, and the selector has no other option.                         *)
LEMMA MergedIs ==
    ASSUME NEW base \in ConfigType, Good(base), NEW list \in ListType, OneEach(list),
           NEW known \in SUBSET Backends
    PROVE  Good(MergeBase(base, list, known)) /\ Ruled(MergeBase(base, list, known))
<1>. DEFINE cfg == MergeBase(base, list, known)
<1>1. /\ cfg \in ConfigType
      /\ cfg.users = MergeInbounds(base, list)
      /\ cfg.outs = Pairs(list, known) /\ cfg.rules = Pairs(list, known)
      /\ cfg.selectors = base.selectors
  BY MergeIs, Zenon
<1>. HIDE DEF cfg
<1>2. \A u \in DOMAIN cfg.selectors :
        /\ cfg.selectors[u].default \in cfg.selectors[u].options
        /\ cfg.selectors[u].default \in Backends /\ cfg.selectors[u].options \subseteq Backends
  <2>1. \A u \in DOMAIN cfg.selectors : cfg.selectors[u] \in SelectorType
    BY <1>1 DEF ConfigType
  <2>. QED  BY <1>1, <2>1 DEF Good, SelectorType
<1>3. ASSUME Loads(cfg), NEW u \in DOMAIN cfg.selectors
      PROVE  /\ u \in cfg.users
             /\ <<u, cfg.selectors[u].default>> \in cfg.rules
             /\ \A b \in Backends : <<u, b>> \in cfg.rules => cfg.selectors[u].options = {b}
  <2>1. \A b \in cfg.selectors[u].options : <<u, b>> \in cfg.rules
    BY <1>1, <1>3 DEF Loads
  <2>2. <<u, cfg.selectors[u].default>> \in Pairs(list, known)
    BY <1>1, <1>2, <2>1
  <2>3. PICK p \in Served(list, known) : list[p].client = u
    BY <2>2, PairsAre
  <2>4. u \in cfg.users
    BY <1>1, <2>3 DEF MergeInbounds, CollectActiveUsers, Served
  <2>5. ASSUME NEW b, <<u, b>> \in cfg.rules
        PROVE  \A o \in cfg.selectors[u].options : o = b
    <3>1. \A v, d, e : <<v, d>> \in cfg.rules /\ <<v, e>> \in cfg.rules => d = e
      <4>1. \A v, d, e : <<v, d>> \in Pairs(list, known) /\ <<v, e>> \in Pairs(list, known) => d = e
        BY PairsAre
      <4>. QED  BY <1>1, <4>1, Zenon
    <3>. QED  BY <2>1, <2>5, <3>1, Zenon
  <2>6. \A b \in Backends : <<u, b>> \in cfg.rules => cfg.selectors[u].options = {b}
    BY <1>2, <2>5
  <2>. QED  BY <1>1, <2>2, <2>4, <2>6
<1>. QED  BY <1>2, <1>3, ZenonT(40) DEF Good, Ruled, cfg

LEMMA BuiltIs ==
    ASSUME NEW list \in ListType, NEW known \in SUBSET Backends, NEW cfg \in Build(list, known)
    PROVE  Good(cfg)
<1>1. RoutedUsers(list, known) \subseteq CollectActiveUsers(list)
  BY DEF RoutedUsers, CollectActiveUsers, Served
<1>2. /\ cfg.users = CollectActiveUsers(list) /\ cfg.rules = {}
      /\ DOMAIN cfg.selectors = RoutedUsers(list, known)
      /\ \A u \in RoutedUsers(list, known) :
           cfg.selectors[u].options = known /\ cfg.selectors[u].default \in known
  BY BuildIs
<1>. QED  BY <1>1, <1>2 DEF Good

(* What is rendered carries the overlays, by rules unless it is the first  *)
(* configuration.                                                          *)
LEMMA RenderCarries ==
    ASSUME NEW base \in ConfigType \cup {EmptyFile}, NEW list \in ListType,
           NEW known \in SUBSET Backends, NEW cfg \in RenderFromState(base, list, known),
           Validate(list, known), OneEach(list), NEW c, Laid(list, c)
    PROVE  /\ Carries(cfg, Defaults(cfg), c)
           /\ base # EmptyFile => \A choices : Carries(cfg, choices, c)
<1>. SUFFICES ASSUME c.desired = "active"
              PROVE  /\ Egress(cfg, Defaults(cfg), c.client) = {c.backend}
                     /\ base # EmptyFile => \A choices : Egress(cfg, choices, c.client) = {c.backend}
  BY DEF Carries
<1>1. /\ c.pid \in Served(list, known) /\ c.pid \in Active(list) /\ c.pid \in DOMAIN list
      /\ list[c.pid].client = c.client /\ list[c.pid].backend = c.backend
  BY Zenon DEF Laid, Served, Active, Validate
<1>2. c.backend \in Backends /\ c.client \in CollectActiveUsers(list)
      /\ c.client \in RoutedUsers(list, known)
  BY <1>1, ListIs, Zenon DEF EntryType, CollectActiveUsers, RoutedUsers
<1>3. CASE base = EmptyFile
  <2>1. cfg \in Build(list, known)
    BY <1>3, RenderIs, Zenon
  <2>2. /\ cfg \in ConfigType /\ cfg.users = CollectActiveUsers(list) /\ cfg.rules = {}
        /\ DOMAIN cfg.selectors = RoutedUsers(list, known)
        /\ cfg.selectors[c.client].default \in DesiredBackends(list, known, c.client)
    BY <1>2, <2>1, BuildIs, SMTT(30)
  <2>3. \A b \in DesiredBackends(list, known, c.client) : b = c.backend
    BY <1>1, Zenon DEF DesiredBackends, MayBeLast, Served, Active, OneEach
  <2>4. Defaults(cfg)[c.client] = c.backend
    BY <1>2, <2>2, <2>3, DefaultsAre, Zenon
  <2>. QED  BY <1>2, <1>3, <2>2, <2>4, SelectorDecides
<1>4. CASE base # EmptyFile
  <2>1. base \in ConfigType /\ cfg = MergeBase(base, list, known)
    BY <1>4, RenderIs, Zenon
  <2>2. cfg.users = MergeInbounds(base, list) /\ cfg.rules = Pairs(list, known)
    BY <2>1, MergeIs, Zenon
  <2>3. c.client \in cfg.users
    BY <1>1, <1>2, <2>2, Zenon DEF MergeInbounds
  <2>4. \A d \in Backends : <<c.client, d>> \in cfg.rules <=> d = c.backend
    <3>1. <<c.client, c.backend>> \in Pairs(list, known)
      BY <1>1, PairsAre, SMTT(30)
    <3>2. \A d : <<c.client, d>> \in Pairs(list, known) => d = c.backend
      BY <3>1, PairsAre
    <3>. QED  BY <2>2, <3>1, <3>2, Zenon
  <2>. QED  BY <1>2, <2>3, <2>4, RuleDecides
<1>. QED  BY <1>3, <1>4

(* A choice decides as long as the configuration loads, and with a rule    *)
(* for the user it could be no other.                                      *)
LEMMA ChoiceDecides ==
    ASSUME NEW cfg \in ConfigType, Good(cfg), Loads(cfg), NEW u \in DOMAIN cfg.selectors,
           NEW b \in cfg.selectors[u].options, NEW choices,
           choices[u] = b \/ \E d \in Backends : <<u, d>> \in cfg.rules
    PROVE  Egress(cfg, choices, u) = {b}
<1>1. u \in cfg.users /\ \A d \in Backends : <<u, d>> \in cfg.rules => d = b
  BY DEF Good
<1>2. CASE \E d \in Backends : <<u, d>> \in cfg.rules
  BY <1>1, <1>2, RuleDecides
<1>3. CASE \A d \in Backends : <<u, d>> \notin cfg.rules
  <2>1. choices[u] = b
    BY <1>3, Zenon
  <2>. QED  BY <1>1, <1>3, <2>1, SelectorDecides
<1>. QED  BY <1>2, <1>3

-----------------------------------------------------------------------------
(* Commands, calls and rows.                                               *)

(* A handler call leaves the calls and rows of the other placements alone. *)
LEMMA OthersStay ==
    ASSUME QueueTypes, QueueInv, NEW q \in Placements, CallWorks(q) \/ CallFails(q)
    PROVE  /\ \A p \in Placements \ {q} : call'[p] = call[p] /\ store'[p] = store[p]
           /\ abandoned \subseteq abandoned'
           /\ UNCHANGED scenario
<1>1. UNCHANGED scenario
  BY Zenon
     DEF CallWorks, CallFails, Dispatch, Checks, ListsUsers, SelectOutbound, SelectRefused,
         StoresSelected, Submits, Drained, HandlerStores, SelectFails, DrainFails, StoreFails, GivesUp,
         auxVars
<1>2. CASE Moves(q) /\ OwnRow(q)
  BY <1>1, <1>2 DEF Moves, OwnRow
<1>3. CASE Submits(q)
  BY <1>1, <1>3 DEF Submits, Goto, QueueTypes, auxVars
<1>4. CASE GivesUp(q)
  BY <1>1, <1>4 DEF GivesUp, QueueTypes
<1>. QED  BY <1>2, <1>3, <1>4, CallStepIs

(* Rows are stored by StoresSelected, the handler and the flush.           *)
LEMMA OwnCall ==
    ASSUME QueueTypes, QueueInv, NEW p \in Placements, CallWorks(p) \/ CallFails(p)
    PROVE  /\ \/ UNCHANGED store
              \/ /\ StoresSelected(p) \/ HandlerStores(p)
                 /\ call[p].pc # "idle" /\ call[p].cmd \in Commands /\ call[p].cmd.pid = p
                 /\ \E a \in AppliedState : store'[p] = Row(call[p].cmd, a)
           /\ call'[p].pc # "idle" =>
                \/ call[p].pc # "idle" /\ call'[p].cmd = call[p].cmd
                \/ call'[p].cmd \in scenario.commands /\ call'[p].pc = "start"
<1>1. ASSUME NEW c \in Commands, Dispatch(p, c)
      PROVE  /\ UNCHANGED store /\ call'[p].cmd \in scenario.commands /\ call'[p].pc = "start"
  BY <1>1 DEF Dispatch, QueueTypes
<1>2. ASSUME NEW pc, Goto(p, pc), call[p].pc # "idle"
      PROVE  call[p].pc # "idle" /\ call'[p].cmd = call[p].cmd
  BY <1>2 DEF Goto, QueueTypes, CallRecord
<1>3. ASSUME call' = [call EXCEPT ![p] = NoCall]
      PROVE  call'[p].pc = "idle"
  BY <1>3, NoCallIs, Zenon DEF QueueTypes
<1>4. CASE \/ Checks(p) \/ ListsUsers(p) \/ SelectOutbound(p) \/ SelectRefused(p) \/ Drained(p)
           \/ SelectFails(p) \/ DrainFails(p) \/ Submits(p)
  <2>1. call[p].pc # "idle" /\ UNCHANGED store /\ \E pc : Goto(p, pc)
    BY <1>4, Zenon
       DEF Checks, ListsUsers, SelectOutbound, SelectRefused, Drained, SelectFails, DrainFails,
                Submits, At
  <2>. QED  BY <1>2, <2>1
<1>5. CASE StoreFails(p) \/ GivesUp(p)
  <2>1. /\ UNCHANGED store
        /\ \/ call[p].pc # "idle" /\ \E pc : Goto(p, pc)
           \/ call' = [call EXCEPT ![p] = NoCall]
    BY <1>5 DEF StoreFails, GivesUp, At
  <2>. QED  BY <1>2, <1>3, <2>1, Zenon
<1>6. CASE StoresSelected(p) \/ HandlerStores(p)
  <2>1. call[p].pc # "idle"
    BY <1>6, Zenon DEF StoresSelected, HandlerStores, At
  <2>2. call[p].cmd \in Commands /\ call[p].cmd.pid = p
    BY <2>1 DEF QueueInv, CallOK
  <2>3. PICK a \in AppliedState : PutPlacement(call[p].cmd, a)
    BY <1>6 DEF StoresSelected, HandlerStores, AppliedState
  <2>4. store'[p] = Row(call[p].cmd, a)
    BY <2>2, <2>3, PutIs DEF QueueTypes
  <2>5. call'[p].pc # "idle" => call'[p].cmd = call[p].cmd
    BY <1>2, <1>3, <1>6, <2>1 DEF StoresSelected, HandlerStores
  <2>. QED  BY <1>6, <2>1, <2>2, <2>4, <2>5
<1>. QED  BY <1>1, <1>4, <1>5, <1>6, ZenonT(40) DEF CallWorks, CallFails

(* Steps of nobody's call.                                                 *)
LEMMA OtherSteps ==
    ASSUME QueueTypes, [SbNext]_sbVars
    PROVE  \/ \E p \in Placements : CallWorks(p) \/ CallFails(p)
           \/ \E c \in Commands : FlushPersists(c)
           \/ FlushAnswers
           \/ AgentCrash
           \/ UNCHANGED <<store, call, scenario, abandoned>>
<1>1. CASE \/ RebuildFromStore \/ UNCHANGED sbVars \/ SingboxRestarts
           \/ \E e \in Upstreams : UpstreamChanged(e)
  BY <1>1, ZenonT(40) DEF RebuildFromStore, UpstreamChanged, SingboxRestarts, sbVars, auxVars
<1>2. CASE \/ \E n \in 1..MaxBatch : FlushLists(n)
           \/ FlushRenders \/ FlushWrites \/ FlushReloads
           \/ RenderFails \/ ReloadRefused \/ FlushStoreFails \/ FlushFails
  BY <1>2, ListsIs, RendersIs, WritesIs, ReloadsIs, FailedIs, Zenon
<1>. QED  BY <1>1, <1>2 DEF SbNext, SbWorks, FlushWorks
LEMMA ScenarioStays ==
    ASSUME QueueTypes, QueueInv, [SbNext]_sbVars
    PROVE  UNCHANGED scenario
<1>1. CASE (\E c \in Commands : FlushPersists(c)) \/ FlushAnswers
  BY <1>1, PersistsIs, AnswersIs
<1>2. CASE AgentCrash
  BY <1>2, Zenon DEF AgentCrash
<1>. QED  BY <1>1, <1>2, OtherSteps, OthersStay

LEMMA RequestsStep ==
    ASSUME QueueTypes, QueueInv, IssuedInv, [SbNext]_sbVars
    PROVE  Issued(submit', scenario.commands) /\ Issued(flush'.batch, scenario.commands)
<1>0. Issued(submit, scenario.commands) /\ Issued(flush.batch, scenario.commands)
  BY Zenon DEF IssuedInv
<1>1. ASSUME NEW by \in Placements \cup {NoCaller}, NEW overlay \in Commands \cup {NoPlacement},
             overlay \in scenario.commands \cup {NoPlacement},
             submit' = Append(submit, Request(by, overlay)), UNCHANGED flush
      PROVE  Issued(submit', scenario.commands) /\ Issued(flush'.batch, scenario.commands)
  <2>1. /\ DOMAIN submit' = 1..Len(submit) + 1 /\ DOMAIN submit = 1..Len(submit)
        /\ Len(submit) \in Nat /\ submit'[Len(submit) + 1].overlay = overlay
        /\ \A i \in DOMAIN submit : submit'[i] = submit[i]
    <3>1. Request(by, overlay) \in RequestType /\ Request(by, overlay).overlay = overlay
      BY RequestIs
    <3>. QED  BY <1>1, <3>1, AppendProperties DEF QueueTypes
  <2>2. \A i \in DOMAIN submit' : i \in DOMAIN submit \/ i = Len(submit) + 1
    BY <2>1, SMTT(30)
  <2>. QED  BY <1>0, <1>1, <2>1, <2>2 DEF Issued
<1>2. ASSUME NEW p \in Placements, Submits(p)
      PROVE  Issued(submit', scenario.commands) /\ Issued(flush'.batch, scenario.commands)
  <2>1. call[p].pc # "idle"
    BY <1>2, Zenon DEF Submits, At
  <2>2. call[p].cmd \in Commands /\ call[p].cmd \in scenario.commands
    BY <2>1, Zenon DEF QueueInv, CallOK, IssuedInv, CallIssued
  <2>. QED  BY <1>1, <1>2, <2>2 DEF Submits
<1>3. CASE RebuildFromStore
  BY <1>1, <1>3 DEF RebuildFromStore
<1>4. ASSUME NEW p \in Placements, GivesUp(p)
      PROVE  Issued(submit', scenario.commands) /\ Issued(flush'.batch, scenario.commands)
  <2>1. ASSUME NEW rs \in Seq(RequestType), Issued(rs, scenario.commands)
        PROVE  Issued(Abandon(rs, p), scenario.commands)
    BY <2>1, AbandonIs DEF Issued
  <2>2. submit' = Abandon(submit, p) /\ flush'.batch = Abandon(flush.batch, p)
    BY <1>4 DEF GivesUp, QueueTypes
  <2>. QED  BY <1>0, <2>1, <2>2 DEF QueueTypes
<1>5. ASSUME NEW n \in 1..MaxBatch, FlushLists(n)
      PROVE  Issued(submit', scenario.commands) /\ Issued(flush'.batch, scenario.commands)
  <2>1. /\ n \in 1..Len(submit) /\ submit' = SubSeq(submit, n + 1, Len(submit))
        /\ flush'.batch = SubSeq(submit, 1, n)
    BY <1>5, ListsIs, ZenonT(40) DEF FlushLists
  <2>2. \A i \in DOMAIN submit' : i + n \in DOMAIN submit /\ submit'[i] = submit[i + n]
    BY <2>1, SplitIs DEF QueueTypes
  <2>3. \A i \in DOMAIN flush'.batch : i \in DOMAIN submit /\ flush'.batch[i] = submit[i]
    BY <2>1, SplitIs DEF QueueTypes
  <2>. QED  BY <1>0, <2>2, <2>3 DEF Issued
<1>6. CASE UNCHANGED submit /\ flush'.batch = flush.batch
  BY <1>0, <1>6
<1>7. ASSUME NEW c \in Commands, FlushPersists(c)
      PROVE  UNCHANGED submit /\ flush'.batch = flush.batch
  BY <1>7, PersistsIs
<1>8. CASE FlushRenders \/ FlushWrites \/ FlushReloads
  BY <1>6, <1>8, RendersIs, WritesIs, ReloadsIs, ZenonT(40)
<1>9. CASE RenderFails \/ ReloadRefused \/ FlushStoreFails \/ FlushFails
  BY <1>6, <1>9, FailedIs
<1>10. CASE FlushAnswers
  BY <1>0, <1>10, AnswersIs, SMTT(30) DEF Issued
<1>11. CASE AgentCrash
  <2>1. submit' = <<>> /\ flush'.batch = <<>>
    BY <1>11 DEF AgentCrash, NoFlush
  <2>. QED  BY <2>1 DEF Issued
<1>12. ASSUME NEW p \in Placements, Moves(p)
       PROVE  UNCHANGED submit /\ flush'.batch = flush.batch
  BY <1>12 DEF Moves
<1>13. CASE UNCHANGED <<store, submit, flush, call, abandoned>>
  BY <1>6, <1>13
<1>. QED  BY <1>2, <1>3, <1>4, <1>5, <1>6, <1>7, <1>8, <1>9, <1>10, <1>11, <1>12, <1>13, StepIs

(* The overlays of the flush come from the commands.                       *)
LEMMA OverlaysIssued ==
    ASSUME QueueTypes, QueueInv, IssuedInv, NEW c \in flush.overlays
    PROVE  c \in scenario.commands /\ c \in Commands
<1>1. c \in Commands /\ c # NoPlacement
  BY CommandIs DEF QueueTypes
<1>2. PICK i \in DOMAIN flush.batch : flush.batch[i].overlay = c
  BY ZenonT(40) DEF QueueInv, OverlaysOK
<1>. QED  BY <1>1, <1>2 DEF IssuedInv, Issued

LEMMA IssuedStep ==
    ASSUME QueueTypes, QueueInv, IssuedInv, [SbNext]_sbVars
    PROVE  IssuedInv'
<1>. DEFINE Goal == \A p \in Placements : /\ RowIssued(p, store'[p], scenario.commands)
                                          /\ CallIssued(call'[p], scenario.commands)
<1>0. \A p \in Placements :
        RowIssued(p, store[p], scenario.commands) /\ CallIssued(call[p], scenario.commands)
  BY Zenon DEF IssuedInv
<1>1. ASSUME NEW q \in Placements, CallWorks(q) \/ CallFails(q)
      PROVE  Goal
  <2>1. \A p \in Placements \ {q} : call'[p] = call[p] /\ store'[p] = store[p]
    BY <1>1, OthersStay, Zenon
  <2>2. CallIssued(call'[q], scenario.commands)
    BY <1>0, <1>1, OwnCall, Zenon DEF CallIssued
  <2>3. RowIssued(q, store'[q], scenario.commands)
    <3>1. CASE UNCHANGED store
      BY <1>0, <3>1
    <3>2. CASE /\ call[q].pc # "idle" /\ call[q].cmd \in Commands /\ call[q].cmd.pid = q
               /\ \E a \in AppliedState : store'[q] = Row(call[q].cmd, a)
      BY <1>0, <3>2, Zenon DEF CallIssued, RowIssued
    <3>. QED  BY <1>1, <3>1, <3>2, OwnCall
  <2>. QED  BY <1>0, <2>1, <2>2, <2>3
<1>2. ASSUME NEW c \in Commands, FlushPersists(c)
      PROVE  Goal
  <2>1. c \in scenario.commands /\ UNCHANGED call
    BY <1>2, PersistsIs, OverlaysIssued
  <2>2. /\ "applied" \in AppliedState /\ store'[c.pid] = Row(c, "applied")
        /\ \A p \in Placements \ {c.pid} : store'[p] = store[p]
    BY <1>2, PutIs DEF FlushPersists, AppliedState, QueueTypes
  <2>3. RowIssued(c.pid, store'[c.pid], scenario.commands)
    BY <2>1, <2>2 DEF RowIssued
  <2>. QED  BY <1>0, <2>1, <2>2, <2>3
<1>3. ASSUME FlushAnswers PROVE Goal
  <2>1. /\ UNCHANGED store
        /\ call' = [p \in Placements |->
                      IF Answered(p) THEN [call[p] EXCEPT !.pc = AfterAnswer(p)] ELSE call[p]]
    BY <1>3 DEF FlushAnswers
  <2>2. ASSUME NEW p \in Placements
        PROVE  CallIssued(call'[p], scenario.commands)
    <3>1. CASE Answered(p)
      <4>1. call[p].pc \in Waiting /\ call[p] \in CallRecord
        BY <3>1, AnswerIs DEF QueueTypes
      <4>2. call'[p].cmd = call[p].cmd /\ call[p].pc # "idle"
        BY <2>1, <3>1, <4>1 DEF CallRecord, Waiting
      <4>. QED  BY <1>0, <4>2 DEF CallIssued
    <3>2. CASE ~Answered(p)
      BY <1>0, <2>1, <3>2
    <3>. QED  BY <3>1, <3>2
  <2>3. \A p \in Placements : store'[p] = store[p]
    BY <2>1
  <2>. QED  BY <1>0, <2>2, <2>3
<1>4. ASSUME AgentCrash PROVE Goal
  <2>1. \A p \in Placements : call'[p] = NoCall /\ store'[p] = store[p]
    BY <1>4 DEF AgentCrash
  <2>2. CallIssued(NoCall, scenario.commands)
    BY NoCallIs DEF CallIssued
  <2>. QED  BY <1>0, <2>1, <2>2
<1>5. ASSUME UNCHANGED <<store, call, scenario, abandoned>> PROVE Goal
  <2>1. \A p \in Placements : call'[p] = call[p] /\ store'[p] = store[p]
    BY <1>5, Zenon
  <2>. QED  BY <1>0, <2>1
<1>6. Goal
  BY <1>1, <1>2, <1>3, <1>4, <1>5, OtherSteps, Zenon
<1>. QED  BY <1>6, ScenarioStays, RequestsStep DEF IssuedInv

-----------------------------------------------------------------------------
(* A call that is done has its row in the table.                           *)

(* SimpleApply and SwapRoute find the version stored: it is this command's.*)
LEMMA StoredIsOwn ==
    ASSUME QueueTypes, QueueInv, IssuedInv, Ordered(scenario.commands),
           NEW p \in Placements \ abandoned, call[p].pc # "idle", AlreadyStored(call[p].cmd)
    PROVE  store[p] \in {Row(call[p].cmd, "applied"), Row(call[p].cmd, "error")}
<1>1. /\ call[p].cmd \in Commands /\ call[p].cmd.pid = p /\ call[p].cmd \in scenario.commands
      /\ Found(store[p]) => store[p].op <= call[p].cmd.op
  BY ZenonT(40) DEF QueueInv, CallOK, IssuedInv, CallIssued
<1>2. Found(store[p]) /\ store[p].op >= call[p].cmd.op
  BY <1>1, Zenon DEF AlreadyStored
<1>3. PICK c \in scenario.commands, a \in AppliedState : c.pid = p /\ store[p] = Row(c, a)
  BY <1>2, Zenon DEF IssuedInv, RowIssued
<1>4. store[p].op = c.op /\ store[p].op \in Nat /\ call[p].cmd.op \in Nat
  BY <1>1, <1>2, <1>3, CommandIs, SMTT(30) DEF Row, QueueTypes, StoreTypeOK, RowType, Found
<1>5. c.op = call[p].cmd.op
  BY <1>1, <1>2, <1>4, SMTT(30)
<1>6. c = call[p].cmd
  BY <1>1, <1>3, <1>5, Zenon DEF Ordered
<1>. QED  BY <1>3, <1>6 DEF AppliedState

(* How a call gets there by itself.                                        *)
LEMMA DoneBy ==
    ASSUME QueueTypes, NEW p \in Placements, CallWorks(p) \/ CallFails(p), call'[p].pc \in DonePhase
    PROVE  /\ call[p].pc # "idle" /\ call'[p].cmd = call[p].cmd
           /\ \/ AlreadyStored(call[p].cmd) /\ UNCHANGED store
              \/ StoresSelected(p)
              \/ call[p].pc \in DonePhase /\ UNCHANGED store
<1>0. ASSUME NEW pc \in CallPhase, Goto(p, pc)
      PROVE  call'[p].pc = pc /\ call'[p].cmd = call[p].cmd
  BY <1>0, GotoIs
<1>1. ASSUME NEW c \in Commands, Dispatch(p, c)
      PROVE  FALSE
  BY <1>1, Zenon DEF Dispatch, QueueTypes, DonePhase
<1>2. CASE Checks(p)
  <2>1. Goto(p, AfterChecks(p)) /\ AfterChecks(p) \in CallPhase /\ call[p].pc = "start" /\ UNCHANGED store
    BY <1>2, Zenon DEF Checks, At, AfterChecks, Swapped, CallPhase
  <2>2. call'[p].pc = AfterChecks(p) /\ call'[p].cmd = call[p].cmd
    BY <1>0, <2>1
  <2>3. AlreadyStored(call[p].cmd)
    BY <2>2, Zenon DEF AfterChecks, DonePhase
  <2>. QED  BY <2>1, <2>2, <2>3, Zenon
<1>3. CASE ListsUsers(p) \/ SelectOutbound(p) \/ SelectRefused(p) \/ SelectFails(p) \/ DrainFails(p)
  <2>1. \E pc \in CallPhase \ DonePhase : Goto(p, pc)
    BY <1>3, Zenon
       DEF ListsUsers, SelectOutbound, SelectRefused, SelectFails, DrainFails, CallPhase, DonePhase
  <2>. QED  BY <1>0, <2>1, Zenon
<1>4. CASE StoresSelected(p)
  <2>1. Goto(p, Swapped(p)) /\ Swapped(p) \in CallPhase /\ call[p].pc = "put"
    BY <1>4, Zenon DEF StoresSelected, At, Swapped, CallPhase
  <2>. QED  BY <1>0, <1>4, <2>1
<1>5. CASE Submits(p)
  <2>1. /\ UNCHANGED store
        /\ \/ call[p].pc = "submit" /\ Goto(p, "wait")
           \/ call[p].pc = "cool" /\ Goto(p, "cooling")
    BY <1>5, Zenon DEF Submits, At
  <2>. QED  BY <1>0, <2>1, Zenon DEF CallPhase, DonePhase
<1>6. CASE Drained(p)
  <2>1. UNCHANGED store /\ call[p].pc = "drain" /\ \E pc \in CallPhase : Goto(p, pc)
    BY <1>6 DEF Drained, At, CallPhase
  <2>. QED  BY <1>0, <2>1 DEF DonePhase
<1>7. ASSUME call' = [call EXCEPT ![p] = NoCall]
      PROVE  FALSE
  BY <1>7, NoCallIs, Zenon DEF QueueTypes, DonePhase
<1>8. CASE StoreFails(p)
  <2>1. Goto(p, "error") \/ Goto(p, "submit")
    BY <1>7, <1>8 DEF StoreFails
  <2>. QED  BY <1>0, <2>1 DEF CallPhase, DonePhase
<1>9. CASE HandlerStores(p) \/ GivesUp(p)
  BY <1>7, <1>9 DEF HandlerStores, GivesUp
<1>. QED  BY <1>1, <1>2, <1>3, <1>4, <1>5, <1>6, <1>8, <1>9, Zenon DEF CallWorks, CallFails

LEMMA DoneStep ==
    ASSUME QueueTypes, QueueInv, IssuedInv, Ordered(scenario.commands), DoneInv, [SbNext]_sbVars
    PROVE  DoneInv'
<1>. DEFINE Goal == \A p \in Placements \ abandoned' : RowDone(call'[p], store'[p])
<1>0. \A p \in Placements \ abandoned : RowDone(call[p], store[p])
  BY DEF DoneInv
<1>1. ASSUME NEW q \in Placements, CallWorks(q) \/ CallFails(q)
      PROVE  Goal
  <2>1. /\ \A p \in Placements \ {q} : call'[p] = call[p] /\ store'[p] = store[p]
        /\ abandoned \subseteq abandoned'
    BY <1>1, OthersStay, Zenon
  <2>2. ASSUME q \notin abandoned, call'[q].pc \in DonePhase
        PROVE  store'[q] \in {Row(call'[q].cmd, "applied"), Row(call'[q].cmd, "error")}
    <3>1. call[q].pc # "idle" /\ call'[q].cmd = call[q].cmd
      BY <1>1, <2>2, DoneBy, Zenon
    <3>2. CASE AlreadyStored(call[q].cmd) /\ UNCHANGED store
      BY <2>2, <3>1, <3>2, StoredIsOwn
    <3>3. CASE StoresSelected(q)
      <4>1. call[q].cmd \in Commands /\ call[q].cmd.pid = q
        BY <3>1 DEF QueueInv, CallOK
      <4>2. store'[q] = Row(call[q].cmd, "applied")
        BY <3>3, <4>1, PutIs DEF StoresSelected, AppliedState, QueueTypes
      <4>. QED  BY <3>1, <4>2, Zenon
    <3>4. CASE call[q].pc \in DonePhase /\ UNCHANGED store
      BY <1>0, <2>2, <3>1, <3>4 DEF RowDone
    <3>. QED  BY <1>1, <2>2, <3>2, <3>3, <3>4, DoneBy
  <2>3. q \notin abandoned => RowDone(call'[q], store'[q])
    BY <2>2 DEF RowDone
  <2>. QED  BY <1>0, <2>1, <2>3
<1>2. ASSUME NEW c \in Commands, FlushPersists(c)
      PROVE  Goal
  <2>1. c \in flush.overlays /\ UNCHANGED <<call, abandoned>>
    BY <1>2, PersistsIs
  <2>2. \A p \in Placements \ {c.pid} : store'[p] = store[p] /\ call'[p] = call[p]
    BY <1>2, <2>1, PutIs DEF FlushPersists, AppliedState, QueueTypes
  <2>3. c.pid \notin abandoned => RowDone(call'[c.pid], store'[c.pid])
    BY <2>1, AwaitedOverlay DEF RowDone, DonePhase
  <2>. QED  BY <1>0, <2>1, <2>2, <2>3
<1>3. ASSUME FlushAnswers PROVE Goal
  <2>1. /\ UNCHANGED <<store, abandoned>>
        /\ flush.pc = "failed" \/ (flush.pc = "persist" /\ flush.overlays = {})
        /\ call' = [p \in Placements |->
                      IF Answered(p) THEN [call[p] EXCEPT !.pc = AfterAnswer(p)] ELSE call[p]]
    BY <1>3 DEF FlushAnswers, auxVars
  <2>2. ASSUME NEW p \in Placements \ abandoned
        PROVE  RowDone(call'[p], store[p])
    <3>1. CASE Answered(p)
      <4>1. /\ call[p].pc \in Waiting /\ call[p] \in CallRecord
            /\ /\ call[p].pc = "wait" /\ flush.pc = "persist" /\ flush.overlays = {}
               => store[p] = Row(call[p].cmd, "applied")
        BY <3>1, AnswerIs DEF QueueTypes
      <4>2. call'[p].cmd = call[p].cmd /\ call'[p].pc = AfterAnswer(p)
        BY <2>1, <3>1, <4>1 DEF CallRecord
      <4>3. CASE flush.pc = "failed"
        BY <4>2, <4>3 DEF RowDone, AfterAnswer, DonePhase
      <4>4. CASE call[p].pc = "wait" /\ flush.pc # "failed"
        BY <2>1, <4>1, <4>2, <4>4 DEF RowDone
      <4>5. CASE call[p].pc = "cooling"
        <5>1. store[p] \in {Row(call[p].cmd, "applied"), Row(call[p].cmd, "error")}
          BY <1>0, <2>2, <4>5 DEF RowDone, DonePhase
        <5>. QED  BY <4>2, <5>1 DEF RowDone
      <4>. QED  BY <4>1, <4>3, <4>4, <4>5 DEF Waiting
    <3>2. CASE ~Answered(p)
      BY <1>0, <2>1, <2>2, <3>2
    <3>. QED  BY <3>1, <3>2
  <2>3. \A p \in Placements : store'[p] = store[p]
    BY <2>1
  <2>. QED  BY <2>1, <2>2, <2>3
<1>4. ASSUME AgentCrash PROVE Goal
  <2>1. \A p \in Placements : call'[p] = NoCall
    BY <1>4 DEF AgentCrash
  <2>. QED  BY <2>1, NoCallIs DEF RowDone, DonePhase
<1>5. ASSUME UNCHANGED <<store, call, scenario, abandoned>> PROVE Goal
  BY <1>0, <1>5, Zenon
<1>6. Goal
  BY <1>1, <1>2, <1>3, <1>4, <1>5, OtherSteps, Zenon
<1>. QED  BY <1>6 DEF DoneInv

-----------------------------------------------------------------------------
(* What is in the file, in sing-box and on the way there.                  *)

(* Every placement of a batch's list stands for a command.                 *)
LEMMA ListsOne ==
    ASSUME QueueTypes, QueueInv, IssuedInv, Ordered(scenario.commands),
           NEW n \in 1..MaxBatch, FlushLists(n)
    PROVE  OneEach(flush'.list) /\ \A c \in flush'.overlays : Laid(flush'.list, c)
<1>. DEFINE cs == flush'.overlays
            list == flush'.list
<1>1. /\ flush'.batch \in Seq(RequestType) /\ cs = Overlays(flush'.batch)
      /\ list = ApplyPlacementOverlay(Listing, cs)
  BY FlushListsInv, ListsIs, ZenonT(40) DEF QueueTypes
<1>2. Issued(flush'.batch, scenario.commands)
  BY RequestsStep DEF SbNext, SbWorks, FlushWorks
<1>3. /\ \A c \in cs : c \in Commands /\ \E i \in DOMAIN flush'.batch : flush'.batch[i].overlay = c
      /\ \A c, d \in cs : c.pid = d.pid => c = d
  BY <1>1, OneOverlayEach
<1>4. \A c \in cs : c \in scenario.commands
  BY <1>2, <1>3, CommandIs DEF Issued
<1>5. /\ \A p \in DOMAIN list :
           \/ \E c \in cs : c.pid = p /\ Laid(list, c)
           \/ /\ p \in Placements /\ Found(store[p]) /\ \A c \in cs : c.pid # p
              /\ list[p].client = store[p].client
      /\ \A c \in cs : c.pid \in DOMAIN list
  <2>1. cs \in SUBSET Commands
    BY <1>3
  <2>. QED  BY <1>1, <2>1, OverlaidIs DEF QueueTypes
<1>. HIDE DEF cs, list
<1>6. ASSUME NEW p \in DOMAIN list
      PROVE  \E c \in scenario.commands : c.pid = p /\ list[p].client = c.client
  <2>1. CASE \E c \in cs : c.pid = p /\ Laid(list, c)
    BY <1>4, <2>1, Zenon DEF Laid
  <2>2. CASE p \in Placements /\ Found(store[p]) /\ list[p].client = store[p].client
    <3>1. PICK c \in scenario.commands, a \in AppliedState : c.pid = p /\ store[p] = Row(c, a)
      BY <2>2 DEF IssuedInv, RowIssued
    <3>. QED  BY <2>2, <3>1, SMTT(30) DEF Row
  <2>. QED  BY <1>5, <2>1, <2>2
<1>7. OneEach(list)
  BY <1>6 DEF OneEach, Ordered
<1>8. \A c \in cs : Laid(list, c)
  BY <1>3, <1>5
<1>. QED  BY <1>7, <1>8 DEF cs, list

LEMMA ListStep ==
    ASSUME QueueTypes, QueueInv, IssuedInv, Ordered(scenario.commands), ListInv, [SbNext]_sbVars
    PROVE  ListInv'
<1>1. CASE SameSide
  BY <1>1 DEF SameSide, ListInv
<1>2. ASSUME NEW p \in Placements, SelectOutbound(p) \/ SelectFails(p)
      PROVE  ListInv'
  BY <1>2, SelectsIs DEF ListInv
<1>3. ASSUME NEW n \in 1..MaxBatch, FlushLists(n)
      PROVE  ListInv'
  BY <1>3, ListsOne DEF ListInv
<1>4. CASE FlushRenders \/ FlushWrites \/ FlushReloads
  <2>1. flush'.pc # "render"
    BY <1>4, RendersIs, WritesIs, ReloadsIs
  <2>. QED  BY <2>1, ZenonT(40) DEF ListInv
<1>5. CASE RenderFails \/ ReloadRefused \/ FlushStoreFails \/ FlushFails
  BY <1>5, FailedIs, Zenon DEF ListInv
<1>6. ASSUME NEW c \in Commands, FlushPersists(c)
      PROVE  ListInv'
  BY <1>6, PersistsIs, ZenonT(40) DEF ListInv
<1>7. CASE FlushAnswers
  BY <1>7, AnswersIs DEF ListInv
<1>8. CASE AgentCrash
  BY <1>8 DEF AgentCrash, NoFlush, ListInv
<1>9. CASE (\E e \in Upstreams : UpstreamChanged(e)) \/ SingboxRestarts
  BY <1>9, Zenon DEF UpstreamChanged, SingboxRestarts, coalescerVars, ListInv
<1>. QED  BY <1>1, <1>2, <1>3, <1>4, <1>5, <1>6, <1>7, <1>8, <1>9, SideSteps, Zenon

(* What a flush renders.                                                   *)
LEMMA RenderedIs ==
    ASSUME ConfigTypes, ListInv, FileInv, flush.pc = "render",
           NEW cfg \in RenderFromState(file, flush.list, registry)
    PROVE  /\ cfg \in ConfigType /\ cfg # EmptyFile /\ Good(cfg)
           /\ file # EmptyFile => cfg.selectors = file.selectors /\ Ruled(cfg)
<1>1. flush.list \in ListType /\ OneEach(flush.list) /\ registry \in SUBSET Backends
  BY Zenon DEF ConfigTypes, ListInv
<1>2. /\ cfg \in ConfigType /\ cfg # EmptyFile
      /\ IF file = EmptyFile THEN cfg \in Build(flush.list, registry)
                             ELSE file \in ConfigType /\ cfg = MergeBase(file, flush.list, registry)
  BY <1>1, RenderIs, EmptyFileAssumption DEF ConfigTypes
<1>3. CASE file = EmptyFile
  BY <1>1, <1>2, <1>3, BuiltIs, Zenon
<1>4. CASE file # EmptyFile
  <2>1. Good(file)
    BY <1>4 DEF FileInv
  <2>. QED  BY <1>1, <1>2, <1>4, <2>1, MergeIs, MergedIs, SMTT(30)
<1>. QED  BY <1>3, <1>4

LEMMA FileStep ==
    ASSUME QueueTypes, FileInv, RenderInv, [SbNext]_sbVars
    PROVE  FileInv'
<1>0. ASSUME UNCHANGED <<file, running, lastHash>>
      PROVE  FileInv'
  BY <1>0 DEF FileInv, ReloadKnown
<1>1. CASE SameSide
  BY <1>0, <1>1 DEF SameSide
<1>2. ASSUME NEW p \in Placements, SelectOutbound(p) \/ SelectFails(p)
      PROVE  FileInv'
  BY <1>0, <1>2, SelectsIs
<1>3. ASSUME NEW n \in 1..MaxBatch, FlushLists(n)
      PROVE  FileInv'
  BY <1>0, <1>3, ListsIs
<1>4. CASE FlushRenders
  BY <1>0, <1>4, RendersIs
<1>5. CASE FlushWrites
  <2>1. /\ file' = flush.cfg /\ UNCHANGED <<running, lastHash>>
        /\ flush.cfg # EmptyFile /\ Good(flush.cfg) /\ flush.cfg # lastHash
        /\ file # EmptyFile => flush.cfg.selectors = file.selectors
    BY <1>5, WritesIs DEF RenderInv
  <2>. QED  BY <2>1 DEF FileInv, ReloadKnown
<1>6. ASSUME Loads(file), LoadFile, UNCHANGED <<file, lastHash>>
      PROVE  FileInv'
  <2>1. running' = file /\ file # EmptyFile
    BY <1>6 DEF LoadFile, Loads
  <2>. QED  BY <1>6, <2>1 DEF FileInv, ReloadKnown
<1>7. CASE FlushReloads
  <2>1. /\ Loads(file) /\ running' = file /\ lastHash' = file /\ UNCHANGED file
        /\ file # EmptyFile /\ Good(file)
    BY <1>7, ReloadsIs, Zenon DEF RenderInv
  <2>. QED  BY <2>1, Zenon DEF FileInv, ReloadKnown
<1>8. CASE RenderFails \/ ReloadRefused \/ FlushStoreFails \/ FlushFails
  BY <1>0, <1>6, <1>8, FailedIs
<1>9. ASSUME NEW c \in Commands, FlushPersists(c)
      PROVE  FileInv'
  BY <1>0, <1>9, PersistsIs
<1>10. CASE FlushAnswers
  BY <1>0, <1>10, AnswersIs
<1>11. CASE \E e \in Upstreams : UpstreamChanged(e)
  BY <1>0, <1>11 DEF UpstreamChanged, singboxVars, coalescerVars
<1>12. CASE AgentCrash
  BY <1>12 DEF AgentCrash, singboxVars, FileInv, ReloadKnown
<1>13. CASE SingboxRestarts
  <2>1. UNCHANGED <<file, lastHash>>
    BY <1>13 DEF SingboxRestarts, coalescerVars
  <2>2. CASE ~Loads(file) /\ running' = EmptyFile
    BY <2>1, <2>2 DEF FileInv, ReloadKnown
  <2>. QED  BY <1>6, <1>13, <2>1, <2>2 DEF SingboxRestarts
<1>. QED  BY <1>1, <1>2, <1>3, <1>4, <1>5, <1>7, <1>8, <1>9, <1>10, <1>11, <1>12, <1>13, SideSteps, Zenon

LEMMA RenderStep ==
    ASSUME QueueTypes, ConfigTypes, ListInv, FileInv, RenderInv, [SbNext]_sbVars
    PROVE  RenderInv'
<1>1. CASE SameSide
  BY <1>1, Zenon DEF SameSide, RenderInv
<1>2. ASSUME NEW p \in Placements, SelectOutbound(p) \/ SelectFails(p)
      PROVE  RenderInv'
  BY <1>2, SelectsIs, Zenon DEF RenderInv
<1>3. ASSUME NEW n \in 1..MaxBatch, FlushLists(n)
      PROVE  RenderInv'
  BY <1>3, ListsIs, Zenon DEF RenderInv
<1>4. CASE FlushRenders
  <2>1. PICK cfg \in RenderFromState(file, flush.list, registry) :
          IF cfg = lastHash THEN flush'.pc = "persist" /\ flush'.cfg = EmptyFile
                            ELSE flush'.pc = "write" /\ flush'.cfg = cfg
    BY <1>4, RendersIs, Zenon
  <2>2. /\ cfg # EmptyFile /\ Good(cfg)
        /\ file # EmptyFile => cfg.selectors = file.selectors /\ Ruled(cfg)
    BY <1>4, RendersIs, RenderedIs, Zenon
  <2>3. UNCHANGED <<file, lastHash>>
    BY <1>4, RendersIs, Zenon
  <2>. QED  BY <2>1, <2>2, <2>3 DEF RenderInv
<1>5. CASE FlushWrites
  <2>1. /\ file' = flush.cfg /\ flush'.cfg = flush.cfg /\ flush'.pc = "reload"
        /\ UNCHANGED <<running, scenario>>
        /\ flush.cfg # EmptyFile /\ Good(flush.cfg) /\ (file # EmptyFile => Ruled(flush.cfg))
    BY <1>5, WritesIs, Zenon DEF RenderInv
  <2>. QED  BY <2>1, Zenon DEF RenderInv, FileInv
<1>6. CASE FlushReloads
  BY <1>6, ReloadsIs, Zenon DEF RenderInv
<1>7. CASE RenderFails \/ ReloadRefused \/ FlushStoreFails \/ FlushFails
  BY <1>7, FailedIs, Zenon DEF RenderInv
<1>8. ASSUME NEW c \in Commands, FlushPersists(c)
      PROVE  RenderInv'
  BY <1>8, PersistsIs DEF RenderInv
<1>9. CASE FlushAnswers
  BY <1>9, AnswersIs, Zenon DEF RenderInv
<1>10. CASE \E e \in Upstreams : UpstreamChanged(e)
  BY <1>10, Zenon DEF UpstreamChanged, singboxVars, coalescerVars, auxVars, RenderInv
<1>11. CASE AgentCrash
  BY <1>11, Zenon DEF AgentCrash, NoFlush, RenderInv
<1>12. CASE SingboxRestarts
  BY <1>12, Zenon DEF SingboxRestarts, coalescerVars, auxVars, RenderInv
<1>. QED  BY <1>1, <1>2, <1>3, <1>4, <1>5, <1>6, <1>7, <1>8, <1>9, <1>10, <1>11, <1>12, SideSteps

-----------------------------------------------------------------------------
(* The rows about to be stored are carried.                                *)

(* A choice made for one user leaves the others where they are.            *)
LEMMA OtherChoice ==
    ASSUME ConfigTypes, running # EmptyFile, NEW c, SelectEffect(c), NEW u, u # c.client
    PROVE  Egress(running, chosen', u) = Egress(running, chosen, u)
<1>1. DOMAIN chosen = DOMAIN running.selectors
  BY Zenon DEF ConfigTypes
<1>2. u \in DOMAIN running.selectors => chosen'[u] = chosen[u]
  BY <1>1 DEF SelectEffect
<1>. QED  BY <1>2, ZenonT(40) DEF Egress

(* The calls of two placements are about two users.                        *)
LEMMA TwoUsers ==
    ASSUME QueueInv, IssuedInv, Ordered(scenario.commands), NEW p \in Placements,
           NEW q \in Placements \ {p}, call[p].pc # "idle", call[q].pc # "idle"
    PROVE  call[p].cmd.client # call[q].cmd.client
<1>1. call[p].cmd \in scenario.commands /\ call[q].cmd \in scenario.commands
  BY Zenon DEF IssuedInv, CallIssued
<1>2. call[p].cmd.pid = p /\ call[q].cmd.pid = q
  BY Zenon DEF QueueInv, CallOK
<1>. QED  BY <1>1, <1>2, Zenon DEF Ordered

LEMMA AbandonedGrow ==
    ASSUME QueueTypes, QueueInv, [SbNext]_sbVars, flush'.pc # "idle"
    PROVE  abandoned \subseteq abandoned'
<1>1. CASE AgentCrash
  BY <1>1 DEF AgentCrash, NoFlush
<1>. QED  BY <1>1, OtherSteps, OthersStay, PersistsIs, AnswersIs

LEMMA OverlayStep ==
    ASSUME QueueTypes, QueueInv, ConfigTypes, IssuedInv, Ordered(scenario.commands), ListInv, FileInv,
           RenderInv, OverlayInv, [SbNext]_sbVars
    PROVE  OverlayInv'
<1>1. CASE SameSide
  <2>1. flush'.pc # "idle" => abandoned \subseteq abandoned'
    BY AbandonedGrow
  <2>. QED  BY <1>1, <2>1, Zenon DEF SameSide, OverlayInv, ReloadKnown
<1>2. ASSUME NEW q \in Placements, SelectOutbound(q) \/ SelectFails(q)
      PROVE  OverlayInv'
  <2>1. /\ UNCHANGED <<file, running, lastHash, flush, abandoned>> /\ call[q].pc = "select"
        /\ UNCHANGED chosen \/ SelectEffect(call[q].cmd)
    BY <1>2, SelectsIs, Zenon DEF At
  <2>2. CASE UNCHANGED chosen
    BY <2>1, <2>2, Zenon DEF OverlayInv, ReloadKnown
  <2>3. CASE SelectEffect(call[q].cmd)
    <3>1. ASSUME NEW c \in flush.overlays, c.pid \notin abandoned, Carries(running, chosen, c)
          PROVE  Carries(running, chosen', c)
      <4>1. c.pid \in Placements /\ call[c.pid].pc = "wait" /\ call[c.pid].cmd = c
        BY <3>1, AwaitedOverlay, CommandIs DEF QueueTypes
      <4>2. c.client # call[q].cmd.client
        BY <2>1, <4>1, TwoUsers, Zenon
      <4>3. Egress(running, chosen', c.client) = Egress(running, chosen, c.client)
        BY <2>3, <4>2, OtherChoice, ZenonT(40) DEF SelectEffect, Selectable
      <4>. QED  BY <3>1, <4>3 DEF Carries
    <3>. QED  BY <2>1, <3>1, Zenon DEF OverlayInv, ReloadKnown
  <2>. QED  BY <2>1, <2>2, <2>3, Zenon
<1>3. ASSUME NEW n \in 1..MaxBatch, FlushLists(n)
      PROVE  OverlayInv'
  BY <1>3, ListsIs, Zenon DEF OverlayInv
<1>4. CASE FlushRenders
  <2>1. PICK cfg \in RenderFromState(file, flush.list, registry) :
          IF cfg = lastHash THEN flush'.pc = "persist" /\ flush'.cfg = EmptyFile
                            ELSE flush'.pc = "write" /\ flush'.cfg = cfg
    BY <1>4, RendersIs, Zenon
  <2>2. /\ flush.pc = "render" /\ Validate(flush.list, registry)
        /\ flush'.overlays = flush.overlays /\ UNCHANGED <<file, running, chosen, lastHash, abandoned>>
    BY <1>4, RendersIs
  <2>3. ASSUME NEW c \in flush.overlays
        PROVE  /\ Carries(cfg, Defaults(cfg), c)
               /\ file # EmptyFile => \A choices : Carries(cfg, choices, c)
    <3>1. /\ flush.list \in ListType /\ OneEach(flush.list) /\ Laid(flush.list, c)
          /\ registry \in SUBSET Backends /\ file \in ConfigType \cup {EmptyFile}
      BY <2>2 DEF ConfigTypes, ListInv
    <3>. QED  BY <2>2, <3>1, RenderCarries, ZenonT(40)
  <2>4. CASE cfg # lastHash
    BY <2>1, <2>2, <2>3, <2>4, Zenon DEF OverlayInv
  <2>5. CASE cfg = lastHash
    <3>1. ASSUME ReloadKnown'
          PROVE  file = cfg /\ running = file /\ file # EmptyFile
      BY <2>2, <2>5, <3>1, Zenon DEF ReloadKnown, FileInv
    <3>. QED  BY <2>1, <2>2, <2>3, <2>5, <3>1, ZenonT(40) DEF OverlayInv
  <2>. QED  BY <2>4, <2>5, Zenon
<1>5. CASE FlushWrites
  BY <1>5, WritesIs, Zenon DEF OverlayInv
<1>6. CASE FlushReloads
  <2>1. /\ running' = file /\ chosen' = Defaults(file) /\ file = flush.cfg /\ UNCHANGED file
        /\ flush'.pc = "persist" /\ flush'.overlays = flush.overlays
    BY <1>6, ReloadsIs, Zenon DEF RenderInv
  <2>2. \A c \in flush.overlays : Carries(file, Defaults(file), c)
    BY <1>6, <2>1, ReloadsIs DEF OverlayInv
  <2>. QED  BY <2>1, <2>2, Zenon DEF OverlayInv
<1>7. CASE RenderFails \/ ReloadRefused \/ FlushStoreFails \/ FlushFails
  BY <1>7, FailedIs, Zenon DEF OverlayInv
<1>8. ASSUME NEW c \in Commands, FlushPersists(c)
      PROVE  OverlayInv'
  BY <1>8, PersistsIs, ZenonT(40) DEF OverlayInv, ReloadKnown
<1>9. CASE FlushAnswers
  BY <1>9, AnswersIs, Zenon DEF OverlayInv
<1>10. CASE \E e \in Upstreams : UpstreamChanged(e)
  BY <1>10, Zenon
     DEF UpstreamChanged, singboxVars, coalescerVars, auxVars, OverlayInv, ReloadKnown
<1>11. CASE AgentCrash
  BY <1>11, Zenon DEF AgentCrash, NoFlush, OverlayInv
<1>12. CASE SingboxRestarts
  <2>1. UNCHANGED <<file, lastHash, flush, abandoned>>
    BY <1>12 DEF SingboxRestarts, coalescerVars, auxVars
  <2>2. ReloadKnown => running' = file /\ chosen' = Defaults(file)
    BY <1>12, ZenonT(40) DEF SingboxRestarts, LoadFile, ReloadKnown, FileInv
  <2>. QED  BY <2>1, <2>2 DEF OverlayInv, ReloadKnown
<1>. QED  BY <1>1, <1>2, <1>3, <1>4, <1>5, <1>6, <1>7, <1>8, <1>9, <1>10, <1>11, <1>12, SideSteps, Zenon

(* Only SelectOutbound gets a call to where its choice is stored.          *)
LEMMA PutBy ==
    ASSUME QueueTypes, QueueInv, [SbNext]_sbVars, NEW p \in Placements, call'[p].pc = "put"
    PROVE  SelectOutbound(p) \/ call'[p] = call[p]
<1>0. ASSUME NEW pc \in CallPhase, Goto(p, pc)
      PROVE  pc = "put"
  BY <1>0, GotoIs
<1>1. ASSUME NEW c \in Commands, Dispatch(p, c)
      PROVE  FALSE
  BY <1>1 DEF Dispatch, QueueTypes
<1>2. ASSUME \/ Checks(p) \/ ListsUsers(p) \/ SelectRefused(p) \/ StoresSelected(p) \/ Submits(p)
             \/ Drained(p) \/ SelectFails(p) \/ DrainFails(p)
      PROVE  FALSE
  <2>1. \E pc \in CallPhase \ {"put"} : Goto(p, pc)
    BY <1>2, ZenonT(40)
       DEF Checks, AfterChecks, Swapped, ListsUsers, SelectRefused, StoresSelected, Submits,
                Drained, SelectFails, DrainFails, CallPhase
  <2>. QED  BY <1>0, <2>1
<1>3. ASSUME call' = [call EXCEPT ![p] = NoCall]
      PROVE  FALSE
  BY <1>3, NoCallIs DEF QueueTypes
<1>4. ASSUME StoreFails(p) \/ HandlerStores(p) \/ GivesUp(p)
      PROVE  FALSE
  <2>1. Goto(p, "error") \/ Goto(p, "submit")
    BY <1>3, <1>4 DEF StoreFails, HandlerStores, GivesUp
  <2>. QED  BY <1>0, <2>1 DEF CallPhase
<1>5. CASE CallWorks(p) \/ CallFails(p)
  BY <1>1, <1>2, <1>4, <1>5, ZenonT(40) DEF CallWorks, CallFails
<1>6. ASSUME NEW q \in Placements \ {p}, CallWorks(q) \/ CallFails(q)
      PROVE  call'[p] = call[p]
  BY <1>6, OthersStay
<1>7. ASSUME NEW c \in Commands, FlushPersists(c)
      PROVE  call'[p] = call[p]
  BY <1>7, PersistsIs
<1>8. CASE FlushAnswers
  <2>1. call' = [r \in Placements |->
                   IF Answered(r) THEN [call[r] EXCEPT !.pc = AfterAnswer(r)] ELSE call[r]]
    BY <1>8 DEF FlushAnswers
  <2>2. AfterAnswer(p) # "put"
    BY DEF AfterAnswer, Swapped
  <2>. QED  BY <2>1, <2>2 DEF QueueTypes, CallRecord
<1>9. ASSUME AgentCrash
      PROVE  FALSE
  BY <1>9, NoCallIs DEF AgentCrash
<1>. QED  BY <1>5, <1>6, <1>7, <1>8, <1>9, OtherSteps

(* A choice that is in force stays so, whatever else happens.              *)
LEMMA FlipStays ==
    ASSUME QueueTypes, QueueInv, ConfigTypes, IssuedInv, Ordered(scenario.commands), FileInv, RenderInv,
           [SbNext]_sbVars, NEW p \in Placements, call[p].pc = "put",
           FlipOK(call[p].cmd, file, running, chosen, scenario.faults)
    PROVE  FlipOK(call[p].cmd, file', running', chosen', scenario.faults)
<1>. DEFINE c == call[p].cmd
<1>0. /\ file # EmptyFile /\ c.client \in DOMAIN file.selectors
      /\ c.backend \in file.selectors[c.client].options
      /\ "proxy" \notin scenario.faults =>
           running # EmptyFile /\ Egress(running, chosen, c.client) = {c.backend}
  BY Zenon DEF FlipOK
<1>1. ASSUME UNCHANGED <<file, running, chosen>>
      PROVE  FlipOK(c, file', running', chosen', scenario.faults)
  BY <1>1, ZenonT(40)
<1>2. ASSUME NEW q \in Placements, SelectOutbound(q) \/ SelectFails(q)
      PROVE  FlipOK(c, file', running', chosen', scenario.faults)
  <2>1. /\ UNCHANGED <<file, running>> /\ call[q].pc = "select"
        /\ UNCHANGED chosen \/ SelectEffect(call[q].cmd)
    BY <1>2, SelectsIs, Zenon DEF At
  <2>2. CASE SelectEffect(call[q].cmd)
    <3>1. c.client # call[q].cmd.client
      BY <2>1, TwoUsers, Zenon
    <3>2. Egress(running, chosen', c.client) = Egress(running, chosen, c.client)
      BY <2>2, <3>1, OtherChoice, Zenon DEF SelectEffect, Selectable
    <3>. QED  BY <1>0, <2>1, <3>2, Zenon DEF FlipOK
  <2>. QED  BY <1>1, <2>1, <2>2
<1>3. CASE FlushWrites
  <2>1. /\ file' = flush.cfg /\ UNCHANGED <<running, chosen>>
        /\ flush.cfg # EmptyFile /\ flush.cfg.selectors = file.selectors
    BY <1>0, <1>3, WritesIs, Zenon DEF RenderInv
  <2>. QED  BY <1>0, <2>1, Zenon DEF FlipOK
<1>4. ASSUME flush.pc = "reload", Loads(file), UNCHANGED file, running' = file, chosen' = Defaults(file)
      PROVE  FlipOK(c, file', running', chosen', scenario.faults)
  <2>1. ASSUME "proxy" \notin scenario.faults
        PROVE  Egress(file, Defaults(file), c.client) = {c.backend}
    <3>1. Ruled(file)
      BY <1>0, <1>4, <2>1, ZenonT(40) DEF RenderInv
    <3>2. \E b \in Backends : <<c.client, b>> \in file.rules
      BY <1>0, <1>4, <3>1, Zenon DEF Ruled
    <3>3. file \in ConfigType /\ Good(file)
      BY <1>0, ZenonT(40) DEF ConfigTypes, FileInv
    <3>4. /\ Loads(file) /\ c.client \in DOMAIN file.selectors
          /\ c.backend \in file.selectors[c.client].options
      BY <1>0, <1>4, Zenon
    <3>. QED
      <4>1. ASSUME NEW u \in DOMAIN file.selectors, NEW b \in file.selectors[u].options,
                   \E d \in Backends : <<u, d>> \in file.rules, NEW choices
            PROVE  Egress(file, choices, u) = {b}
        BY <3>3, <3>4, <4>1, ChoiceDecides
      <4>. HIDE DEF c
      <4>. QED  BY <3>2, <3>4, <4>1, Zenon
  <2>. QED  BY <1>0, <1>4, <2>1, ZenonT(40) DEF FlipOK
<1>5. CASE FlushReloads
  BY <1>4, <1>5, ReloadsIs, Zenon
<1>6. CASE RenderFails \/ ReloadRefused \/ FlushStoreFails \/ FlushFails
  BY <1>1, <1>4, <1>6, FailedIs, ZenonT(40) DEF LoadFile
<1>7. CASE SingboxRestarts
  <2>1. "proxy" \in scenario.faults /\ UNCHANGED file
    BY <1>7, Zenon DEF SingboxRestarts
  <2>. QED  BY <1>0, <2>1 DEF FlipOK
<1>8. CASE \/ SameSide \/ FlushRenders \/ FlushAnswers \/ AgentCrash
           \/ \E n \in 1..MaxBatch : FlushLists(n)
           \/ \E d \in Commands : FlushPersists(d)
           \/ \E e \in Upstreams : UpstreamChanged(e)
  <2>1. UNCHANGED <<file, running, chosen>>
    BY <1>8, ListsIs, RendersIs, PersistsIs, AnswersIs
       DEF SameSide, AgentCrash, UpstreamChanged, singboxVars
  <2>. QED  BY <1>1, <2>1, Zenon
<1>. QED  BY <1>2, <1>3, <1>5, <1>6, <1>7, <1>8, SideSteps, Zenon

LEMMA FlipStep ==
    ASSUME QueueTypes, QueueInv, ConfigTypes, IssuedInv, Ordered(scenario.commands), FileInv, RenderInv,
           FlipInv, [SbNext]_sbVars
    PROVE  FlipInv'
<1>. SUFFICES ASSUME NEW p \in Placements, call'[p].pc = "put"
              PROVE  FlipOK(call'[p].cmd, file', running', chosen', scenario.faults)
  BY ScenarioStays, Zenon DEF FlipInv
<1>1. CASE call'[p] = call[p]
  <2>1. FlipOK(call[p].cmd, file, running, chosen, scenario.faults)
    BY <1>1, ZenonT(40) DEF FlipInv
  <2>2. FlipOK(call[p].cmd, file', running', chosen', scenario.faults)
    BY <1>1, <2>1, FlipStays, Zenon
  <2>. QED  BY <1>1, <2>2, Zenon
<1>2. CASE SelectOutbound(p)
  <2>. DEFINE c == call[p].cmd
  <2>1. /\ UNCHANGED <<file, running>> /\ SelectEffect(c) /\ call'[p].cmd = c
    BY <1>2, GotoIs, ZenonT(40) DEF SelectOutbound, CallPhase
  <2>2. /\ running # EmptyFile /\ c.client \in DOMAIN running.selectors
        /\ c.backend \in running.selectors[c.client].options
    BY <2>1, Zenon DEF SelectEffect, Selectable
  <2>3. /\ running \in ConfigType /\ Loads(running) /\ Good(running) /\ file # EmptyFile
        /\ running.selectors = file.selectors /\ c.client \in DOMAIN chosen
    BY <2>2 DEF ConfigTypes, FileInv
  <2>4. chosen'[c.client] = c.backend
    BY <2>1, <2>3, Zenon DEF SelectEffect
  <2>5. Egress(running, chosen', c.client) = {c.backend}
    <3>1. ASSUME NEW u \in DOMAIN running.selectors, NEW b \in running.selectors[u].options,
                 NEW choices, choices[u] = b
          PROVE  Egress(running, choices, u) = {b}
      BY <2>3, <3>1, ChoiceDecides
    <3>. HIDE DEF c
    <3>. QED  BY <2>2, <2>4, <3>1, Zenon
  <2>. QED  BY <2>1, <2>2, <2>3, <2>5, Zenon DEF FlipOK
<1>. QED  BY <1>1, <1>2, PutBy, ZenonT(40)

-----------------------------------------------------------------------------

CarryInv ==
    /\ IssuedInv /\ DoneInv
    /\ ListInv /\ FileInv /\ RenderInv /\ OverlayInv /\ FlipInv

LEMMA CarryInit == SbInit => CarryInv
<1>. SUFFICES ASSUME SbInit PROVE CarryInv
  OBVIOUS
<1>1. /\ store = [p \in Placements |-> NoPlacement] /\ submit = <<>> /\ flush = NoFlush
      /\ call = [p \in Placements |-> NoCall] /\ lastHash = EmptyFile /\ scenario \in Scenarios
      /\ file \in {EmptyFile, Template} /\ running = IF Loads(file) THEN file ELSE EmptyFile
  BY BaseFilesAssumption DEF SbInit, StoreInit
<1>2. flush.pc = "idle" /\ flush.batch = <<>> /\ \A p \in Placements : call[p].pc = "idle"
  BY <1>1, NoCallIs, Zenon DEF NoFlush
<1>3. IssuedInv
  BY <1>1, <1>2, SMTT(30) DEF IssuedInv, RowIssued, CallIssued, Issued, Found
<1>4. DoneInv /\ FlipInv
  BY <1>2, Zenon DEF DoneInv, RowDone, DonePhase, FlipInv
<1>5. ListInv /\ RenderInv /\ OverlayInv
  BY <1>2 DEF ListInv, RenderInv, OverlayInv
<1>6. Good(Template)
  BY TemplateIs, Zenon DEF Good
<1>7. FileInv
  BY <1>1, <1>6 DEF FileInv, ReloadKnown, Loads
<1>. QED  BY <1>3, <1>4, <1>5, <1>7 DEF CarryInv

LEMMA CarryStep ==
    ASSUME \A s \in Scenarios : Ordered(s.commands),
           QueueTypes, QueueInv, ConfigTypes, CarryInv, [SbNext]_sbVars
    PROVE  CarryInv'
<1>1. Ordered(scenario.commands)
  BY Zenon DEF CarryInv, IssuedInv
<1>2. IssuedInv' /\ DoneInv'
  BY <1>1, IssuedStep, DoneStep DEF CarryInv
<1>3. ListInv' /\ FileInv' /\ RenderInv'
  BY <1>1, ListStep, FileStep, RenderStep DEF CarryInv
<1>4. OverlayInv' /\ FlipInv'
  BY <1>1, OverlayStep, FlipStep DEF CarryInv
<1>. QED  BY <1>2, <1>3, <1>4, Zenon DEF CarryInv

(* A row is stored as applied.                                             *)
AppliedStep ==
    \A p \in Placements \ abandoned :
        /\ ReloadKnown /\ ChoicesLast
        /\ store'[p] # store[p] /\ AppliedActive(p)'
        /\ ~FailedBefore(p, store'[p].op)
        => CarriedFor(p)'

(* The row of a command carries the fields of the command.                 *)
LEMMA RowIs ==
    ASSUME NEW c \in Commands, NEW a
    PROVE  /\ Row(c, a).desired = c.desired /\ Row(c, a).client = c.client
           /\ Row(c, a).backend = c.backend /\ Row(c, a).op = c.op
           /\ Row(c, a).applied = a
BY DEF Row

LEMMA CarriedStep ==
    ASSUME QueueTypes, QueueInv, CarryInv, [SbNext]_sbVars
    PROVE  AppliedStep
<1>. SUFFICES ASSUME NEW p \in Placements \ abandoned, ReloadKnown, ChoicesLast,
                     store'[p] # store[p], AppliedActive(p)', ~FailedBefore(p, store'[p].op)
              PROVE  CarriedFor(p)'
  BY Zenon DEF AppliedStep
<1>0. ASSUME NEW c \in Commands, store'[p] = Row(c, "applied"),
             running' # EmptyFile, Egress(running', chosen', c.client) = {c.backend}
      PROVE  CarriedFor(p)'
  <2>1. /\ Found(store'[p]) /\ store'[p].desired = "active" /\ store'[p].client = c.client
        /\ store'[p].backend = c.backend
    <3>1. Row(c, "applied").client = c.client /\ Row(c, "applied").backend = c.backend
      BY RowIs
    <3>2. Found(store'[p]) /\ store'[p].desired = "active"
      BY Zenon DEF AppliedActive
    <3>. QED  BY <1>0, <3>1, <3>2
  <2>2. c.backend \in ActiveBackends(c.client)'
    BY <2>1, ZenonT(40) DEF ActiveBackends, ListPlacements
  <2>. QED  BY <1>0, <2>1, <2>2, Zenon DEF CarriedFor, Carried
<1>1. ASSUME NEW q \in Placements, CallWorks(q) \/ CallFails(q)
      PROVE  CarriedFor(p)'
  <2>1. q = p
    BY <1>1, OthersStay, ZenonT(40)
  <2>2. /\ StoresSelected(p) \/ HandlerStores(p)
        /\ call[p].pc # "idle" /\ call[p].cmd \in Commands /\ call[p].cmd.pid = p
    BY <1>1, <2>1, OwnCall, Zenon
  <2>3. CASE StoresSelected(p)
    <3>1. /\ call[p].pc = "put" /\ store'[p] = Row(call[p].cmd, "applied")
          /\ UNCHANGED <<file, running, chosen>>
      BY <2>2, <2>3, PutIs DEF StoresSelected, At, AppliedState, QueueTypes, singboxVars
    <3>2. FlipOK(call[p].cmd, file, running, chosen, scenario.faults)
      BY <3>1, Zenon DEF CarryInv, FlipInv
    <3>3. file.selectors # <<>>
      <4>1. call[p].cmd.client \in DOMAIN file.selectors
        BY <3>2, Zenon DEF FlipOK
      <4>. QED  BY <4>1
    <3>4. running # EmptyFile /\ Egress(running, chosen, call[p].cmd.client) = {call[p].cmd.backend}
      BY <3>2, <3>3, Zenon DEF FlipOK, ChoicesLast
    <3>. QED  BY <1>0, <2>2, <3>1, <3>4, ZenonT(40)
  <2>4. CASE HandlerStores(p)
    <3>1. PICK a \in AppliedState : /\ store'[p] = Row(call[p].cmd, a)
                                    /\ (call[p].pc = "ok" /\ a = "applied") \/ a = "error"
      BY <2>2, <2>4, PutIs, Zenon DEF HandlerStores, At, AppliedState, QueueTypes
    <3>2. call[p].pc = "ok" /\ a = "applied"
      <4>1. a = "applied"
        BY <2>2, <3>1, RowIs, ZenonT(40) DEF AppliedActive
      <4>. QED  BY <3>1, <4>1
    <3>3. store[p] = Row(call[p].cmd, "error")
      BY <3>1, <3>2 DEF CarryInv, DoneInv, RowDone, DonePhase
    <3>4. Found(store[p]) /\ store[p].op = store'[p].op /\ store[p].applied = "error"
      <4>1. Found(Row(call[p].cmd, "error"))
        BY <2>2, CommandIs, Zenon DEF AppliedState
      <4>2. /\ Row(call[p].cmd, "error").op = call[p].cmd.op
            /\ Row(call[p].cmd, "error").applied = "error"
            /\ Row(call[p].cmd, a).op = call[p].cmd.op
        BY <2>2, RowIs
      <4>. QED  BY <3>1, <3>3, <4>1, <4>2
    <3>. QED  BY <3>4, Zenon DEF FailedBefore
  <2>. QED  BY <2>2, <2>3, <2>4, Zenon
<1>2. ASSUME NEW c \in Commands, FlushPersists(c)
      PROVE  CarriedFor(p)'
  <2>1. flush.pc = "persist" /\ c \in flush.overlays /\ UNCHANGED <<running, chosen>>
    BY <1>2, PersistsIs, Zenon
  <2>2. c.pid = p /\ store'[p] = Row(c, "applied")
    BY <1>2, PutIs DEF FlushPersists, AppliedState, QueueTypes
  <2>3. c.desired = "active"
    <3>1. Row(c, "applied").desired = c.desired
      BY RowIs
    <3>2. store'[p].desired = "active"
      BY Zenon DEF AppliedActive
    <3>. QED  BY <2>2, <3>1, <3>2, Zenon
  <2>4. Egress(running, chosen, c.client) = {c.backend}
    BY <2>1, <2>2, <2>3, ZenonT(40) DEF CarryInv, OverlayInv, Carries
  <2>5. running # EmptyFile
    BY DEF CarryInv, FileInv, ReloadKnown
  <2>. QED  BY <1>0, <2>1, <2>2, <2>4, <2>5, Zenon
<1>3. CASE FlushAnswers \/ AgentCrash \/ UNCHANGED <<store, call, scenario, abandoned>>
  BY <1>3 DEF FlushAnswers, AgentCrash
<1>. QED  BY <1>1, <1>2, <1>3, OtherSteps

(* An active placement is stored as applied only when sing-box carries its *)
(* user, if no two placements of a scenario share a client and a version   *)
(* of a placement is issued once.                                          *)
THEOREM AppliedAreCarried ==
    ASSUME \A s \in Scenarios : Ordered(s.commands)
    PROVE  SbSpec => AppliedMeansCarried
<1>1. SbInit => QueueTypes /\ QueueInv /\ ConfigTypes /\ CarryInv
  BY QueueInitInv, SbTypesInit, CarryInit
<1>2. QueueTypes /\ QueueInv /\ ConfigTypes /\ CarryInv /\ [SbNext]_sbVars
      => QueueTypes' /\ QueueInv' /\ ConfigTypes' /\ CarryInv'
  BY QueueStepInv, ConfigTypesStep, CarryStep
<1>3. QueueTypes /\ QueueInv /\ CarryInv /\ [SbNext]_sbVars => AppliedStep
  BY CarriedStep
<1>. QED  BY <1>1, <1>2, <1>3, PTL DEF SbSpec, AppliedMeansCarried, AppliedStep
=============================================================================
