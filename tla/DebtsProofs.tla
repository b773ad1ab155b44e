----------------------------- MODULE DebtsProofs -----------------------------
(***************************************************************************)
(* Debts and claims for any games, accounts, guests and number of handlers *)
(* at work at once.                                                        *)
(*                                                                         *)
(* What a handler has found out is still true when it updates, because a   *)
(* claim is never taken back: an account's identities only grow.  What it  *)
(* has found to be absent is not: that an account has no seat stays true   *)
(* only while that account has no other claim under way.                   *)
(*                                                                         *)
(* Then the Debts page over these handlers: it adds no step of its own to  *)
(* them, an open debt always has somebody who can move it, and the page    *)
(* and the API disagree only about what has happened since.                *)
(***************************************************************************)
EXTENDS DebtsPage, TLAPS

\* The two sides of a debt as `settle' sees them.
Sides(req) ==
    \/ /\ Owed[req.subject].from_player \in identity_ids(req.actor)
       /\ req.other = Owed[req.subject].to_player
    \/ /\ Owed[req.subject].to_player \in identity_ids(req.actor)
       /\ req.other = Owed[req.subject].from_player

\* What a handler knows by its stage.
Knows(req) ==
    /\ req.stage \in Under =>
        /\ req.actor \in Account
        /\ \/ req.kind = "claim" /\ req.subject \in Guest
           \/ req.kind \in Transitions \cup {"settle"} /\ req.subject \in Debt
    /\ req.stage \notin Under => req.kind = "none"
    /\ req.stage \in {"row", "party", "checked"} /\ req.kind # "claim" => req.seen # "none"
    /\ req.stage = "party" => req.kind = "settle" /\ Sides(req)
    /\ req.stage = "room" => req.kind = "claim"
    /\ req.stage = "checked" /\ req.kind \in Transitions => MayMove(req)
    /\ req.stage = "checked" /\ req.kind = "settle" =>
        Sides(req) /\ req.other \in Guest /\ req.seen # "approved"

RowsOfEnded == \A d \in Debt : status[d] # "none" => Owed[d].room_id \in ended

ClaimsApart ==
    \A q, r \in Request :
        reqs[q].kind = "claim" /\ reqs[r].kind = "claim" /\ reqs[q].actor = reqs[r].actor => q = r

\* An account whose claim has passed the check has no seat in that game yet.
SeatsFree ==
    \A r \in Request :
        reqs[r].kind = "claim" /\ reqs[r].stage = "checked" =>
            ~Seated(reqs[r].actor, RoomOf[reqs[r].subject])

IInv ==
    /\ TypeOK
    /\ RowsOfEnded
    /\ \A r \in Request : Knows(reqs[r])
    /\ ~ClaimsOverlap => ClaimsApart /\ SeatsFree /\ OnePersonOneSeat

-----------------------------------------------------------------------------
(* Lemmas. *)

LEMMA BlankRequest ==
    ASSUME NEW stage \in {"idle", "ok", "refused"}
    PROVE  /\ Blank(stage) \in Requests /\ Knows(Blank(stage))
           /\ Blank(stage).kind = "none" /\ Blank(stage).stage = stage
BY DEF Blank, Requests, Knows, Under, Statuses, Transitions

(* What a handler knows stays true while claims are only added. *)
LEMMA KnowledgeLasts ==
    ASSUME NEW req \in Requests, Knows(req),
           \A g \in Guest : claimed_by[g] # NoOne => claimed_by'[g] = claimed_by[g],
           NoOne \notin Account
    PROVE  Knows(req)'
<1>1. CASE req.stage \in Under
  <2>1. req.actor \in Account
    BY <1>1 DEF Knows
  <2>2. \A p : p \in identity_ids(req.actor) => p \in identity_ids(req.actor)'
    BY <2>1 DEF identity_ids
  <2>3. Sides(req) => Sides(req)'
    BY <2>2 DEF Sides
  <2>4. MayMove(req) => MayMove(req)'
    BY <2>2 DEF MayMove
  <2> QED
    BY <2>3, <2>4 DEF Knows
<1>2. CASE req.stage \notin Under
  BY <1>2 DEF Knows, Under
<1> QED
  BY <1>1, <1>2

(* A step of a handler that writes nothing but its own stage. *)
LEMMA HandlerStep ==
    ASSUME IInv, NEW r \in Request, NEW req \in Requests,
           Go(r, req), UNCHANGED <<ended, status, claimed_by>>,
           Knows(req),
           req.kind = "claim" =>
               \/ reqs[r].kind = "claim" /\ reqs[r].actor = req.actor
               \/ ClaimsOverlap
               \/ \A q \in Request : ~(reqs[q].kind = "claim" /\ reqs[q].actor = req.actor),
           req.kind = "claim" /\ req.stage = "checked" =>
               ~Seated(req.actor, RoomOf[req.subject])
    PROVE  IInv'
<1>1. reqs' = [reqs EXCEPT ![r] = req] /\ reqs \in [Request -> Requests]
  BY DEF Go, IInv, TypeOK
<1>2. /\ reqs' \in [Request -> Requests] /\ reqs'[r] = req
      /\ \A q \in Request : q # r => reqs'[q] = reqs[q]
  BY <1>1
<1>3. TypeOK' /\ RowsOfEnded'
  BY <1>2 DEF IInv, TypeOK, RowsOfEnded
<1>4. \A q \in Request : Knows(reqs'[q])
  BY <1>2 DEF IInv
<1>5. \A q \in Request : Knows(reqs[q])'
  BY <1>4 DEF Knows, Sides, MayMove, identity_ids
<1>6. ASSUME ~ClaimsOverlap
      PROVE  ClaimsApart' /\ SeatsFree' /\ OnePersonOneSeat'
  <2>1. ClaimsApart /\ SeatsFree /\ OnePersonOneSeat
    BY <1>6 DEF IInv
  <2>2. ClaimsApart'
    BY <1>2, <1>6, <2>1 DEF ClaimsApart
  <2>3. \A q \in Request :
            reqs'[q].kind = "claim" /\ reqs'[q].stage = "checked" =>
                ~Seated(reqs'[q].actor, RoomOf[reqs'[q].subject])
    BY <1>2, <2>1 DEF SeatsFree
  <2>4. SeatsFree'
    BY <2>3 DEF SeatsFree, Seated, identity_ids
  <2>5. OnePersonOneSeat'
    BY <2>1 DEF OnePersonOneSeat, identity_ids
  <2> QED
    BY <2>2, <2>4, <2>5
<1> QED
  BY <1>3, <1>5, <1>6 DEF IInv

(* A refused handler. *)
LEMMA RefusedStep ==
    ASSUME IInv, NEW r \in Request, Answer(r, "refused"),
           UNCHANGED <<ended, status, claimed_by>>
    PROVE  IInv'
<1>1. /\ Blank("refused") \in Requests /\ Knows(Blank("refused"))
      /\ Blank("refused").kind = "none"
  BY BlankRequest
<1> QED
  BY <1>1, HandlerStep DEF Answer

(* A handler that is let through to its next stage, or refused. *)
LEMMA GuardedStep ==
    ASSUME IInv, NEW r \in Request, NEW stage \in Under, NEW condition,
           Guarded(r, condition, stage), UNCHANGED <<ended, status, claimed_by>>,
           condition => Knows([reqs[r] EXCEPT !.stage = stage]),
           condition /\ reqs[r].kind = "claim" /\ stage = "checked" =>
               ~Seated(reqs[r].actor, RoomOf[reqs[r].subject])
    PROVE  IInv'
<1> DEFINE req == [reqs[r] EXCEPT !.stage = stage]
<1>1. CASE condition
  <2>1. Go(r, req)
    BY <1>1 DEF Guarded, Proceed
  <2>2. reqs[r] \in Requests
    BY DEF IInv, TypeOK
  <2>3. /\ req \in Requests /\ req.kind = reqs[r].kind /\ req.actor = reqs[r].actor
        /\ req.subject = reqs[r].subject /\ req.stage = stage
    BY <2>2 DEF Requests
  <2>4. Knows(req)
    BY <1>1
  <2> HIDE DEF req
  <2> QED
    BY <1>1, <2>1, <2>3, <2>4, HandlerStep
<1>2. CASE ~condition
  BY <1>2, RefusedStep DEF Guarded
<1> QED
  BY <1>1, <1>2

-----------------------------------------------------------------------------
(* The steps of a handler, one by one. *)

LEMMA StartsSo == Init => IInv
<1> SUFFICES ASSUME Init PROVE IInv
  OBVIOUS
<1>1. \A r \in Request : reqs[r] = Blank("idle")
  BY DEF Init
<1>2. /\ Blank("idle") \in Requests /\ Knows(Blank("idle")) /\ Blank("idle").kind = "none"
  BY BlankRequest
<1>3. TypeOK
  BY <1>2 DEF Init, TypeOK, Statuses
<1>4. RowsOfEnded
  BY DEF Init, RowsOfEnded
<1>5. ClaimsApart /\ SeatsFree
  BY <1>1, <1>2 DEF ClaimsApart, SeatsFree
<1>6. OnePersonOneSeat
  <2>1. \A a \in Account : \A p \in identity_ids(a) : p = a
    BY DebtsAssumption DEF Init, identity_ids
  <2> QED
    BY <2>1 DEF OnePersonOneSeat
<1> QED
  BY <1>1, <1>2, <1>3, <1>4, <1>5, <1>6 DEF IInv

LEMMA GameEndsKeeps ==
    ASSUME IInv, NEW g \in Game, GameEnds(g)
    PROVE  IInv'
<1>1. /\ ended' = ended \cup {g}
      /\ status' = [d \in Debt |-> IF Owed[d].room_id = g THEN "pending" ELSE status[d]]
      /\ claimed_by' = claimed_by /\ reqs' = reqs
  BY DEF GameEnds
<1>2. TypeOK' /\ RowsOfEnded'
  BY <1>1 DEF IInv, TypeOK, RowsOfEnded, Statuses
<1>3. \A r \in Request : Knows(reqs[r])'
  BY <1>1 DEF IInv, Knows, Sides, MayMove, identity_ids
<1>4. ~ClaimsOverlap => (ClaimsApart /\ SeatsFree /\ OnePersonOneSeat)'
  BY <1>1 DEF IInv, ClaimsApart, SeatsFree, OnePersonOneSeat, Seated, identity_ids
<1> QED
  BY <1>2, <1>3, <1>4 DEF IInv

LEMMA SendKeeps ==
    ASSUME IInv, NEW r \in Request, NEW a \in Account, NEW kind, NEW subject,
           \/ kind = "claim" /\ subject \in Guest
           \/ kind \in Transitions \cup {"settle"} /\ subject \in Debt,
           Send(r, kind, a, subject)
    PROVE  IInv'
<1> DEFINE req == [Blank("sent") EXCEPT !.kind = kind, !.actor = a, !.subject = subject]
<1>1. /\ req \in Requests /\ req.stage = "sent" /\ req.kind = kind /\ req.actor = a
      /\ req.subject = subject
  BY DEF Blank, Requests, Under, Transitions, Statuses
<1> HIDE DEF req
<1>2. Knows(req)
  BY <1>1 DEF Knows, Under
<1>3. Go(r, req) /\ UNCHANGED <<ended, status, claimed_by>>
  BY DEF Send, req
<1>4. kind = "claim" => \/ ClaimsOverlap
                        \/ \A q \in Request : ~(reqs[q].kind = "claim" /\ reqs[q].actor = a)
  BY DEF Send
<1> QED
  BY <1>1, <1>2, <1>3, <1>4, HandlerStep

LEMMA ReadRowKeeps ==
    ASSUME IInv, NEW r \in Request, ReadRow(r)
    PROVE  IInv'
<1>1. /\ reqs[r] \in Requests /\ Knows(reqs[r]) /\ reqs[r].stage = "sent"
      /\ UNCHANGED <<ended, status, claimed_by>>
  BY DEF IInv, TypeOK, ReadRow
<1>2. CASE reqs[r].kind = "claim"
  <2>1. Guarded(r, claimed_by[reqs[r].subject] = NoOne, "row")
    BY <1>2 DEF ReadRow
  <2>2. Knows([reqs[r] EXCEPT !.stage = "row"])
    BY <1>1, <1>2 DEF Knows, Under, Requests
  <2> QED
    BY <1>1, <2>1, <2>2, GuardedStep DEF Under
<1>3. CASE reqs[r].kind # "claim"
  <2>1. CASE status[reqs[r].subject] = "none"
    BY <1>1, <1>3, <2>1, RefusedStep DEF ReadRow
  <2>2. CASE status[reqs[r].subject] # "none"
    <3> DEFINE req == [reqs[r] EXCEPT !.stage = "row", !.seen = status[reqs[r].subject]]
    <3>1. reqs[r].subject \in Debt
      BY <1>1, <1>3 DEF Knows, Under
    <3>2. status[reqs[r].subject] \in Statuses
      BY <3>1 DEF IInv, TypeOK
    <3>3. /\ req \in Requests /\ req.stage = "row" /\ req.kind = reqs[r].kind
          /\ req.actor = reqs[r].actor /\ req.subject = reqs[r].subject
          /\ req.seen # "none"
      BY <1>1, <2>2, <3>2 DEF Requests, Under
    <3>4. Go(r, req)
      BY <1>3, <2>2 DEF ReadRow
    <3> HIDE DEF req
    <3>5. Knows(req)
      BY <1>1, <3>3 DEF Knows, Under
    <3> QED
      BY <1>1, <1>3, <3>3, <3>4, <3>5, HandlerStep
  <2> QED
    BY <2>1, <2>2
<1> QED
  BY <1>2, <1>3

LEMMA AuthoriseKeeps ==
    ASSUME IInv, NEW r \in Request, Authorise(r)
    PROVE  IInv'
<1>1. /\ reqs[r] \in Requests /\ Knows(reqs[r])
      /\ reqs[r].stage = "row" /\ reqs[r].kind \in Transitions
      /\ Guarded(r, MayMove(reqs[r]), "checked")
      /\ UNCHANGED <<ended, status, claimed_by>>
  BY DEF IInv, TypeOK, Authorise
<1>2. MayMove(reqs[r]) => Knows([reqs[r] EXCEPT !.stage = "checked"])
  BY <1>1 DEF Knows, Under, Requests, Transitions, MayMove
<1>3. reqs[r].kind # "claim"
  BY <1>1 DEF Transitions
<1> QED
  BY <1>1, <1>2, <1>3, GuardedStep DEF Under

LEMMA FindPartyKeeps ==
    ASSUME IInv, NEW r \in Request, FindParty(r)
    PROVE  IInv'
<1> DEFINE row == Owed[reqs[r].subject]
           ids == identity_ids(reqs[r].actor)
           req(p) == [reqs[r] EXCEPT !.stage = "party", !.other = p]
<1>1. /\ reqs[r] \in Requests /\ Knows(reqs[r])
      /\ reqs[r].stage = "row" /\ reqs[r].kind = "settle"
      /\ UNCHANGED <<ended, status, claimed_by>>
  BY DEF IInv, TypeOK, FindParty
<1>2. row.from_player \in Account \cup Guest /\ row.to_player \in Account \cup Guest
  BY <1>1, DebtsAssumption DEF Knows, Under
<1>3. ASSUME NEW p \in Account \cup Guest, Go(r, req(p)),
             \/ row.from_player \in ids /\ p = row.to_player
             \/ row.to_player \in ids /\ p = row.from_player
      PROVE  IInv'
  <2>1. /\ req(p) \in Requests /\ req(p).stage = "party" /\ req(p).kind = "settle"
        /\ req(p).actor = reqs[r].actor /\ req(p).subject = reqs[r].subject
        /\ req(p).other = p /\ req(p).seen = reqs[r].seen
    BY <1>1 DEF Requests, Under
  <2>2. Sides(req(p))
    BY <1>3, <2>1 DEF Sides
  <2> HIDE DEF req
  <2>3. Knows(req(p))
    BY <1>1, <2>1, <2>2 DEF Knows, Under
  <2> QED
    BY <1>1, <1>3, <2>1, <2>3, HandlerStep
<1>4. CASE row.from_player \in ids
  BY <1>2, <1>3, <1>4 DEF FindParty
<1>5. CASE row.from_player \notin ids /\ row.to_player \in ids
  BY <1>2, <1>3, <1>5 DEF FindParty
<1>6. CASE row.from_player \notin ids /\ row.to_player \notin ids
  BY <1>1, <1>6, RefusedStep DEF FindParty
<1> QED
  BY <1>4, <1>5, <1>6

LEMMA LookAtGuestKeeps ==
    ASSUME IInv, NEW r \in Request, LookAtGuest(r)
    PROVE  IInv'
<1> DEFINE fine == IsUnclaimedGuest(reqs[r].other) /\ reqs[r].seen # "approved"
<1>1. /\ reqs[r] \in Requests /\ Knows(reqs[r]) /\ reqs[r].stage = "party"
      /\ Guarded(r, fine, "checked") /\ UNCHANGED <<ended, status, claimed_by>>
  BY DEF IInv, TypeOK, LookAtGuest
<1>2. reqs[r].kind = "settle" /\ Sides(reqs[r])
  BY <1>1 DEF Knows
<1>3. fine => Knows([reqs[r] EXCEPT !.stage = "checked"])
  BY <1>1, <1>2 DEF Knows, Sides, Under, Requests, Transitions, IsUnclaimedGuest
<1> HIDE DEF fine
<1> QED
  BY <1>1, <1>2, <1>3, GuardedStep DEF Under

LEMMA LoadRoomKeeps ==
    ASSUME IInv, NEW r \in Request, LoadRoom(r)
    PROVE  IInv'
<1> DEFINE over == RoomOf[reqs[r].subject] \in ended
<1>1. /\ reqs[r] \in Requests /\ Knows(reqs[r])
      /\ reqs[r].stage = "row" /\ reqs[r].kind = "claim"
      /\ Guarded(r, over, "room") /\ UNCHANGED <<ended, status, claimed_by>>
  BY DEF IInv, TypeOK, LoadRoom
<1>2. Knows([reqs[r] EXCEPT !.stage = "room"])
  BY <1>1 DEF Knows, Under, Requests
<1> HIDE DEF over
<1> QED
  BY <1>1, <1>2, GuardedStep DEF Under

LEMMA CheckSeatsKeeps ==
    ASSUME IInv, NEW r \in Request, CheckSeats(r)
    PROVE  IInv'
<1> DEFINE free == ~Seated(reqs[r].actor, RoomOf[reqs[r].subject])
<1>1. /\ reqs[r] \in Requests /\ Knows(reqs[r]) /\ reqs[r].stage = "room"
      /\ Guarded(r, free, "checked") /\ UNCHANGED <<ended, status, claimed_by>>
  BY DEF IInv, TypeOK, CheckSeats
<1>2. reqs[r].kind = "claim"
  BY <1>1 DEF Knows
<1>3. Knows([reqs[r] EXCEPT !.stage = "checked"])
  BY <1>1, <1>2 DEF Knows, Under, Requests, Transitions
<1>4. "checked" \in Under
  BY DEF Under
<1>5. free => ~Seated(reqs[r].actor, RoomOf[reqs[r].subject])
  OBVIOUS
<1> HIDE DEF free
<1> QED
  BY <1>1, <1>3, <1>4, <1>5, GuardedStep

LEMMA UpdateDebtKeeps ==
    ASSUME IInv, NEW r \in Request, UpdateDebt(r)
    PROVE  IInv'
<1>1. /\ reqs[r] \in Requests /\ Knows(reqs[r]) /\ reqs[r].stage = "checked"
      /\ reqs[r].kind # "claim" /\ ended' = ended /\ claimed_by' = claimed_by
  BY DEF IInv, TypeOK, UpdateDebt
<1>2. CASE ~StillAsRead(reqs[r])
  BY <1>1, <1>2, RefusedStep DEF UpdateDebt, Lost
<1>3. CASE StillAsRead(reqs[r])
  <2> DEFINE d == reqs[r].subject
             req == Blank("ok")
  <2>1. d \in Debt /\ reqs[r].kind \in Transitions \cup {"settle"}
    BY <1>1 DEF Knows, Under
  <2>2. /\ status' = [status EXCEPT ![d] = new_status(reqs[r].kind)]
        /\ reqs' = [reqs EXCEPT ![r] = req]
    BY <1>3 DEF UpdateDebt, Answer, Go
  <2>3. new_status(reqs[r].kind) \in Statuses
    BY <2>1 DEF new_status, Transitions, Statuses
  <2>4. req \in Requests /\ Knows(req) /\ req.kind = "none" /\ req.stage = "ok"
    BY BlankRequest
  <2> HIDE DEF req
  <2>5. status \in [Debt -> Statuses] /\ reqs \in [Request -> Requests]
    BY DEF IInv, TypeOK
  <2>6. /\ reqs' \in [Request -> Requests] /\ reqs'[r] = req
        /\ \A q \in Request : q # r => reqs'[q] = reqs[q]
    BY <2>2, <2>4, <2>5
  <2>7. /\ status' \in [Debt -> Statuses]
        /\ \A e \in Debt : e # d => status'[e] = status[e]
    BY <2>2, <2>3, <2>5
  <2>8. status[d] # "none"
    <3>1. reqs[r].seen # "none"
      <4>1. CASE reqs[r].kind \in Transitions
        BY <1>1, <4>1 DEF Knows, MayMove, expected_status
      <4>2. CASE reqs[r].kind = "settle"
        BY <1>1, <4>2 DEF Knows
      <4> QED
        BY <2>1, <4>1, <4>2
    <3> QED
      BY <1>3, <3>1 DEF StillAsRead
  <2>9. RowsOfEnded'
    BY <1>1, <2>1, <2>7, <2>8 DEF IInv, RowsOfEnded
  <2>10. \A q \in Request : Knows(reqs'[q])
    BY <2>4, <2>6 DEF IInv
  <2>11. \A q \in Request : Knows(reqs[q])'
    BY <1>1, <2>10 DEF Knows, Sides, MayMove, identity_ids
  <2>12. ASSUME ~ClaimsOverlap
         PROVE  ClaimsApart' /\ SeatsFree' /\ OnePersonOneSeat'
    <3>1. ClaimsApart /\ SeatsFree /\ OnePersonOneSeat
      BY <2>12 DEF IInv
    <3>2. ClaimsApart'
      BY <2>4, <2>6, <3>1 DEF ClaimsApart
    <3>3. \A q \in Request :
              reqs'[q].kind = "claim" /\ reqs'[q].stage = "checked" =>
                  ~Seated(reqs'[q].actor, RoomOf[reqs'[q].subject])
      BY <2>4, <2>6, <3>1 DEF SeatsFree
    <3>4. SeatsFree' /\ OnePersonOneSeat'
      BY <1>1, <3>1, <3>3 DEF SeatsFree, Seated, identity_ids, OnePersonOneSeat
    <3> QED
      BY <3>2, <3>4
  <2> QED
    BY <1>1, <2>6, <2>7, <2>9, <2>11, <2>12 DEF IInv, TypeOK
<1> QED
  BY <1>2, <1>3

LEMMA UpdateGuestKeeps ==
    ASSUME IInv, NEW r \in Request, UpdateGuest(r)
    PROVE  IInv'
<1>1. /\ reqs[r] \in Requests /\ Knows(reqs[r]) /\ reqs[r].stage = "checked"
      /\ reqs[r].kind = "claim" /\ ended' = ended /\ status' = status
  BY DEF IInv, TypeOK, UpdateGuest
<1>2. CASE ~Unclaimed(reqs[r].subject)
  BY <1>1, <1>2, RefusedStep DEF UpdateGuest, Lost
<1>3. CASE Unclaimed(reqs[r].subject)
  <2> DEFINE req == Blank("ok")
  <2>1. PICK a \in Account, s \in Guest :
            a = reqs[r].actor /\ s = reqs[r].subject /\ claimed_by[s] = NoOne
    BY <1>1, <1>3 DEF Knows, Under, Unclaimed, Transitions
  <2>2. claimed_by' = [claimed_by EXCEPT ![s] = a] /\ reqs' = [reqs EXCEPT ![r] = req]
    BY <1>3, <2>1 DEF UpdateGuest, Answer, Go
  <2>3. req \in Requests /\ Knows(req) /\ req.kind = "none" /\ req.stage = "ok"
    BY BlankRequest
  <2>4. claimed_by \in [Guest -> Account \cup {NoOne}] /\ reqs \in [Request -> Requests]
    BY DEF IInv, TypeOK
  <2> HIDE DEF req
  <2>5. /\ reqs' \in [Request -> Requests] /\ reqs'[r] = req
        /\ \A q \in Request : q # r => reqs'[q] = reqs[q]
    BY <2>2, <2>3, <2>4
  <2>6. /\ claimed_by' \in [Guest -> Account \cup {NoOne}] /\ claimed_by'[s] = a
        /\ \A g \in Guest : g # s => claimed_by'[g] = claimed_by[g]
    BY <2>1, <2>2, <2>4
  <2>7. /\ NoOne \notin Account
        /\ \A g \in Guest : claimed_by[g] # NoOne => claimed_by'[g] = claimed_by[g]
    BY <2>1, <2>6, DebtsAssumption
  <2>8. \A q \in Request : Knows(reqs'[q]) /\ reqs'[q] \in Requests
    BY <2>3, <2>5 DEF IInv
  <2>9. \A q \in Request : Knows(reqs[q])'
    <3> SUFFICES ASSUME NEW q \in Request PROVE Knows(reqs[q])'
      OBVIOUS
    <3> DEFINE x == reqs[q]
    <3>1. x' \in Requests /\ Knows(x')
      BY <2>8
    <3>2. CASE x'.stage \notin Under
      BY <3>1, <3>2 DEF Knows, Under
    <3>3. CASE x'.stage \in Under
      <4>1. x'.actor \in Account
        BY <3>1, <3>3 DEF Knows
      <4>2. \A p : p \in identity_ids(x'.actor) => p \in identity_ids(x.actor)'
        BY <2>7, <4>1 DEF identity_ids
      <4>3. Sides(x') => Sides(x)'
        BY <4>2 DEF Sides
      <4>4. MayMove(x') => MayMove(x)'
        BY <4>2 DEF MayMove
      <4> QED
        BY <3>1, <4>3, <4>4 DEF Knows
    <3> QED
      BY <3>2, <3>3
  <2>10. ASSUME ~ClaimsOverlap
         PROVE  ClaimsApart' /\ SeatsFree' /\ OnePersonOneSeat'
    <3>1. ClaimsApart /\ SeatsFree /\ OnePersonOneSeat
      BY <2>10 DEF IInv
    <3>2. ClaimsApart'
      BY <2>3, <2>5, <3>1 DEF ClaimsApart
    <3>3. ASSUME NEW b \in Account, b # a, NEW p, p \in identity_ids(b)'
          PROVE  p \in identity_ids(b)
      <4>1. p = b \/ (p \in Guest /\ claimed_by'[p] = b)
        BY <3>3 DEF identity_ids
      <4>2. CASE p \in Guest /\ claimed_by'[p] = b
        <5>1. p # s /\ claimed_by[p] = b
          BY <2>6, <3>3, <4>2
        <5> QED
          BY <4>2, <5>1 DEF identity_ids
      <4> QED
        BY <4>1, <4>2 DEF identity_ids
    <3>4. identity_ids(a)' = identity_ids(a) \cup {s}
      BY <2>1, <2>6 DEF identity_ids
    <3>5. ~Seated(a, RoomOf[s])
      BY <1>1, <2>1, <3>1 DEF SeatsFree
    <3>6. SeatsFree'
      <4> SUFFICES ASSUME NEW q \in Request, reqs'[q].kind = "claim", reqs'[q].stage = "checked"
                   PROVE  ~Seated(reqs[q].actor, RoomOf[reqs[q].subject])'
        BY DEF SeatsFree
      <4>1. q # r /\ reqs'[q] = reqs[q]
        BY <2>3, <2>5
      <4>2. ~Seated(reqs[q].actor, RoomOf[reqs[q].subject])
        BY <3>1, <4>1 DEF SeatsFree
      <4>3. reqs[q].actor # a
        BY <1>1, <2>1, <3>1, <4>1 DEF ClaimsApart
      <4>4. reqs[q].actor \in Account
        BY <4>1 DEF IInv, Knows, Under
      <4>5. identity_ids(reqs[q].actor)' = identity_ids(reqs[q].actor)
        <5> DEFINE b == reqs[q].actor
        <5>1. b' = b
          BY <4>1
        <5>2. {g \in Guest : claimed_by'[g] = b} = {g \in Guest : claimed_by[g] = b}
          BY <2>1, <2>6, <4>3, <4>4, DebtsAssumption
        <5> QED
          BY <5>1, <5>2 DEF identity_ids
      <4> QED
        BY <4>1, <4>2, <4>5 DEF Seated
    <3>7. OnePersonOneSeat'
      <4> SUFFICES ASSUME NEW g \in Game, NEW b \in Account,
                          NEW p \in Players[g] \cap identity_ids(b)',
                          NEW q \in Players[g] \cap identity_ids(b)'
                   PROVE  p = q
        BY DEF OnePersonOneSeat
      <4>1. CASE b # a
        <5>1. p \in Players[g] \cap identity_ids(b) /\ q \in Players[g] \cap identity_ids(b)
          BY <3>3, <4>1
        <5> QED
          BY <3>1, <5>1 DEF OnePersonOneSeat
      <4>2. CASE b = a
        <5>1. p \in identity_ids(a) \cup {s} /\ q \in identity_ids(a) \cup {s}
          BY <3>4, <4>2
        <5>2. s \in Players[g] => RoomOf[s] = g
          BY <2>1, DebtsAssumption
        <5>3. s \in Players[g] => \A x \in Players[g] : x \notin identity_ids(a)
          BY <3>5, <5>2 DEF Seated
        <5>4. CASE p \in identity_ids(a) /\ q \in identity_ids(a)
          BY <2>1, <3>1, <5>4 DEF OnePersonOneSeat
        <5> QED
          BY <5>1, <5>3, <5>4
      <4> QED
        BY <4>1, <4>2
    <3> QED
      BY <3>2, <3>6, <3>7
  <2>11. RowsOfEnded' /\ TypeOK'
    BY <1>1, <2>5, <2>6 DEF IInv, RowsOfEnded, TypeOK
  <2> QED
    BY <2>9, <2>10, <2>11 DEF IInv
<1> QED
  BY <1>2, <1>3

LEMMA StaysSo ==
    ASSUME IInv, [Next]_vars
    PROVE  IInv'
<1>1. CASE UNCHANGED vars
  BY <1>1 DEF vars, IInv, TypeOK, RowsOfEnded, Knows, Sides, MayMove, identity_ids,
              ClaimsApart, SeatsFree, Seated, OnePersonOneSeat
<1>2. CASE \E g \in Game : GameEnds(g)
  BY <1>2, GameEndsKeeps
<1>3. ASSUME NEW r \in Request, NEW a \in Account, NEW d \in Debt,
             NEW kind \in Transitions \cup {"settle"}, Send(r, kind, a, d)
      PROVE  IInv'
  BY <1>3, SendKeeps
<1>4. ASSUME NEW r \in Request, NEW a \in Account, NEW g \in Guest, Send(r, "claim", a, g)
      PROVE  IInv'
  BY <1>4, SendKeeps
<1>5. ASSUME NEW r \in Request,
             \/ ReadRow(r) \/ Authorise(r) \/ FindParty(r) \/ LookAtGuest(r)
             \/ LoadRoom(r) \/ CheckSeats(r) \/ UpdateDebt(r) \/ UpdateGuest(r)
      PROVE  IInv'
  BY <1>5, ReadRowKeeps, AuthoriseKeeps, FindPartyKeeps, LookAtGuestKeeps, LoadRoomKeeps,
     CheckSeatsKeeps, UpdateDebtKeeps, UpdateGuestKeeps
<1> QED
  BY <1>1, <1>2, <1>3, <1>4, <1>5 DEF Next

(* What handlers know is true, and claims that do not overlap leave one seat a person. *)
THEOREM Inductive == Spec => []IInv
<1> QED
  BY StartsSo, StaysSo, PTL DEF Spec

-----------------------------------------------------------------------------

(* The tables and the handlers have the shape of the code's rows and arguments. *)
THEOREM DebtsShape == Spec => []TypeOK
<1>1. IInv => TypeOK
  BY DEF IInv
<1> QED
  BY <1>1, Inductive, PTL

(* Where an account has one claim under way at a time, nobody comes to hold two seats
   of a game (guests.py, "One person, one seat"). *)
THEOREM OneSeat ==
    ASSUME ~ClaimsOverlap
    PROVE  Spec => []OnePersonOneSeat
<1>1. IInv => OnePersonOneSeat
  BY DEF IInv
<1> QED
  BY <1>1, Inductive, PTL

(* Which steps touch the tables, and how. *)
LEMMA Writers ==
    ASSUME IInv, [Next]_vars
    PROVE  \/ status' = status /\ claimed_by' = claimed_by
           \/ \E g \in Game : GameEnds(g)
           \/ \E r \in Request : UpdateDebt(r) /\ StillAsRead(reqs[r])
           \/ \E r \in Request : UpdateGuest(r) /\ Unclaimed(reqs[r].subject)
<1>1. CASE UNCHANGED vars
  BY <1>1 DEF vars
<1>2. CASE \E r \in Request : \E a \in Account :
               \/ \E kind \in Transitions \cup {"settle"}, d \in Debt : Send(r, kind, a, d)
               \/ \E g \in Guest : Send(r, "claim", a, g)
  BY <1>2 DEF Send
<1>3. CASE \E r \in Request : \/ ReadRow(r) \/ Authorise(r) \/ FindParty(r)
                              \/ LookAtGuest(r) \/ LoadRoom(r) \/ CheckSeats(r)
  BY <1>3 DEF ReadRow, Authorise, FindParty, LookAtGuest, LoadRoom, CheckSeats
<1>4. ASSUME NEW r \in Request, UpdateDebt(r)
      PROVE  \/ status' = status /\ claimed_by' = claimed_by
             \/ UpdateDebt(r) /\ StillAsRead(reqs[r])
  BY <1>4 DEF UpdateDebt
<1>5. ASSUME NEW r \in Request, UpdateGuest(r)
      PROVE  \/ status' = status /\ claimed_by' = claimed_by
             \/ UpdateGuest(r) /\ Unclaimed(reqs[r].subject)
  BY <1>5 DEF UpdateGuest
<1> QED
  BY <1>1, <1>2, <1>3, <1>4, <1>5 DEF Next

(* An update of a debt that goes through is a move somebody is entitled to. *)
LEMMA UpdateIsEntitled ==
    ASSUME IInv, NEW r \in Request, UpdateDebt(r), StillAsRead(reqs[r])
    PROVE  LET d == reqs[r].subject
           IN  /\ d \in Debt /\ reqs'[r].stage = "ok"
               /\ \A e \in Debt : e # d => status'[e] = status[e]
               /\ status[d] # status'[d] /\ status[d] # "approved"
               /\ Entitled(d)
<1> DEFINE d == reqs[r].subject
           kind == reqs[r].kind
<1>1. /\ reqs[r] \in Requests /\ Knows(reqs[r]) /\ reqs[r].stage = "checked"
      /\ kind # "claim"
  BY DEF IInv, TypeOK, UpdateDebt
<1>2. d \in Debt /\ kind \in Transitions \cup {"settle"}
  BY <1>1 DEF Knows, Under
<1>3. status \in [Debt -> Statuses] /\ reqs \in [Request -> Requests]
  BY DEF IInv, TypeOK
<1>4. /\ status' = [status EXCEPT ![d] = new_status(kind)]
      /\ reqs' = [reqs EXCEPT ![r] = Blank("ok")]
  BY DEF UpdateDebt, Answer, Go
<1>5. /\ status'[d] = new_status(kind) /\ \A e \in Debt : e # d => status'[e] = status[e]
      /\ reqs'[r] = Blank("ok")
  BY <1>2, <1>3, <1>4
<1>6. reqs'[r].stage = "ok"
  BY <1>5, BlankRequest
<1>7. status[d] = reqs[r].seen
  BY DEF StillAsRead
<1>8. CASE kind \in Transitions
  <2>1. MayMove(reqs[r])
    BY <1>1, <1>8 DEF Knows
  <2>2. /\ status[d] = expected_status(kind)
        /\ Owed[d][authorized_column(kind)] \in identity_ids(reqs[r].actor)
    BY <1>7, <2>1 DEF MayMove
  <2>3. CASE kind = "mark_paid"
    <3>1. /\ status[d] = "pending" /\ status'[d] = "marked_paid"
          /\ Owed[d].from_player \in identity_ids(reqs[r].actor)
      BY <1>5, <2>2, <2>3 DEF expected_status, new_status, authorized_column
    <3> QED
      BY <1>1, <1>2, <1>5, <1>6, <3>1 DEF Entitled
  <2>4. CASE kind # "mark_paid"
    <3>1. /\ status[d] = "marked_paid" /\ status'[d] \in {"pending", "approved"}
          /\ Owed[d].to_player \in identity_ids(reqs[r].actor)
      BY <1>5, <1>8, <2>2, <2>4 DEF expected_status, new_status, authorized_column, Transitions
    <3> QED
      BY <1>1, <1>2, <1>5, <1>6, <3>1 DEF Entitled
  <2> QED
    BY <2>3, <2>4
<1>9. CASE kind = "settle"
  <2>1. Sides(reqs[r]) /\ reqs[r].other \in Guest /\ reqs[r].seen # "approved"
    BY <1>1, <1>9 DEF Knows
  <2>2. status'[d] = "approved" /\ status[d] # "approved"
    BY <1>5, <1>7, <1>9, <2>1 DEF new_status
  <2>3. \/ Owed[d].from_player \in identity_ids(reqs[r].actor) /\ Owed[d].to_player \in Guest
        \/ Owed[d].to_player \in identity_ids(reqs[r].actor) /\ Owed[d].from_player \in Guest
    BY <2>1 DEF Sides
  <2> QED
    BY <1>1, <1>2, <1>5, <1>6, <2>2, <2>3 DEF Entitled
<1> QED
  BY <1>2, <1>8, <1>9

(* Only the two sides of a debt move it, each by the moves that are theirs. *)
THEOREM OnlyThoseEntitled == Spec => MovesByThoseEntitled
<1>1. ASSUME IInv, [Next]_vars, NEW d \in Debt, status[d] # status'[d], status[d] # "none"
      PROVE  Entitled(d)
  <2>1. CASE \E g \in Game : GameEnds(g)
    <3>1. PICK g \in Game : GameEnds(g)
      BY <2>1
    <3>2. /\ g \notin ended
          /\ status' = [e \in Debt |-> IF Owed[e].room_id = g THEN "pending" ELSE status[e]]
      BY <3>1 DEF GameEnds
    <3>3. Owed[d].room_id = g
      BY <1>1, <3>2
    <3>4. Owed[d].room_id \in ended
      BY <1>1 DEF IInv, RowsOfEnded
    <3> QED
      BY <3>2, <3>3, <3>4
  <2>2. CASE \E r \in Request : UpdateDebt(r) /\ StillAsRead(reqs[r])
    <3>1. PICK r \in Request : UpdateDebt(r) /\ StillAsRead(reqs[r])
      BY <2>2
    <3> QED
      BY <1>1, <3>1, UpdateIsEntitled
  <2>3. CASE \E r \in Request : UpdateGuest(r) /\ Unclaimed(reqs[r].subject)
    BY <1>1, <2>3 DEF UpdateGuest
  <2> QED
    BY <1>1, <2>1, <2>2, <2>3, Writers
<1> DEFINE Moves == \A d \in Debt : status[d] # status'[d] /\ status[d] # "none" => Entitled(d)
<1>2. ASSUME IInv, [Next]_vars
      PROVE  Moves
  BY <1>1, <1>2
<1> QED
  BY <1>2, Inductive, PTL DEF Spec, MovesByThoseEntitled

\* Settled debts and claims are final.
Final == /\ \A d \in Debt : status[d] = "approved" => status'[d] = "approved"
         /\ \A g \in Guest : claimed_by[g] # NoOne => claimed_by'[g] = claimed_by[g]

LEMMA FinalStep ==
    ASSUME IInv, [Next]_vars
    PROVE  Final
<1>1. CASE \E g \in Game : GameEnds(g)
  <2>1. PICK g \in Game : GameEnds(g)
    BY <1>1
  <2>2. /\ g \notin ended /\ claimed_by' = claimed_by
        /\ status' = [e \in Debt |-> IF Owed[e].room_id = g THEN "pending" ELSE status[e]]
    BY <2>1 DEF GameEnds
  <2>3. \A d \in Debt : status[d] = "approved" => Owed[d].room_id # g
    BY <2>2 DEF IInv, RowsOfEnded
  <2> QED
    BY <2>2, <2>3 DEF Final
<1>2. CASE \E r \in Request : UpdateDebt(r) /\ StillAsRead(reqs[r])
  <2>1. PICK r \in Request : UpdateDebt(r) /\ StillAsRead(reqs[r])
    BY <1>2
  <2>2. claimed_by' = claimed_by
    BY <2>1 DEF UpdateDebt
  <2>3. \A d \in Debt : status[d] = "approved" => status'[d] = "approved"
    BY <2>1, UpdateIsEntitled
  <2> QED
    BY <2>2, <2>3 DEF Final
<1>3. CASE \E r \in Request : UpdateGuest(r) /\ Unclaimed(reqs[r].subject)
  <2>1. PICK r \in Request : UpdateGuest(r) /\ Unclaimed(reqs[r].subject)
    BY <1>3
  <2>2. /\ claimed_by' = [claimed_by EXCEPT ![reqs[r].subject] = reqs[r].actor]
        /\ status' = status /\ claimed_by[reqs[r].subject] = NoOne
    BY <2>1 DEF UpdateGuest, Unclaimed
  <2>3. claimed_by \in [Guest -> Account \cup {NoOne}]
    BY DEF IInv, TypeOK
  <2> QED
    BY <2>2, <2>3 DEF Final
<1> QED
  BY <1>1, <1>2, <1>3, Writers DEF Final

(* Once a debt is settled or a guest claimed, no overlap of handlers undoes it. *)
THEOREM FinalIsFinal == Spec => ClosedForGood
BY FinalStep, Inductive, PTL DEF Spec, ClosedForGood, Final

-----------------------------------------------------------------------------
(* Handlers as a page sees them. *)

\* A step of the handler r other than taking a request.
Handles(r) ==
    \/ ReadRow(r) \/ Authorise(r) \/ FindParty(r) \/ LookAtGuest(r)
    \/ LoadRoom(r) \/ CheckSeats(r) \/ UpdateDebt(r) \/ UpdateGuest(r)

\* Why a handler refuses to move a debt.
Reason(req) ==
    \/ req.stage = "sent" /\ status[req.subject] = "none"
    \/ req.stage = "row" /\ req.kind \in Transitions /\ ~MayMove(req)
    \/ /\ req.stage = "row" /\ req.kind = "settle"
       /\ Owed[req.subject].from_player \notin identity_ids(req.actor)
       /\ Owed[req.subject].to_player \notin identity_ids(req.actor)
    \/ req.stage = "party" /\ ~(IsUnclaimedGuest(req.other) /\ req.seen # "approved")
    \/ req.stage = "checked" /\ ~StillAsRead(req)

(* A handler goes on with its request, refuses it for a reason, or has carried it out. *)
LEMMA HandlerGoesOn ==
    ASSUME IInv, NEW r \in Request, Handles(r)
    PROVE  /\ reqs[r].stage \in Under
           /\ \A q \in Request : q # r => reqs'[q] = reqs[q]
           /\ \/ /\ reqs'[r].stage \in Under
                 /\ reqs'[r].kind = reqs[r].kind /\ reqs'[r].actor = reqs[r].actor
                 /\ reqs'[r].subject = reqs[r].subject
              \/ reqs'[r].stage = "refused" /\ (reqs[r].kind # "claim" => Reason(reqs[r]))
              \/ /\ reqs'[r].stage = "ok"
                 /\ reqs[r].kind # "claim" => status'[reqs[r].subject] = new_status(reqs[r].kind)
<1> DEFINE req == reqs[r]
<1>1. /\ reqs \in [Request -> Requests] /\ req \in Requests /\ Knows(req)
      /\ status \in [Debt -> Statuses]
  BY DEF IInv, TypeOK
<1>2. \A x : Go(r, x) => /\ reqs'[r] = x
                         /\ \A q \in Request : q # r => reqs'[q] = reqs[q]
  BY <1>1 DEF Go
<1>3. \A stage : /\ [req EXCEPT !.stage = stage].stage = stage
                 /\ [req EXCEPT !.stage = stage].kind = req.kind
                 /\ [req EXCEPT !.stage = stage].actor = req.actor
                 /\ [req EXCEPT !.stage = stage].subject = req.subject
  BY <1>1 DEF Requests
<1>4. \A outcome : Answer(r, outcome) => /\ reqs'[r].stage = outcome
                                         /\ \A q \in Request : q # r => reqs'[q] = reqs[q]
  BY <1>2 DEF Answer, Blank
<1>5. \A stage : Proceed(r, stage) => /\ reqs'[r].stage = stage /\ reqs'[r].kind = req.kind
                                      /\ reqs'[r].actor = req.actor
                                      /\ reqs'[r].subject = req.subject
                                      /\ \A q \in Request : q # r => reqs'[q] = reqs[q]
  <2> SUFFICES ASSUME NEW stage, Proceed(r, stage)
               PROVE  /\ reqs'[r].stage = stage /\ reqs'[r].kind = req.kind
                      /\ reqs'[r].actor = req.actor /\ reqs'[r].subject = req.subject
                      /\ \A q \in Request : q # r => reqs'[q] = reqs[q]
    OBVIOUS
  <2>1. Go(r, [req EXCEPT !.stage = stage])
    BY DEF Proceed
  <2>2. /\ reqs'[r] = [req EXCEPT !.stage = stage]
        /\ \A q \in Request : q # r => reqs'[q] = reqs[q]
    BY <1>2, <2>1
  <2> QED
    BY <1>3, <2>2
<1> HIDE DEF req
<1>6. CASE ReadRow(r)
  <2>1. CASE req.kind = "claim"
    BY <1>4, <1>5, <1>6, <2>1 DEF ReadRow, Guarded, Under, req
  <2>2. CASE req.kind # "claim" /\ status[req.subject] = "none"
    BY <1>4, <1>6, <2>2 DEF ReadRow, Under, Reason, req
  <2>3. CASE req.kind # "claim" /\ status[req.subject] # "none"
    <3>1. Go(r, [req EXCEPT !.stage = "row", !.seen = status[req.subject]])
      BY <1>6, <2>3 DEF ReadRow, req
    <3>2. /\ reqs'[r] = [req EXCEPT !.stage = "row", !.seen = status[req.subject]]
          /\ \A q \in Request : q # r => reqs'[q] = reqs[q]
      BY <1>2, <3>1
    <3>3. /\ reqs'[r].stage = "row" /\ reqs'[r].kind = req.kind
          /\ reqs'[r].actor = req.actor /\ reqs'[r].subject = req.subject
      BY <1>1, <3>2 DEF Requests
    <3> QED
      BY <1>6, <3>2, <3>3 DEF ReadRow, Under, req
  <2> QED
    BY <2>1, <2>2, <2>3
<1>7. CASE Authorise(r)
  BY <1>4, <1>5, <1>7 DEF Authorise, Guarded, Under, Reason, req
<1>8. CASE FindParty(r)
  <2> DEFINE row == Owed[req.subject]
             ids == identity_ids(req.actor)
  <2>1. CASE row.from_player \in ids \/ row.to_player \in ids
    <3>1. PICK p : Go(r, [req EXCEPT !.stage = "party", !.other = p])
      BY <1>8, <2>1 DEF FindParty, req
    <3>2. /\ reqs'[r] = [req EXCEPT !.stage = "party", !.other = p]
          /\ \A q \in Request : q # r => reqs'[q] = reqs[q]
      BY <1>2, <3>1
    <3>3. /\ reqs'[r].stage = "party" /\ reqs'[r].kind = req.kind
          /\ reqs'[r].actor = req.actor /\ reqs'[r].subject = req.subject
      BY <1>1, <3>2 DEF Requests
    <3> QED
      BY <1>8, <3>2, <3>3 DEF FindParty, Under, req
  <2>2. CASE row.from_player \notin ids /\ row.to_player \notin ids
    BY <1>4, <1>8, <2>2 DEF FindParty, Under, Reason, req
  <2> QED
    BY <2>1, <2>2
<1>9. CASE LookAtGuest(r)
  BY <1>4, <1>5, <1>9 DEF LookAtGuest, Guarded, Under, Reason, req
<1>10. CASE LoadRoom(r)
  BY <1>4, <1>5, <1>10 DEF LoadRoom, Guarded, Under, req
<1>11. CASE CheckSeats(r)
  <2>1. req.kind = "claim"
    BY <1>1, <1>11 DEF CheckSeats, Knows, req
  <2> QED
    BY <1>4, <1>5, <1>11, <2>1 DEF CheckSeats, Guarded, Under, req
<1>12. CASE UpdateDebt(r)
  <2>1. req.subject \in Debt /\ req.stage = "checked" /\ req.kind # "claim"
    BY <1>1, <1>12 DEF UpdateDebt, Knows, Under, req
  <2>2. CASE StillAsRead(req)
    <3>1. status' = [status EXCEPT ![req.subject] = new_status(req.kind)] /\ Answer(r, "ok")
      BY <1>12, <2>2 DEF UpdateDebt, req
    <3> QED
      BY <1>1, <1>4, <2>1, <3>1 DEF Under, req
  <2>3. CASE ~StillAsRead(req)
    BY <1>4, <1>12, <2>1, <2>3 DEF UpdateDebt, Lost, Under, Reason, req
  <2> QED
    BY <2>2, <2>3
<1>13. CASE UpdateGuest(r)
  BY <1>4, <1>13 DEF UpdateGuest, Lost, Under, req
<1> QED
  BY <1>6, <1>7, <1>8, <1>9, <1>10, <1>11, <1>12, <1>13 DEF Handles

(* A request is taken by a handler that is free. *)
LEMMA HandlerTakes ==
    ASSUME IInv, NEW r \in Request, NEW kind, NEW a, NEW subject, Send(r, kind, a, subject)
    PROVE  /\ reqs[r].stage \notin Under
           /\ reqs'[r].stage = "sent" /\ reqs'[r].kind = kind /\ reqs'[r].actor = a
           /\ reqs'[r].subject = subject
           /\ \A q \in Request : q # r => reqs'[q] = reqs[q]
           /\ UNCHANGED <<ended, status, claimed_by>>
<1> DEFINE req == [Blank("sent") EXCEPT !.kind = kind, !.actor = a, !.subject = subject]
<1>1. reqs' = [reqs EXCEPT ![r] = req] /\ reqs \in [Request -> Requests]
  BY DEF Send, Go, IInv, TypeOK
<1>2. req.stage = "sent" /\ req.kind = kind /\ req.actor = a /\ req.subject = subject
  BY DEF Blank
<1> HIDE DEF req
<1> QED
  BY <1>1, <1>2 DEF Send

-----------------------------------------------------------------------------
(* The page implements its handlers. *)

(* Every step of the page is a step of the handlers or leaves them alone. *)
LEMMA PageStepIsStep ==
    ASSUME [PageNext]_pageVars
    PROVE  [Next]_vars
<1>1. CASE UNCHANGED pageVars
  BY <1>1 DEF pageVars, vars
<1>2. CASE PollServed \/ PollLands \/ PollFails \/ TimerFires
  BY <1>2 DEF PollServed, PollLands, PollFails, TimerFires, Handlers, vars
<1>3. ASSUME NEW r \in Request, NEW d \in Debt, NEW kind \in Transitions \cup {"settle"},
             Tap(r, d, kind)
      PROVE  Next
  <2>1. Me \in Account
    BY PageAssumption
  <2> QED
    BY <1>3, <2>1 DEF Tap, Next
<1>4. ASSUME NEW f \in flights, Answered(f) \/ GaveUp(f)
      PROVE  UNCHANGED vars
  BY <1>4 DEF Answered, GaveUp, Handlers, vars
<1>5. CASE Elsewhere
  BY <1>5 DEF Elsewhere, Next
<1> QED
  BY <1>1, <1>2, <1>3, <1>4, <1>5 DEF PageNext

(* Whatever holds of the handlers under any requests holds of them under this page
   (runAction calls them and nothing else). *)
THEOREM PageImplementsDebts == PageSpec => Spec
<1>1. PageInit => Init
  BY DEF PageInit
<1> QED
  BY <1>1, PageStepIsStep, PTL DEF PageSpec, Spec

-----------------------------------------------------------------------------
(* No debt is stuck. *)

(* An account that is a side of a debt is on one side of it, and whoever is on the
   other side is somebody else. *)
LEMMA OneSide ==
    ASSUME OnePersonOneSeat, NEW d \in Debt, NEW a \in Account,
           Owed[d].from_player \in identity_ids(a)
    PROVE  Owed[d].to_player \notin identity_ids(a)
<1>1. /\ Owed[d].room_id \in Game /\ Owed[d].from_player # Owed[d].to_player
      /\ Owed[d].from_player \in Players[Owed[d].room_id]
      /\ Owed[d].to_player \in Players[Owed[d].room_id]
  BY DebtsAssumption
<1> QED
  BY <1>1 DEF OnePersonOneSeat

(* Who a player is: an account, a guest whom nobody has claimed, or one who belongs to
   an account. *)
LEMMA WhoIsWho ==
    ASSUME TypeOK, NEW p \in Account \cup Guest
    PROVE  \/ counterparty_is_guest(p) /\ \A a \in Account : p \notin identity_ids(a)
           \/ ~counterparty_is_guest(p) /\ \E a \in Account : p \in identity_ids(a)
<1>1. claimed_by \in [Guest -> Account \cup {NoOne}] /\ Account \cap Guest = {}
      /\ NoOne \notin Account
  BY DebtsAssumption DEF TypeOK
<1>2. CASE p \in Account
  BY <1>1, <1>2 DEF counterparty_is_guest, identity_ids
<1>3. CASE p \in Guest /\ claimed_by[p] = NoOne
  BY <1>1, <1>3 DEF counterparty_is_guest, identity_ids
<1>4. CASE p \in Guest /\ claimed_by[p] # NoOne
  <2>1. claimed_by[p] \in Account
    BY <1>1, <1>4
  <2> QED
    BY <1>4, <2>1 DEF counterparty_is_guest, identity_ids
<1> QED
  BY <1>2, <1>3, <1>4

(* What an up-to-date page offers would be carried out. *)
LEMMA OffersWouldBeDone ==
    ASSUME NEW d \in Debt, NEW a \in Account, Involves(a, d),
           NEW kind \in Offers(DebtView(a, d))
    PROVE  WouldDo(a, d, kind)
<1> DEFINE from == Owed[d].from_player
           to == Owed[d].to_player
           row == DebtView(a, d)
<1>1. row = [tab |-> IF from \in identity_ids(a) THEN "owing" ELSE "owed",
             status |-> status[d],
             is_guest |-> counterparty_is_guest(IF from \in identity_ids(a) THEN to ELSE from)]
  BY DEF DebtView
<1>2. CASE from \in identity_ids(a)
  <2>1. row.tab = "owing" /\ row.status = status[d] /\ row.is_guest = counterparty_is_guest(to)
    BY <1>1, <1>2
  <2>2. kind \in OwingRow(row)
    BY <2>1 DEF Offers
  <2>3. CASE kind = "settle"
    BY <1>2, <2>1, <2>2, <2>3 DEF OwingRow, WouldDo, IsUnclaimedGuest, counterparty_is_guest
  <2>4. CASE kind # "settle"
    <3>1. kind = "mark_paid" /\ status[d] = "pending"
      BY <2>1, <2>2, <2>4 DEF OwingRow
    <3> QED
      BY <1>2, <3>1 DEF WouldDo, MayMove, authorized_column, expected_status
  <2> QED
    BY <2>3, <2>4
<1>3. CASE from \notin identity_ids(a)
  <2>1. row.tab = "owed" /\ row.status = status[d] /\ row.is_guest = counterparty_is_guest(from)
    BY <1>1, <1>3
  <2>2. kind \in OwedRow(row)
    BY <2>1 DEF Offers
  <2>3. CASE kind = "settle"
    BY <1>3, <2>1, <2>2, <2>3 DEF OwedRow, WouldDo, IsUnclaimedGuest, counterparty_is_guest
  <2>4. CASE kind # "settle"
    <3>1. kind \in {"approve", "reject"} /\ status[d] = "marked_paid"
      BY <2>1, <2>2, <2>4 DEF OwedRow
    <3>2. to \in identity_ids(a)
      BY <1>3 DEF Involves
    <3> QED
      BY <3>1, <3>2 DEF WouldDo, MayMove, authorized_column, expected_status
  <2> QED
    BY <2>3, <2>4
<1> QED
  BY <1>2, <1>3

(* Somebody's page offers a move. *)
LEMMA SomebodyCanMove ==
    ASSUME TypeOK, OnePersonOneSeat, NEW d \in Debt, status[d] \in {"pending", "marked_paid"},
           NEW b \in Account, Involves(b, d)
    PROVE  \E a \in Account : Involves(a, d) /\ Offers(DebtView(a, d)) # {}
<1> DEFINE from == Owed[d].from_player
           to == Owed[d].to_player
<1>1. from \in Account \cup Guest /\ to \in Account \cup Guest
  BY DebtsAssumption
<1>2. ASSUME NEW a \in Account, from \in identity_ids(a)
      PROVE  /\ Involves(a, d) /\ DebtView(a, d).tab = "owing"
             /\ DebtView(a, d).status = status[d]
             /\ DebtView(a, d).is_guest = counterparty_is_guest(to)
  BY <1>2 DEF Involves, DebtView
<1>3. ASSUME NEW a \in Account, from \notin identity_ids(a), to \in identity_ids(a)
      PROVE  /\ Involves(a, d) /\ DebtView(a, d).tab = "owed"
             /\ DebtView(a, d).status = status[d]
             /\ DebtView(a, d).is_guest = counterparty_is_guest(from)
  BY <1>3 DEF Involves, DebtView
<1>4. CASE counterparty_is_guest(to)
  <2>1. \A a \in Account : to \notin identity_ids(a)
    BY <1>1, <1>4, WhoIsWho
  <2>2. from \in identity_ids(b)
    BY <2>1 DEF Involves
  <2> QED
    BY <1>2, <1>4, <2>2 DEF Offers, OwingRow
<1>5. CASE ~counterparty_is_guest(to) /\ counterparty_is_guest(from)
  <2>1. PICK a \in Account : to \in identity_ids(a)
    BY <1>1, <1>5, WhoIsWho
  <2>2. from \notin identity_ids(a)
    BY <1>1, <1>5, WhoIsWho
  <2> QED
    BY <1>3, <1>5, <2>1, <2>2 DEF Offers, OwedRow
<1>6. CASE ~counterparty_is_guest(to) /\ ~counterparty_is_guest(from)
  <2>1. PICK a \in Account : from \in identity_ids(a)
    BY <1>1, <1>6, WhoIsWho
  <2>2. PICK c \in Account : to \in identity_ids(c)
    BY <1>1, <1>6, WhoIsWho
  <2>3. CASE status[d] = "pending"
    BY <1>2, <1>6, <2>1, <2>3 DEF Offers, OwingRow
  <2>4. CASE status[d] = "marked_paid"
    <3>1. from \notin identity_ids(c)
      BY <2>2, OneSide
    <3> QED
      BY <1>3, <1>6, <2>2, <2>4, <3>1 DEF Offers, OwedRow
  <2> QED
    BY <2>3, <2>4
<1> QED
  BY <1>4, <1>5, <1>6

(* No open debt is stuck: where an account has one claim under way at a time, some side's
   page offers a move on it, and what is offered would be carried out, before and after
   guests are claimed (OwingRow, OwedRow, _transition, settle).  With two claims at once a
   person may come to sit on both sides, and the debt is stuck when marked paid. *)
THEOREM NoDebtIsStuck ==
    ASSUME ~ClaimsOverlap
    PROVE  PageSpec => []EveryOpenDebtHasAMove
<1>1. ASSUME IInv PROVE EveryOpenDebtHasAMove
  <2>1. TypeOK /\ OnePersonOneSeat
    BY <1>1 DEF IInv
  <2> SUFFICES ASSUME NEW d \in Debt, status[d] \notin {"none", "approved"},
                      NEW b \in Account, Involves(b, d)
               PROVE  LET sides == {a \in Account : Involves(a, d)}
                          moves(a) == Offers(DebtView(a, d))
                      IN  /\ \E a \in sides : moves(a) # {}
                          /\ \A a \in sides : \A kind \in moves(a) : WouldDo(a, d, kind)
    BY DEF EveryOpenDebtHasAMove
  <2>2. status[d] \in {"pending", "marked_paid"}
    BY <2>1 DEF TypeOK, Statuses
  <2> QED
    BY <2>1, <2>2, SomebodyCanMove, OffersWouldBeDone
<1> QED
  BY <1>1, Inductive, PageImplementsDebts, PTL

-----------------------------------------------------------------------------
(* What the page knows. *)

Rows == [tab : {"owing", "owed"}, status : Statuses \ {"none"}, is_guest : BOOLEAN]

Lists == UNION {[S -> Rows] : S \in SUBSET Debt}

\* What is still true of a row, however old it is.
RowKnown(d, row) ==
    /\ row.tab = "owing" => Owed[d].from_player \in identity_ids(Me)
    /\ row.tab = "owed" => Owed[d].to_player \in identity_ids(Me)
    /\ row.status = "approved" => status[d] = "approved"

ListKnown(list) == list \in Lists /\ \A d \in DOMAIN list : RowKnown(d, list[d])

PollOK ==
    /\ poll.data # Nothing => ListKnown(poll.data)
    /\ poll.result # Nothing => ListKnown(poll.result)

\* A poll that will be painted knows of every settlement the page shows.
PollFresh ==
    poll.inFlight /\ ~poll.late /\ poll.result # Nothing /\ poll.data # Nothing =>
        \A d \in DOMAIN poll.data :
            poll.data[d].status = "approved" =>
                d \in DOMAIN poll.result /\ poll.result[d].status = "approved"

\* A move under way is the page's own request, tapped on a row that offered it.
FlightOK(f) ==
    /\ f.slot \in Request /\ f.debt \in Debt
    /\ f.saw \in Rows /\ f.kind \in Offers(f.saw) /\ RowKnown(f.debt, f.saw)
    /\ reqs[f.slot].stage \in Under \cup {"ok", "refused"}
    /\ reqs[f.slot].stage \in Under =>
        /\ reqs[f.slot].kind = f.kind /\ reqs[f.slot].subject = f.debt
        /\ reqs[f.slot].actor = Me
    /\ reqs[f.slot].stage = "ok" /\ new_status(f.kind) = "approved" => status[f.debt] = "approved"

PInv ==
    /\ IInv
    /\ poll \in [data : Lists \cup {Nothing}, inFlight : BOOLEAN, result : Lists \cup {Nothing},
                 late : BOOLEAN, timer : BOOLEAN, stopped : BOOLEAN]
    /\ PollOK /\ PollFresh
    /\ \A f \in flights : FlightOK(f)
    /\ \A f, g \in flights : f.slot = g.slot => f = g

(* What a row says stays true: claims and settlements are only added. *)
LEMMA RowLasts ==
    ASSUME IInv, [Next]_vars, NEW d \in Debt, NEW row, RowKnown(d, row)
    PROVE  RowKnown(d, row)'
<1>1. Final
  BY FinalStep
<1>2. Me \in Account /\ NoOne \notin Account
  BY PageAssumption, DebtsAssumption
<1>3. \A p : p \in identity_ids(Me) => p \in identity_ids(Me)'
  BY <1>1, <1>2 DEF Final, identity_ids
<1> QED
  BY <1>1, <1>3 DEF RowKnown, Final

LEMMA ListLasts ==
    ASSUME IInv, [Next]_vars, NEW list, ListKnown(list)
    PROVE  ListKnown(list)'
<1>1. list \in Lists /\ \A d \in DOMAIN list : d \in Debt /\ RowKnown(d, list[d])
  BY DEF ListKnown, Lists
<1>2. ASSUME NEW d \in DOMAIN list PROVE RowKnown(d, list[d])'
  <2>1. PICK row : row = list[d]
    OBVIOUS
  <2>2. RowKnown(d, row)'
    BY <1>1, <2>1, RowLasts
  <2> QED
    BY <2>1, <2>2
<1> QED
  BY <1>1, <1>2 DEF ListKnown

(* While the loop does nothing, what it holds stays good. *)
LEMMA PollLasts ==
    ASSUME IInv, [Next]_vars, PollOK, PollFresh, UNCHANGED poll
    PROVE  PollOK' /\ PollFresh'
<1>1. ASSUME NEW list, ListKnown(list) PROVE ListKnown(list)'
  BY <1>1, ListLasts
<1>2. PICK shown, coming : shown = poll.data /\ coming = poll.result
  OBVIOUS
<1>3. /\ shown # Nothing => ListKnown(shown)'
      /\ coming # Nothing => ListKnown(coming)'
  BY <1>1, <1>2 DEF PollOK
<1>4. poll'.data = shown /\ poll'.result = coming
  BY <1>2
<1>5. PollOK'
  BY <1>3, <1>4 DEF PollOK
<1>6. PollFresh'
  BY DEF PollFresh
<1> QED
  BY <1>5, <1>6

(* Which moves a row offers. *)
LEMMA WhatIsOffered ==
    ASSUME NEW row \in Rows, NEW kind \in Offers(row)
    PROVE  \/ kind = "settle" /\ row.is_guest /\ row.status # "approved"
           \/ kind = "mark_paid" /\ row.tab = "owing" /\ row.status = "pending"
           \/ kind \in {"approve", "reject"} /\ row.tab = "owed" /\ row.status = "marked_paid"
BY DEF Rows, Offers, OwingRow, OwedRow

(* What the API answers is true of the debts, and holds every settlement known before. *)
LEMMA ServedKnown ==
    ASSUME IInv
    PROVE  /\ ListKnown(build_debts_for(Me))
           /\ \A d \in Debt, row \in Rows :
                  RowKnown(d, row) /\ row.status = "approved" =>
                      /\ d \in DOMAIN build_debts_for(Me)
                      /\ build_debts_for(Me)[d].status = "approved"
<1> DEFINE list == build_debts_for(Me)
<1>1. status \in [Debt -> Statuses]
  BY DEF IInv, TypeOK
<1>2. /\ DOMAIN list = Listed(Me) /\ Listed(Me) \subseteq Debt
      /\ \A d \in Listed(Me) : list[d] = DebtView(Me, d)
      /\ list = [d \in Listed(Me) |-> DebtView(Me, d)]
  BY DEF build_debts_for, Listed
<1>3. ASSUME NEW d \in Listed(Me)
      PROVE  DebtView(Me, d) \in Rows /\ RowKnown(d, DebtView(Me, d))
  <2> DEFINE other == IF Owed[d].from_player \in identity_ids(Me)
                      THEN Owed[d].to_player ELSE Owed[d].from_player
             row == DebtView(Me, d)
  <2>1. status[d] \in Statuses \ {"none"} /\ Involves(Me, d)
    BY <1>1 DEF Listed
  <2>2. counterparty_is_guest(other) \in BOOLEAN
    BY DEF counterparty_is_guest
  <2>3. row = [tab |-> IF Owed[d].from_player \in identity_ids(Me) THEN "owing" ELSE "owed",
               status |-> status[d], is_guest |-> counterparty_is_guest(other)]
    BY DEF DebtView
  <2>4. row \in Rows
    BY <2>1, <2>2, <2>3 DEF Rows
  <2>5. RowKnown(d, row)
    BY <2>1, <2>3 DEF RowKnown, Involves
  <2> QED
    BY <2>4, <2>5
<1>4. list \in Lists
  <2>1. list \in [Listed(Me) -> Rows]
    BY <1>2, <1>3
  <2> QED
    BY <1>2, <2>1 DEF Lists
<1>5. ASSUME NEW d \in Debt, NEW row \in Rows, RowKnown(d, row), row.status = "approved"
      PROVE  d \in Listed(Me) /\ DebtView(Me, d).status = "approved"
  <2>1. status[d] = "approved"
    BY <1>5 DEF RowKnown
  <2>2. Involves(Me, d)
    BY <1>5 DEF RowKnown, Rows, Involves
  <2> QED
    BY <2>1, <2>2 DEF Listed, DebtView
<1> QED
  BY <1>2, <1>3, <1>4, <1>5 DEF ListKnown

(* The answer painted over a row says what the handler did. *)
LEMMA PatchedKnown ==
    ASSUME NEW list \in Lists, ListKnown(list), NEW f, FlightOK(f), reqs[f.slot].stage = "ok"
    PROVE  ListKnown(Patched(list, f))
<1>1. PICK S \in SUBSET Debt : list \in [S -> Rows]
  BY DEF Lists
<1>2. CASE ~(list # Nothing /\ f.debt \in DOMAIN list /\ list[f.debt].tab = f.saw.tab)
  BY <1>2 DEF Patched
<1>3. CASE list # Nothing /\ f.debt \in DOMAIN list /\ list[f.debt].tab = f.saw.tab
  <2> DEFINE row == [list[f.debt] EXCEPT !.status = new_status(f.kind)]
             painted == Patched(list, f)
  <2>1. painted = [list EXCEPT ![f.debt] = row]
    BY <1>3 DEF Patched
  <2>2. f.debt \in S /\ list[f.debt] \in Rows /\ RowKnown(f.debt, list[f.debt])
    BY <1>1, <1>3 DEF ListKnown
  <2>3. new_status(f.kind) \in Statuses \ {"none"}
    BY DEF new_status, Statuses
  <2>4. row \in Rows /\ row.tab = list[f.debt].tab /\ row.status = new_status(f.kind)
    BY <2>2, <2>3 DEF Rows
  <2>5. RowKnown(f.debt, row)
    BY <2>2, <2>4 DEF RowKnown, FlightOK
  <2> HIDE DEF row
  <2>6. painted \in [S -> Rows] /\ painted[f.debt] = row
        /\ \A d \in S : d # f.debt => painted[d] = list[d]
    BY <1>1, <2>1, <2>2, <2>4
  <2> HIDE DEF painted
  <2>7. painted \in Lists
    BY <2>6 DEF Lists
  <2>8. \A d \in DOMAIN painted : RowKnown(d, painted[d])
    BY <1>1, <2>5, <2>6 DEF ListKnown
  <2>9. ListKnown(painted)
    BY <2>7, <2>8 DEF ListKnown
  <2> QED
    BY <2>9 DEF painted
<1> QED
  BY <1>2, <1>3

(* A move stays the page's own while its handler, and nobody else, works on it. *)
LEMMA FlightLasts ==
    ASSUME IInv, [Next]_vars, NEW f, FlightOK(f),
           reqs'[f.slot] = reqs[f.slot] \/ Handles(f.slot)
    PROVE  FlightOK(f)'
<1>1. f.slot \in Request /\ f.debt \in Debt /\ RowKnown(f.debt, f.saw)
  BY DEF FlightOK
<1>2. RowKnown(f.debt, f.saw)' /\ Final
  BY <1>1, RowLasts, FinalStep
<1>3. CASE reqs'[f.slot] = reqs[f.slot]
  BY <1>2, <1>3 DEF FlightOK, Final
<1>4. CASE Handles(f.slot)
  <2> DEFINE old == reqs[f.slot]
             new == reqs'[f.slot]
  <2>1. /\ old.stage \in Under
        /\ \/ /\ new.stage \in Under /\ new.kind = old.kind /\ new.actor = old.actor
              /\ new.subject = old.subject
           \/ new.stage = "refused"
           \/ new.stage = "ok" /\ (old.kind # "claim" => status'[old.subject] = new_status(old.kind))
    BY <1>1, <1>4, HandlerGoesOn
  <2>2. f.kind \in Offers(f.saw) /\ f.saw \in Rows
    BY DEF FlightOK
  <2>3. f.kind # "claim"
    BY <2>2, WhatIsOffered
  <2>4. old.kind = f.kind /\ old.subject = f.debt /\ old.actor = Me
    BY <2>1 DEF FlightOK
  <2> HIDE DEF old, new
  <2>5. /\ new.stage \in Under \cup {"ok", "refused"}
        /\ new.stage \in Under => new.kind = f.kind /\ new.subject = f.debt /\ new.actor = Me
        /\ new.stage = "ok" /\ new_status(f.kind) = "approved" => status'[f.debt] = "approved"
    BY <2>1, <2>3, <2>4 DEF Under
  <2> QED
    BY <1>1, <1>2, <2>2, <2>5 DEF FlightOK, new
<1> QED
  BY <1>3, <1>4

\* A step of a handler, or a request taken by one that no move of the page is with.
Works ==
    \/ \E g \in Game : GameEnds(g)
    \/ \E r \in Request : Handles(r)
    \/ \E r \in Request : Idle(r) /\ \E kind, a, subject : Send(r, kind, a, subject)

(* What such a step does to the handler of a move. *)
LEMMA OnlyItsHandler ==
    ASSUME IInv, Works, NEW f \in flights, f.slot \in Request
    PROVE  reqs'[f.slot] = reqs[f.slot] \/ Handles(f.slot)
<1>1. CASE \E g \in Game : GameEnds(g)
  BY <1>1 DEF GameEnds
<1>2. ASSUME NEW r \in Request, Handles(r)
      PROVE  reqs'[f.slot] = reqs[f.slot] \/ Handles(f.slot)
  BY <1>2, HandlerGoesOn
<1>3. ASSUME NEW r \in Request, NEW kind, NEW a, NEW subject, Idle(r), Send(r, kind, a, subject)
      PROVE  reqs'[f.slot] = reqs[f.slot]
  <2>1. f.slot # r
    BY <1>3 DEF Idle, Free
  <2> QED
    BY <1>3, <2>1, HandlerTakes
<1> QED
  BY <1>1, <1>2, <1>3 DEF Works

LEMMA ElsewhereWorks == Elsewhere => Works
BY DEF Elsewhere, Works, Handles

LEMMA PageStarts == PageInit => PInv
<1> SUFFICES ASSUME PageInit PROVE PInv
  OBVIOUS
<1>1. IInv
  BY StartsSo DEF PageInit
<1> QED
  BY <1>1 DEF PageInit, PInv, PollOK, PollFresh, Mounted

LEMMA ElsewhereKeeps ==
    ASSUME PInv, Elsewhere
    PROVE  PInv'
<1>1. [Next]_vars
  BY PageStepIsStep DEF PageNext
<1>2. IInv'
  BY <1>1, StaysSo DEF PInv
<1>3. UNCHANGED <<poll, flights>>
  BY DEF Elsewhere
<1>4. PollOK' /\ PollFresh'
  BY <1>1, <1>3, PollLasts DEF PInv
<1>5. ASSUME NEW f \in flights PROVE FlightOK(f)'
  <2>1. FlightOK(f) /\ f.slot \in Request /\ IInv
    BY DEF PInv, FlightOK
  <2>2. reqs'[f.slot] = reqs[f.slot] \/ Handles(f.slot)
    BY <2>1, ElsewhereWorks, OnlyItsHandler
  <2> QED
    BY <1>1, <2>1, <2>2, FlightLasts
<1> QED
  BY <1>2, <1>3, <1>4, <1>5 DEF PInv

(* A step of the page that asks nothing of the API leaves what is known of the debts. *)
LEMMA PageStepKeeps ==
    ASSUME PInv, UNCHANGED Handlers, flights' \subseteq flights,
           poll' \in [data : Lists \cup {Nothing}, inFlight : BOOLEAN, result : Lists \cup {Nothing},
                      late : BOOLEAN, timer : BOOLEAN, stopped : BOOLEAN],
           poll'.data # Nothing => ListKnown(poll'.data),
           poll'.result # Nothing => ListKnown(poll'.result),
           PollFresh'
    PROVE  PInv'
<1>1. IInv'
  <2>1. [Next]_vars
    BY DEF Handlers, vars
  <2> QED
    BY <2>1, StaysSo DEF PInv
<1>2. status' = status /\ claimed_by' = claimed_by /\ reqs' = reqs
  BY DEF Handlers
<1>3. \A d, row : RowKnown(d, row) => RowKnown(d, row)'
  BY <1>2 DEF RowKnown, identity_ids
<1>4. PollOK'
  <2>1. PICK shown, coming : shown = poll'.data /\ coming = poll'.result
    OBVIOUS
  <2>2. \A list : ListKnown(list) => ListKnown(list)'
    BY <1>3 DEF ListKnown
  <2>3. (shown # Nothing => ListKnown(shown)') /\ (coming # Nothing => ListKnown(coming)')
    BY <2>1, <2>2
  <2> QED
    BY <2>1, <2>3 DEF PollOK
<1>5. ASSUME NEW f \in flights' PROVE FlightOK(f)'
  BY <1>2, <1>3 DEF PInv, FlightOK
<1> QED
  BY <1>1, <1>4, <1>5 DEF PInv

LEMMA PollServedKeeps ==
    ASSUME PInv, PollServed
    PROVE  PInv'
<1> DEFINE list == build_debts_for(Me)
<1>1. ListKnown(list) /\ list \in Lists
  BY ServedKnown DEF PInv, ListKnown
<1>2. poll' = [poll EXCEPT !.result = list] /\ UNCHANGED <<Handlers, flights>>
  BY DEF PollServed, Served
<1>3. /\ poll'.result = list /\ poll'.data = poll.data
      /\ poll' \in [data : Lists \cup {Nothing}, inFlight : BOOLEAN, result : Lists \cup {Nothing},
                    late : BOOLEAN, timer : BOOLEAN, stopped : BOOLEAN]
  BY <1>1, <1>2 DEF PInv
<1>4. ASSUME poll.data # Nothing, NEW d \in DOMAIN poll.data, poll.data[d].status = "approved"
      PROVE  d \in DOMAIN list /\ list[d].status = "approved"
  <2>1. ListKnown(poll.data)
    BY <1>4 DEF PInv, PollOK
  <2>2. d \in Debt /\ poll.data[d] \in Rows /\ RowKnown(d, poll.data[d])
    BY <2>1 DEF ListKnown, Lists
  <2> QED
    BY <1>4, <2>2, ServedKnown DEF PInv
<1> HIDE DEF list
<1>5. PollFresh'
  BY <1>3, <1>4 DEF PollFresh
<1>6. poll'.data # Nothing => ListKnown(poll'.data)
  BY <1>3 DEF PInv, PollOK
<1> QED
  BY <1>1, <1>2, <1>3, <1>5, <1>6, PageStepKeeps

LEMMA LoopKeeps ==
    ASSUME PInv, PollLands \/ PollFails \/ TimerFires
    PROVE  PInv'
<1>1. UNCHANGED <<Handlers, flights>>
  BY DEF PollLands, PollFails, TimerFires
<1>2. /\ poll' \in [data : Lists \cup {Nothing}, inFlight : BOOLEAN, result : Lists \cup {Nothing},
                    late : BOOLEAN, timer : BOOLEAN, stopped : BOOLEAN]
      /\ poll'.data \in {poll.data, poll.result} /\ poll'.result \in {poll.result, Nothing}
      /\ poll'.data = poll.result => poll.result # Nothing \/ poll.data = Nothing
      /\ poll'.inFlight => poll' = poll \/ poll'.result = Nothing
  BY DEF PInv, PollLands, PollFails, TimerFires, Landed, Failed, Returned, schedule, tick
<1>3. PollFresh'
  BY <1>2 DEF PInv, PollFresh
<1>4. /\ poll'.data # Nothing => ListKnown(poll'.data)
      /\ poll'.result # Nothing => ListKnown(poll'.result)
  BY <1>2 DEF PInv, PollOK
<1> QED
  BY <1>1, <1>2, <1>3, <1>4, PageStepKeeps

LEMMA AnsweredKeeps ==
    ASSUME PInv, NEW f \in flights, Answered(f) \/ GaveUp(f)
    PROVE  PInv'
<1>1. UNCHANGED Handlers /\ flights' \subseteq flights
  BY DEF Answered, GaveUp
<1>2. CASE UNCHANGED poll
  <2>1. PollFresh'
    BY <1>2 DEF PInv, PollFresh
  <2> QED
    BY <1>1, <1>2, <2>1, PageStepKeeps DEF PInv, PollOK
<1>3. CASE Answered(f) /\ reqs[f.slot].stage = "ok"
  <2> DEFINE list == Patched(poll.data, f)
  <2>1. list # Nothing => ListKnown(list)
    BY <1>3, PatchedKnown DEF PInv, PollOK, ListKnown, Patched
  <2>2. list \in Lists \cup {Nothing}
    BY <2>1 DEF ListKnown
  <2>3. poll' = refresh(setData(poll, list))
    BY <1>3 DEF Answered
  <2> HIDE DEF list
  <2>4. /\ poll' \in [data : Lists \cup {Nothing}, inFlight : BOOLEAN, result : Lists \cup {Nothing},
                      late : BOOLEAN, timer : BOOLEAN, stopped : BOOLEAN]
        /\ poll'.data = list /\ poll'.result \in {poll.result, Nothing}
        /\ poll'.inFlight => poll'.late \/ poll'.result = Nothing
    BY <2>2, <2>3 DEF PInv, refresh, setData, tick
  <2>5. PollFresh'
    BY <2>4 DEF PollFresh
  <2>6. poll'.result # Nothing => ListKnown(poll'.result)
    BY <2>4 DEF PInv, PollOK
  <2> QED
    BY <1>1, <2>1, <2>4, <2>5, <2>6, PageStepKeeps
<1> QED
  BY <1>2, <1>3 DEF Answered, GaveUp

LEMMA TapKeeps ==
    ASSUME PInv, NEW r \in Request, NEW d \in Debt, NEW kind \in Transitions \cup {"settle"},
           Tap(r, d, kind)
    PROVE  PInv'
<1> DEFINE row == poll.data[d]
           move == [slot |-> r, debt |-> d, kind |-> kind, saw |-> row]
<1>1. Me \in Account
  BY PageAssumption
<1>2. [Next]_vars
  BY <1>1 DEF Tap, Next
<1>3. IInv /\ IInv'
  BY <1>2, StaysSo DEF PInv
<1>4. Idle(r) /\ Send(r, kind, Me, d) /\ flights' = flights \cup {move} /\ poll' = poll
  BY DEF Tap
<1>5. PollOK' /\ PollFresh'
  BY <1>2, <1>3, <1>4, PollLasts DEF PInv
<1>6. /\ reqs'[r].stage = "sent" /\ reqs'[r].kind = kind /\ reqs'[r].actor = Me
      /\ reqs'[r].subject = d
      /\ \A q \in Request : q # r => reqs'[q] = reqs[q]
      /\ UNCHANGED <<status, claimed_by>>
  BY <1>3, <1>4, HandlerTakes
<1>7. ASSUME NEW f \in flights PROVE FlightOK(f)' /\ f.slot # r
  <2>1. f.slot # r /\ f.slot \in Request /\ FlightOK(f)
    BY <1>4 DEF Idle, Free, PInv, FlightOK
  <2> QED
    BY <1>2, <1>3, <1>6, <2>1, FlightLasts
<1>8. PICK saw : saw = row
  OBVIOUS
<1>9. saw \in Rows /\ kind \in Offers(saw) /\ RowKnown(d, saw)
  BY <1>8 DEF Tap, PInv, PollOK, ListKnown, Lists
<1>10. RowKnown(d, saw)'
  BY <1>2, <1>3, <1>9, RowLasts
<1>11. PICK f : f = move
  OBVIOUS
<1>12. f.slot = r /\ f.debt = d /\ f.kind = kind /\ f.saw = saw
  BY <1>8, <1>11
<1>13. FlightOK(f)'
  BY <1>6, <1>9, <1>10, <1>12 DEF FlightOK, Under
<1>14. flights' = flights \cup {f}
  BY <1>4, <1>11
<1> HIDE DEF move, row
<1>15. \A g \in flights' : FlightOK(g)'
  BY <1>7, <1>13, <1>14
<1>16. \A g, h \in flights' : g.slot = h.slot => g = h
  BY <1>7, <1>12, <1>14 DEF PInv
<1> QED
  BY <1>3, <1>4, <1>5, <1>15, <1>16 DEF PInv

LEMMA PageKeeps == PInv /\ [PageNext]_pageVars => PInv'
<1> SUFFICES ASSUME PInv, [PageNext]_pageVars PROVE PInv'
  OBVIOUS
<1>1. CASE UNCHANGED pageVars
  <2>1. UNCHANGED Handlers /\ UNCHANGED <<poll, flights>>
    BY <1>1 DEF pageVars, Handlers
  <2> QED
    BY <2>1, PageStepKeeps DEF PInv, PollOK, PollFresh
<1> QED
  BY <1>1, PollServedKeeps, LoopKeeps, TapKeeps, AnsweredKeeps, ElsewhereKeeps DEF PageNext

(* What the page shows and has asked for is what it was told, or has become known. *)
THEOREM PageKnows == PageSpec => []PInv
<1> QED
  BY PageStarts, PageKeeps, PTL DEF PageSpec

(* A landed poll that is painted holds every settlement the page shows, because one that
   set off before the page learnt of a settlement is not painted (usePolling). *)
THEOREM SettledStaysSettled == PageSpec => PollsNeverReopen
<1>1. ASSUME PInv, PollLands, poll.data # Nothing, NEW d \in DOMAIN poll.data,
             poll.data[d].status = "approved"
      PROVE  d \in DOMAIN poll'.data /\ poll'.data[d].status = "approved"
  <2>1. /\ poll.inFlight /\ poll.result # Nothing
        /\ poll'.data = IF poll.late THEN poll.data ELSE poll.result
    BY <1>1 DEF PollLands, Landed, Returned, schedule, PInv
  <2> QED
    BY <1>1, <2>1 DEF PInv, PollFresh
<1> DEFINE Kept == PollLands /\ poll.data # Nothing =>
                       \A d \in DOMAIN poll.data :
                           poll.data[d].status = "approved" =>
                               d \in DOMAIN poll'.data /\ poll'.data[d].status = "approved"
<1>2. PInv /\ [PageNext]_pageVars => Kept
  BY <1>1
<1> QED
  BY <1>2, PageKnows, PTL DEF PageSpec, PollsNeverReopen

(* Where a handler refuses a move of the page, the page was not up to date. *)
LEMMA RefusalIsNews ==
    ASSUME PInv, NEW f \in flights, reqs[f.slot].stage \in Under, Reason(reqs[f.slot])
    PROVE  \/ reqs[f.slot].stage # "sent" /\ reqs[f.slot].seen # f.saw.status
           \/ status[f.debt] # f.saw.status
           \/ f.saw.is_guest /\ ~DebtView(Me, f.debt).is_guest
<1> DEFINE req == reqs[f.slot]
           from == Owed[f.debt].from_player
           to == Owed[f.debt].to_player
           mine == identity_ids(Me)
<1>1. /\ FlightOK(f) /\ f.slot \in Request /\ Knows(req)
      /\ req.kind = f.kind /\ req.subject = f.debt /\ req.actor = Me
      /\ f.saw \in Rows /\ f.kind \in Offers(f.saw)
      /\ f.saw.tab = "owing" => from \in mine
      /\ f.saw.tab = "owed" => to \in mine
  BY DEF PInv, IInv, FlightOK, RowKnown
<1>2. \/ f.kind = "settle" /\ f.saw.is_guest /\ f.saw.status # "approved"
      \/ f.kind = "mark_paid" /\ f.saw.tab = "owing" /\ f.saw.status = "pending"
      \/ f.kind \in {"approve", "reject"} /\ f.saw.tab = "owed" /\ f.saw.status = "marked_paid"
  BY <1>1, WhatIsOffered
<1>3. from \in mine \/ to \in mine
  BY <1>1 DEF Rows
<1>4. f.saw.status # "none"
  BY <1>1 DEF Rows
<1>5. CASE req.stage = "sent" /\ status[req.subject] = "none"
  BY <1>1, <1>4, <1>5
<1>6. CASE req.stage = "row" /\ req.kind \in Transitions /\ ~MayMove(req)
  <2>1. Owed[req.subject][authorized_column(req.kind)] \in identity_ids(req.actor)
    BY <1>1, <1>2, <1>6 DEF authorized_column, Transitions
  <2>2. req.seen # expected_status(req.kind)
    BY <1>6, <2>1 DEF MayMove
  <2>3. f.saw.status = expected_status(req.kind)
    BY <1>1, <1>2, <1>6 DEF expected_status, Transitions
  <2> QED
    BY <1>6, <2>2, <2>3
<1>7. CASE /\ req.stage = "row" /\ req.kind = "settle"
           /\ Owed[req.subject].from_player \notin identity_ids(req.actor)
           /\ Owed[req.subject].to_player \notin identity_ids(req.actor)
  BY <1>1, <1>3, <1>7
<1>8. CASE req.stage = "party" /\ ~(IsUnclaimedGuest(req.other) /\ req.seen # "approved")
  <2>1. f.saw.is_guest /\ f.saw.status # "approved" /\ Sides(req)
    BY <1>1, <1>2, <1>8 DEF Knows
  <2>2. CASE req.seen = "approved"
    BY <1>8, <2>1, <2>2
  <2>3. CASE ~IsUnclaimedGuest(req.other)
    <3>1. \/ from \in mine /\ ~counterparty_is_guest(to)
          \/ to \in mine /\ ~counterparty_is_guest(from)
      BY <1>1, <2>1, <2>3 DEF Sides, IsUnclaimedGuest, counterparty_is_guest
    <3>2. \A p : p \in mine => ~counterparty_is_guest(p)
      <4>1. Me \in Account /\ Account \cap Guest = {} /\ NoOne \notin Account
        BY PageAssumption, DebtsAssumption
      <4> QED
        BY <4>1 DEF counterparty_is_guest, identity_ids
    <3>3. ~counterparty_is_guest(IF from \in mine THEN to ELSE from)
      BY <3>1, <3>2
    <3> QED
      BY <2>1, <3>3 DEF DebtView
  <2> QED
    BY <1>8, <2>2, <2>3
<1>9. CASE req.stage = "checked" /\ ~StillAsRead(req)
  BY <1>1, <1>9 DEF StillAsRead
<1> QED
  BY <1>5, <1>6, <1>7, <1>8, <1>9 DEF Reason

(* Page and API never disagree on who may do what: whatever button of any page is refused,
   the debt has moved or its guest has been claimed since the page showed it. *)
THEOREM RefusedOnlyForNews == PageSpec => OnlyNewsRefuses
<1> DEFINE News(f) ==
               LET req == reqs[f.slot]
               IN  req.stage \in Under /\ reqs'[f.slot].stage = "refused" =>
                       \/ req.stage # "sent" /\ req.seen # f.saw.status
                       \/ status[f.debt] # f.saw.status
                       \/ f.saw.is_guest /\ ~DebtView(Me, f.debt).is_guest
<1>1. ASSUME PInv, [PageNext]_pageVars, NEW f \in flights
      PROVE  News(f)
  <2>1. f.slot \in Request /\ IInv
    BY <1>1 DEF PInv, FlightOK
  <2>2. CASE reqs'[f.slot] = reqs[f.slot]
    BY <2>2 DEF Under
  <2>3. CASE Handles(f.slot)
    <3>1. f.kind # "claim"
      BY <1>1, WhatIsOffered DEF PInv, FlightOK
    <3>2. reqs[f.slot].kind # "claim" \/ reqs[f.slot].stage \notin Under
      BY <1>1, <3>1 DEF PInv, FlightOK
    <3>3. reqs[f.slot].stage \in Under /\ reqs'[f.slot].stage = "refused" => Reason(reqs[f.slot])
      BY <2>1, <2>3, <3>2, HandlerGoesOn DEF Under
    <3> QED
      BY <1>1, <3>3, RefusalIsNews
  <2>4. CASE Elsewhere
    BY <2>1, <2>2, <2>3, <2>4, ElsewhereWorks, OnlyItsHandler
  <2>5. ASSUME NEW r \in Request, NEW d \in Debt, NEW kind \in Transitions \cup {"settle"},
               Tap(r, d, kind)
        PROVE  News(f)
    <3>1. Works
      BY <2>5 DEF Tap, Works
    <3> QED
      BY <2>1, <2>2, <2>3, <3>1, OnlyItsHandler
  <2>6. CASE UNCHANGED pageVars
    BY <2>2, <2>6 DEF pageVars
  <2>7. CASE \/ PollServed \/ PollLands \/ PollFails \/ TimerFires
             \/ \E g \in flights : Answered(g) \/ GaveUp(g)
    BY <2>2, <2>7 DEF PollServed, PollLands, PollFails, TimerFires, Answered, GaveUp, Handlers
  <2> QED
    BY <1>1, <2>4, <2>5, <2>6, <2>7 DEF PageNext
<1> DEFINE AllNews == \A f \in flights : News(f)
<1>2. PInv /\ [PageNext]_pageVars => AllNews
  BY <1>1
<1> QED
  BY <1>2, PageKnows, PTL DEF PageSpec, OnlyNewsRefuses

=============================================================================
