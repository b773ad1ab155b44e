----------------------------- MODULE FriendsProofs -----------------------------
(***************************************************************************)
(* Proofs about friend requests: nobody becomes a friend without having    *)
(* tapped for it, and people who have both asked are friends, for any      *)
(* number of people, taps and calls under way.  And about groups: a group  *)
(* keeps an owner among its members.                                       *)
(*                                                                         *)
(* The first two rest on what the copies of rows are worth that pages and  *)
(* calls hold: the row may be gone, but its number never comes to mean a   *)
(* different request.  The last rests on what a request has read of the    *)
(* group before it writes, which stands until another request overlaps it. *)
(***************************************************************************)
EXTENDS Friends, Groups, Sums

Edge == [id : Nat, requester : Account, addressee : Account, status : {"pending", "accepted"}]

Calls ==
    [user : Account, op : {"add", "accept", "dismiss", "remove"}, target : Account, id : Nat,
     stage : {"sent", "read", "ok", "refused"}, found : SUBSET Edge, retry : BOOLEAN,
     heard : BOOLEAN, results : SUBSET Account, list : (SUBSET Edge) \cup {Unread},
     suggestions : (SUBSET Account) \cup {Unread}, no : Nat]

Page ==
    [data : SUBSET Edge, suggestions : SUBSET Account, results : SUBSET Account,
     busy : Account \cup {Nobody} \cup Nat]

Typed ==
    /\ edges \subseteq Edge /\ calls \subseteq Calls /\ page \in [Account -> Page]
    /\ presses \in Nat /\ wanted \subseteq Account \X Account /\ added \subseteq Account \X Account

-----------------------------------------------------------------------------
(* What a copy of a row is worth. *)

MayInsert(c) == c.op = "add" /\ c.stage \in {"sent", "read"}

\* No row will ever be given number i again.
Taken(i, cs, n) == i <= n /\ \A c \in cs : MayInsert(c) => c.no # i

Fits(i, p, q, rows) == \A e \in rows : e.id = i => e.requester = p /\ e.addressee = q

Known(r, rows, cs, n) ==
    /\ r \in Edge /\ r.requester # r.addressee
    /\ Taken(r.id, cs, n) /\ Fits(r.id, r.requester, r.addressee, rows)

\* Rows are removed, accepted, or inserted for a call; calls get on.
Later(rows, cs, n, rows2, cs2, n2) ==
    /\ \A e \in rows2 :
        \/ \E d \in rows : d.id = e.id /\ d.requester = e.requester /\ d.addressee = e.addressee
        \/ \E c \in cs : MayInsert(c) /\ c.no = e.id
    /\ \A d \in cs2 : MayInsert(d) => \/ d.no > n
                                      \/ \E c \in cs : MayInsert(c) /\ c.no = d.no
    /\ n <= n2

LEMMA TakenLater ==
    ASSUME NEW i \in Nat, NEW cs, NEW n \in Nat, NEW cs2 \in SUBSET Calls, NEW n2 \in Nat,
           NEW rows, NEW rows2, Later(rows, cs, n, rows2, cs2, n2), Taken(i, cs, n)
    PROVE  Taken(i, cs2, n2)
  BY DEF Taken, Later, Calls

LEMMA FitsLater ==
    ASSUME NEW i, NEW p, NEW q, NEW cs, NEW n, NEW cs2, NEW n2, NEW rows, NEW rows2,
           Later(rows, cs, n, rows2, cs2, n2), Taken(i, cs, n), Fits(i, p, q, rows)
    PROVE  Fits(i, p, q, rows2)
  BY DEF Taken, Later, Fits

LEMMA KnownLater ==
    ASSUME NEW r, NEW cs, NEW n \in Nat, NEW cs2 \in SUBSET Calls, NEW n2 \in Nat,
           NEW rows, NEW rows2, Later(rows, cs, n, rows2, cs2, n2), Known(r, rows, cs, n)
    PROVE  Known(r, rows2, cs2, n2)
<1>1. r.id \in Nat
  BY DEF Known, Edge
<1> QED
  BY <1>1, TakenLater, FitsLater DEF Known

-----------------------------------------------------------------------------
(* The invariant. *)

RowsRight ==
    /\ \A e \in edges : Known(e, edges, calls, presses)
    /\ \A d, e \in edges : {d.requester, d.addressee} = {e.requester, e.addressee} => d = e

CallRight(c, rows, cs, n) ==
    /\ c.no <= n
    /\ c.op = "add" => c.user # c.target
    /\ c.list # Unread => \A r \in c.list : Known(r, rows, cs, n)
    /\ c.op = "accept" => Taken(c.id, cs, n) /\ Fits(c.id, c.target, c.user, rows)
    /\ \A r \in c.found : /\ Known(r, rows, cs, n)
                          /\ c.op = "add" => r.requester = c.target /\ r.addressee = c.user
    /\ c.user \notin c.results \cup c.suggestions

CallsRight ==
    /\ \A c \in calls : CallRight(c, edges, calls, presses)
    /\ \A c, d \in calls : c.no = d.no => c = d

PagesRight ==
    \A p \in Account :
        /\ \A r \in page[p].data : Known(r, edges, calls, presses)
        /\ p \notin page[p].results \cup page[p].suggestions

Awaited == \A c \in calls : c.op \in {"add", "accept"} => <<c.user, c.target>> \in wanted

Asked ==
    \A p, q \in Account :
        <<p, q>> \in added => \E e \in Between(p, q) : e.requester = p \/ e.status = "accepted"

IInv == Typed /\ RowsRight /\ CallsRight /\ PagesRight /\ Awaited /\ OnlyByConsent /\ Asked

-----------------------------------------------------------------------------
(* A call that gets on. *)

GetsOn(c, d) ==
    /\ d \in Calls
    /\ d.user = c.user /\ d.op = c.op /\ d.target = c.target /\ d.id = c.id /\ d.no = c.no
    /\ MayInsert(d) => MayInsert(c)
    /\ d.results \subseteq c.results
    /\ d.suggestions = c.suggestions \/ c.user \notin d.suggestions
    /\ d.list = c.list \/ d.list \subseteq edges
    /\ \/ d.found \subseteq c.found
       \/ /\ d.found \subseteq edges
          /\ c.op = "add" => \A r \in d.found : r.requester = c.target /\ r.addressee = c.user

Turned(c, S) ==
    /\ calls' = (calls \ {c}) \cup S
    /\ \A d \in S : GetsOn(c, d)
    /\ \A d, e \in S : d = e

\* What a step may do to the rows, as far as their copies are concerned.
RowsKept ==
    \A e \in edges' :
        \/ \E d \in edges : d.id = e.id /\ d.requester = e.requester /\ d.addressee = e.addressee
        \/ \E c \in calls : MayInsert(c) /\ c.no = e.id

LEMMA TurnedLater ==
    ASSUME IInv, NEW c \in calls, NEW S, Turned(c, S), RowsKept, presses' = presses
    PROVE  calls' \in SUBSET Calls /\ Later(edges, calls, presses, edges', calls', presses')
  BY DEF IInv, Typed, Turned, GetsOn, RowsKept, Later

LEMMA CallLater ==
    ASSUME IInv, calls' \in SUBSET Calls, presses' \in Nat, NEW d \in calls,
           Later(edges, calls, presses, edges', calls', presses')
    PROVE  CallRight(d, edges', calls', presses')
<1> DEFINE K(r) == Known(r, edges, calls, presses)
           K2(r) == Known(r, edges', calls', presses')
<1>1. \A r : K(r) => K2(r)
  BY KnownLater DEF IInv, Typed
<1>2. d \in Calls /\ presses \in Nat /\ CallRight(d, edges, calls, presses)
  BY DEF IInv, Typed, CallsRight
<1>3. d.id \in Nat
  BY <1>2 DEF Calls
<1>4. Taken(d.id, calls, presses) => Taken(d.id, calls', presses')
  BY <1>2, <1>3, TakenLater
<1>5. Taken(d.id, calls, presses) /\ Fits(d.id, d.target, d.user, edges)
            => Fits(d.id, d.target, d.user, edges')
  BY <1>2, FitsLater
<1>6. d.no <= presses'
  BY <1>2 DEF CallRight, Later, Calls
<1> QED
  BY <1>1, <1>2, <1>4, <1>5, <1>6 DEF CallRight

LEMMA TurnedRight ==
    ASSUME IInv, NEW c \in calls, NEW S, Turned(c, S), RowsKept, presses' = presses
    PROVE  CallsRight'
<1> DEFINE K2(r) == Known(r, edges', calls', presses')
<1>1. /\ calls' \in SUBSET Calls /\ presses \in Nat
      /\ Later(edges, calls, presses, edges', calls', presses')
  BY TurnedLater DEF IInv, Typed
<1>2. \A d \in calls : CallRight(d, edges', calls', presses')
  BY <1>1, CallLater
<1>3. \A r \in edges : K2(r)
  BY <1>1, KnownLater DEF IInv, Typed, RowsRight
<1>4. \A d \in S : CallRight(d, edges', calls', presses')
  <2> SUFFICES ASSUME NEW d \in S PROVE CallRight(d, edges', calls', presses')
    OBVIOUS
  <2>1. GetsOn(c, d)
    BY DEF Turned
  <2>2. CallRight(c, edges, calls, presses) /\ CallRight(c, edges', calls', presses')
    BY <1>2 DEF IInv, CallsRight
  <2>3. d.list # Unread => \A r \in d.list : K2(r)
    BY <1>3, <2>1, <2>2 DEF GetsOn, CallRight
  <2>4. \A r \in d.found : K2(r) /\ (d.op = "add" => r.requester = d.target /\ r.addressee = d.user)
    BY <1>3, <2>1, <2>2 DEF GetsOn, CallRight
  <2>5. d.user \notin d.results \cup d.suggestions
    BY <2>1, <2>2 DEF GetsOn, CallRight
  <2> QED
    BY <2>1, <2>2, <2>3, <2>4, <2>5 DEF GetsOn, CallRight
<1>5. \A d, e \in calls' : d.no = e.no => d = e
  BY DEF IInv, CallsRight, Turned, GetsOn
<1> QED
  BY <1>2, <1>4, <1>5 DEF CallsRight, Turned

LEMMA PagesLater ==
    ASSUME IInv, calls' \in SUBSET Calls, presses' \in Nat, UNCHANGED page,
           Later(edges, calls, presses, edges', calls', presses')
    PROVE  PagesRight'
<1> DEFINE K(r) == Known(r, edges, calls, presses)
           K2(r) == Known(r, edges', calls', presses')
<1>1. \A r : K(r) => K2(r)
  BY KnownLater DEF IInv, Typed
<1> QED
  BY <1>1 DEF IInv, PagesRight

LEMMA AwaitedTurned ==
    ASSUME IInv, NEW c \in calls, NEW S, Turned(c, S),
           \A d \in calls : d.op \in {"add", "accept"} /\ <<d.user, d.target>> \in wanted =>
                                <<d.user, d.target>> \in wanted'
    PROVE  Awaited'
  BY DEF IInv, Awaited, Turned, GetsOn

\* Steps that read, answer or give up.
LEMMA OnlyTheCall ==
    ASSUME IInv, NEW c \in calls, NEW S, Turned(c, S),
           UNCHANGED <<edges, page, presses, wanted, added>>
    PROVE  IInv'
<1>1. RowsKept
  BY DEF RowsKept
<1>2. calls' \in SUBSET Calls /\ Later(edges, calls, presses, edges', calls', presses')
  BY <1>1, TurnedLater
<1>3. CallsRight'
  BY <1>1, TurnedRight
<1>4. PagesRight'
  BY <1>2, PagesLater DEF IInv, Typed
<1>5. Awaited'
  BY AwaitedTurned
<1>6. RowsRight'
  <2> DEFINE K(r) == Known(r, edges, calls, presses)
             K2(r) == Known(r, edges', calls', presses')
  <2>1. \A r : K(r) => K2(r)
    BY <1>2, KnownLater DEF IInv, Typed
  <2> QED
    BY <2>1 DEF IInv, RowsRight
<1>7. Typed' /\ OnlyByConsent' /\ Asked'
  BY <1>2 DEF IInv, Typed, OnlyByConsent, Asked, Between
<1> QED
  BY <1>3, <1>4, <1>5, <1>6, <1>7 DEF IInv

\* Rows of people who tapped for each other are accepted.
LEMMA RowsAccepted ==
    ASSUME IInv, NEW c \in calls, NEW S, Turned(c, S), NEW rows \in SUBSET edges,
           edges' = Accepted(rows), UNCHANGED <<page, presses, wanted>>,
           \A r \in rows : <<r.addressee, r.requester>> \in wanted,
           added' \in SUBSET (Account \X Account),
           \A w \in added' : \/ w \in added
                             \/ \E r \in rows : {r.requester, r.addressee} = {w[1], w[2]}
    PROVE  IInv'
<1>1. \A r \in Edge : LET a == [r EXCEPT !.status = "accepted"]
                      IN  /\ a \in Edge /\ a.id = r.id /\ a.requester = r.requester
                          /\ a.addressee = r.addressee /\ a.status = "accepted"
  BY DEF Edge
<1>2. edges \subseteq Edge
  BY DEF IInv, Typed
<1>3. \A e \in edges' : /\ e \in Edge
                        /\ \/ e \in edges \ rows
                           \/ \E r \in rows : /\ e = [r EXCEPT !.status = "accepted"]
                                              /\ r.id = e.id /\ r.requester = e.requester
                                              /\ r.addressee = e.addressee
  <2> SUFFICES ASSUME NEW e \in edges', e \notin edges \ rows
               PROVE  /\ e \in Edge
                      /\ \E r \in rows : /\ e = [r EXCEPT !.status = "accepted"]
                                         /\ r.id = e.id /\ r.requester = e.requester
                                         /\ r.addressee = e.addressee
    BY <1>2
  <2>1. PICK r \in rows : e = [r EXCEPT !.status = "accepted"]
    BY DEF Accepted
  <2>2. r \in Edge
    BY <1>2
  <2>3. e \in Edge /\ r.id = e.id /\ r.requester = e.requester /\ r.addressee = e.addressee
    BY <1>1, <2>1, <2>2
  <2> QED
    BY <2>1, <2>3
<1>4. RowsKept
  BY <1>3 DEF RowsKept
<1>5. calls' \in SUBSET Calls /\ Later(edges, calls, presses, edges', calls', presses')
  BY <1>4, TurnedLater
<1>6. CallsRight'
  BY <1>4, TurnedRight
<1>7. PagesRight'
  BY <1>5, PagesLater DEF IInv, Typed
<1>8. Awaited'
  BY AwaitedTurned
<1>9. RowsRight'
  <2> DEFINE K(r) == Known(r, edges, calls, presses)
             K2(r) == Known(r, edges', calls', presses')
  <2>1. \A r : K(r) => K2(r)
    BY <1>5, KnownLater DEF IInv, Typed
  <2>2. \A e \in edges' : K2(e)
    <3> SUFFICES ASSUME NEW e \in edges' PROVE K2(e)
      OBVIOUS
    <3>1. CASE e \in edges
      BY <2>1, <3>1 DEF IInv, RowsRight
    <3>2. CASE \E r \in rows : r.id = e.id /\ r.requester = e.requester /\ r.addressee = e.addressee
      <4>1. PICK r \in rows : r.id = e.id /\ r.requester = e.requester /\ r.addressee = e.addressee
        BY <3>2
      <4>2. K2(r)
        BY <2>1 DEF IInv, RowsRight
      <4> QED
        BY <1>3, <4>1, <4>2 DEF Known
    <3> QED
      BY <1>3, <3>1, <3>2
  <2>3. \A d, e \in edges' : {d.requester, d.addressee} = {e.requester, e.addressee} => d = e
    BY <1>3 DEF IInv, RowsRight
  <2> QED
    BY <2>2, <2>3 DEF RowsRight
<1>10. OnlyByConsent'
  BY <1>3 DEF IInv, OnlyByConsent
<1>11. Asked'
  <2> SUFFICES ASSUME NEW p \in Account, NEW q \in Account, <<p, q>> \in added'
               PROVE  \E e \in edges' : /\ {e.requester, e.addressee} = {p, q}
                                        /\ e.requester = p \/ e.status = "accepted"
    BY DEF Asked, Between
  <2>1. CASE \E r \in rows : {r.requester, r.addressee} = {p, q}
    <3>1. PICK r \in rows : {r.requester, r.addressee} = {p, q}
      BY <2>1
    <3>2. [r EXCEPT !.status = "accepted"] \in edges'
      BY DEF Accepted
    <3> QED
      BY <1>1, <1>2, <3>1, <3>2
  <2>2. CASE /\ <<p, q>> \in added /\ ~\E r \in rows : {r.requester, r.addressee} = {p, q}
    <3>1. PICK e \in edges : /\ {e.requester, e.addressee} = {p, q}
                             /\ e.requester = p \/ e.status = "accepted"
      BY <2>2 DEF IInv, Asked, Between
    <3>2. e \in edges'
      BY <2>2, <3>1 DEF Accepted
    <3> QED
      BY <3>1, <3>2
  <2> QED
    BY <2>1, <2>2
<1>12. Typed'
  BY <1>3, <1>5 DEF IInv, Typed
<1> QED
  BY <1>6, <1>7, <1>8, <1>9, <1>10, <1>11, <1>12 DEF IInv

\* Rows are removed, and with them what was tapped and asked for.
LEMMA RowsDropped ==
    ASSUME IInv, NEW c \in calls, NEW S, Turned(c, S), NEW rows \in SUBSET edges,
           Dropped(rows), UNCHANGED <<page, presses>>
    PROVE  IInv'
<1>1. edges' = edges \ rows /\ wanted' \subseteq wanted /\ added' \subseteq added
  BY DEF Dropped
<1>2. RowsKept
  BY <1>1 DEF RowsKept
<1>3. calls' \in SUBSET Calls /\ Later(edges, calls, presses, edges', calls', presses')
  BY <1>2, TurnedLater
<1>4. CallsRight'
  BY <1>2, TurnedRight
<1>5. PagesRight'
  BY <1>3, PagesLater DEF IInv, Typed
<1>6. Awaited'
  <2>1. ASSUME NEW d \in calls, d.op \in {"add", "accept"}, <<d.user, d.target>> \in wanted
        PROVE  <<d.user, d.target>> \in wanted'
    BY <2>1 DEF Dropped
  <2> QED
    BY <2>1, AwaitedTurned
<1>7. RowsRight'
  <2> DEFINE K(r) == Known(r, edges, calls, presses)
             K2(r) == Known(r, edges', calls', presses')
  <2>1. \A r : K(r) => K2(r)
    BY <1>3, KnownLater DEF IInv, Typed
  <2> QED
    BY <1>1, <2>1 DEF IInv, RowsRight
<1>8. \A e \in edges \ rows, r \in rows : {r.requester, r.addressee} # {e.requester, e.addressee}
  BY DEF IInv, RowsRight
<1>9. OnlyByConsent'
  <2> SUFFICES ASSUME NEW e \in edges \ rows, e.status = "accepted"
               PROVE  <<e.addressee, e.requester>> \in wanted'
    BY <1>1 DEF OnlyByConsent
  <2>1. <<e.addressee, e.requester>> \in wanted
    BY DEF IInv, OnlyByConsent
  <2> QED
    BY <1>8, <2>1 DEF Dropped
<1>10. Asked'
  <2> SUFFICES ASSUME NEW p \in Account, NEW q \in Account, <<p, q>> \in added'
               PROVE  \E e \in edges' : /\ {e.requester, e.addressee} = {p, q}
                                        /\ e.requester = p \/ e.status = "accepted"
    BY DEF Asked, Between
  <2>1. <<p, q>> \in added /\ \A r \in rows : {r.requester, r.addressee} # {p, q}
    BY DEF Dropped
  <2> QED
    BY <1>1, <2>1 DEF IInv, Asked, Between
<1>11. Typed'
  BY <1>1, <1>3 DEF IInv, Typed
<1> QED
  BY <1>4, <1>5, <1>6, <1>7, <1>9, <1>10, <1>11 DEF IInv

\* A request is inserted where none was.
LEMMA RowInserted ==
    ASSUME IInv, NEW c \in calls, NEW S, Turned(c, S), MayInsert(c),
           \A d \in S : ~MayInsert(d), Between(c.user, c.target) = {},
           edges' = edges \cup {[id |-> c.no, requester |-> c.user, addressee |-> c.target,
                                 status |-> "pending"]},
           added' = added \cup {<<c.user, c.target>>},
           UNCHANGED <<page, presses, wanted>>
    PROVE  IInv'
<1> DEFINE request == [id |-> c.no, requester |-> c.user, addressee |-> c.target,
                       status |-> "pending"]
<1>1. c \in Calls /\ CallRight(c, edges, calls, presses)
  BY DEF IInv, Typed, CallsRight
<1>2. /\ request \in Edge /\ request.id = c.no /\ request.requester = c.user
      /\ request.addressee = c.target /\ request.status = "pending"
  BY <1>1 DEF Calls, Edge
<1>3. edges' = edges \cup {request}
  OBVIOUS
<1> HIDE DEF request
<1>4. RowsKept
  BY <1>2, <1>3 DEF RowsKept
<1>5. calls' \in SUBSET Calls /\ Later(edges, calls, presses, edges', calls', presses')
  BY <1>4, TurnedLater
<1>6. CallsRight'
  BY <1>4, TurnedRight
<1>7. PagesRight'
  BY <1>5, PagesLater DEF IInv, Typed
<1>8. Awaited'
  BY AwaitedTurned
<1>9. RowsRight'
  <2> DEFINE K(r) == Known(r, edges, calls, presses)
             K2(r) == Known(r, edges', calls', presses')
  <2>1. \A r \in edges : K2(r)
    BY <1>5, KnownLater DEF IInv, Typed, RowsRight
  <2>2. Taken(c.no, calls', presses')
    BY <1>1 DEF Taken, CallRight, Turned, IInv, CallsRight
  <2>3. Fits(c.no, c.user, c.target, edges')
    <3>1. \A r \in edges : r.id # c.no
      BY DEF IInv, RowsRight, Known, Taken
    <3> QED
      BY <1>2, <1>3, <3>1 DEF Fits
  <2>4. K2(request)
    BY <1>1, <1>2, <2>2, <2>3 DEF Known, CallRight, MayInsert
  <2>5. \A r \in edges : {r.requester, r.addressee} # {c.user, c.target}
    BY DEF Between
  <2>6. \A d, e \in edges' : {d.requester, d.addressee} = {e.requester, e.addressee} => d = e
    BY <1>2, <1>3, <2>5 DEF IInv, RowsRight
  <2> QED
    BY <1>3, <2>1, <2>4, <2>6 DEF RowsRight
<1>10. OnlyByConsent'
  BY <1>2, <1>3 DEF IInv, OnlyByConsent
<1>11. Asked'
  <2> SUFFICES ASSUME NEW p \in Account, NEW q \in Account, <<p, q>> \in added'
               PROVE  \E e \in edges' : /\ {e.requester, e.addressee} = {p, q}
                                        /\ e.requester = p \/ e.status = "accepted"
    BY DEF Asked, Between
  <2>1. CASE <<p, q>> \in added
    BY <1>3, <2>1 DEF IInv, Asked, Between
  <2>2. CASE p = c.user /\ q = c.target
    BY <1>2, <1>3, <2>2
  <2> QED
    BY <2>1, <2>2
<1>12. Typed'
  <2>1. c.user \in Account /\ c.target \in Account
    BY <1>1 DEF Calls
  <2> QED
    BY <1>2, <1>3, <1>5, <2>1 DEF IInv, Typed
<1> QED
  BY <1>6, <1>7, <1>8, <1>9, <1>10, <1>11, <1>12 DEF IInv

-----------------------------------------------------------------------------
(* The steps of the pages. *)

\* One page is drawn anew, and rows stay as they are.
LEMMA PageDrawn ==
    ASSUME IInv, NEW p \in Account, NEW pg \in Page, page' = [page EXCEPT ![p] = pg],
           UNCHANGED <<edges, added>>, calls' \in SUBSET Calls, presses' \in Nat,
           Later(edges, calls, presses, edges', calls', presses'),
           \A r \in pg.data : Known(r, edges, calls, presses), p \notin pg.results \cup pg.suggestions,
           wanted \subseteq wanted', wanted' \in SUBSET (Account \X Account), CallsRight', Awaited'
    PROVE  IInv'
<1> DEFINE K(r) == Known(r, edges, calls, presses)
           K2(r) == Known(r, edges', calls', presses')
<1>1. \A r : K(r) => K2(r)
  BY KnownLater DEF IInv, Typed
<1>2. RowsRight'
  BY <1>1 DEF IInv, RowsRight
<1>3. page' \in [Account -> Page] /\ \A q \in Account : page'[q] = IF q = p THEN pg ELSE page[q]
  BY DEF IInv, Typed
<1>4. PagesRight'
  BY <1>1, <1>3 DEF IInv, PagesRight
<1>5. Typed' /\ OnlyByConsent' /\ Asked'
  BY <1>3 DEF IInv, Typed, OnlyByConsent, Asked, Between
<1> QED
  BY <1>2, <1>4, <1>5 DEF IInv

LEMMA ButtonsRight ==
    ASSUME IInv, NEW p \in Account, NEW b \in Buttons(p)
    PROVE  /\ b[1] \in {"add", "accept", "dismiss", "remove"} /\ b[2] \in Account /\ b[3] \in Nat
           /\ b[1] = "add" => b[2] # p
           /\ b[1] = "accept" => Taken(b[3], calls, presses) /\ Fits(b[3], b[2], p, edges)
<1>1. page[p] \in Page /\ (\A r \in page[p].data : Known(r, edges, calls, presses))
  BY DEF IInv, Typed, PagesRight
<1>2. \A r \in page[p].data : r \in Edge /\ other(r, p) \in Account /\ r.id \in Nat
                              /\ r.requester \in Account
  BY <1>1 DEF Page, Edge, other
<1>3. CASE b \in FriendsTab(p)
  BY <1>2, <1>3 DEF FriendsTab
<1>4. CASE b \in RequestsTab(p)
  <2>1. PICK e \in page[p].data : \/ b = <<"accept", e.requester, e.id>> /\ e.addressee = p
                                  \/ b = <<"dismiss", other(e, p), e.id>>
    BY <1>4 DEF RequestsTab
  <2> QED
    BY <1>1, <1>2, <2>1 DEF Known
<1>5. CASE b \in AddTab(p)
  <2>1. PICK q \in page[p].results \cup page[p].suggestions : b = <<"add", q, 0>>
    BY <1>5 DEF AddTab
  <2>2. q \in Account /\ q # p
    BY <1>1 DEF Page, IInv, PagesRight
  <2> QED
    BY <2>1, <2>2
<1> QED
  BY <1>3, <1>4, <1>5 DEF Buttons

LEMMA PressRight ==
    ASSUME IInv, NEW p \in Account, NEW b \in Buttons(p), Press(p, b)
    PROVE  IInv'
<1>1. /\ b[1] \in {"add", "accept", "dismiss", "remove"} /\ b[2] \in Account /\ b[3] \in Nat
      /\ b[1] = "add" => b[2] # p
      /\ b[1] = "accept" => Taken(b[3], calls, presses) /\ Fits(b[3], b[2], p, edges)
  BY ButtonsRight
<1>2. page[p] \in Page /\ p \notin page[p].results \cup page[p].suggestions
  BY DEF IInv, Typed, PagesRight
<1>3. PICK c : /\ c = Call(p, b[1], b[2], b[3]) /\ calls' = calls \cup {c}
               /\ presses' = presses + 1
  BY DEF Press
<1>4. /\ c \in Calls /\ c.user = p /\ c.op = b[1] /\ c.target = b[2] /\ c.id = b[3]
      /\ c.list = Unread /\ c.found = {} /\ c.results = page[p].results /\ c.suggestions = Unread
      /\ c.no = presses + 1
  BY <1>1, <1>2, <1>3 DEF Call, Calls, Page, Edge, IInv, Typed
<1>5. calls' \in SUBSET Calls /\ presses \in Nat /\ presses' \in Nat
  BY <1>3, <1>4 DEF IInv, Typed
<1>6. Later(edges, calls, presses, edges', calls', presses')
  BY <1>3, <1>4, <1>5 DEF Press, Later
<1>7. CallsRight'
  <2>1. \A d \in calls : CallRight(d, edges', calls', presses')
    BY <1>5, <1>6, CallLater
  <2>2. b[1] = "accept" => Taken(b[3], calls', presses') /\ Fits(b[3], b[2], p, edges')
    BY <1>1, <1>5, <1>6, TakenLater, FitsLater
  <2>3. p # Nobody
    BY FriendsAssumption
  <2>4. CallRight(c, edges', calls', presses')
    BY <1>1, <1>2, <1>3, <1>4, <1>5, <2>2, <2>3 DEF CallRight, Unread
  <2>5. \A d \in calls : d.no # presses + 1
    BY <1>5 DEF IInv, Typed, CallsRight, CallRight, Calls
  <2>6. \A d, e \in calls' : d.no = e.no => d = e
    BY <1>3, <1>4, <2>5 DEF CallsRight, IInv
  <2>7. \A d \in calls' : CallRight(d, edges', calls', presses')
    BY <1>3, <2>1, <2>4
  <2> QED
    BY <2>6, <2>7 DEF CallsRight
<1>8. Awaited' /\ wanted \subseteq wanted' /\ wanted' \in SUBSET (Account \X Account)
  BY <1>1, <1>3, <1>4 DEF Press, IInv, Typed, Awaited
<1> DEFINE pg == [page[p] EXCEPT !.busy = key(b)]
<1>9. page' = [page EXCEPT ![p] = pg]
  BY DEF Press
<1>10. /\ pg \in Page /\ pg.data = page[p].data
       /\ pg.results = page[p].results /\ pg.suggestions = page[p].suggestions
  BY <1>1, <1>2 DEF Page, key
<1>11. \A r \in pg.data : Known(r, edges, calls, presses)
  BY <1>10 DEF IInv, PagesRight
<1>12. UNCHANGED <<edges, added>>
  BY DEF Press
<1> HIDE DEF pg
<1> QED
  BY <1>2, <1>5, <1>6, <1>7, <1>8, <1>9, <1>10, <1>11, <1>12, PageDrawn

LEMMA SearchRight ==
    ASSUME IInv, NEW p \in Account, NEW q \in Account, runSearch(p, q)
    PROVE  IInv'
<1>1. page[p] \in Page /\ p \notin page[p].results \cup page[p].suggestions
      /\ \A r \in page[p].data : Known(r, edges, calls, presses)
  BY DEF IInv, Typed, PagesRight
<1> DEFINE pg == [page[p] EXCEPT !.results = {q}, !.busy = Nobody]
<1>2. page' = [page EXCEPT ![p] = pg]
  BY <1>1 DEF runSearch, IInv, Typed
<1>3. pg \in Page /\ pg.data = page[p].data /\ pg.results = {q} /\ pg.suggestions = page[p].suggestions
  BY <1>1 DEF Page
<1> HIDE DEF pg
<1>4. /\ UNCHANGED <<edges, calls, wanted, added>> /\ presses' = presses + 1 /\ q # p
      /\ presses \in Nat /\ presses' \in Nat /\ calls' \in SUBSET Calls
  BY DEF runSearch, IInv, Typed
<1>5. Later(edges, calls, presses, edges', calls', presses')
  BY <1>4 DEF Later
<1>6. CallsRight' /\ Awaited'
  BY <1>4, <1>5, CallLater DEF CallsRight, Awaited, IInv
<1> QED
  BY <1>1, <1>2, <1>3, <1>4, <1>5, <1>6, PageDrawn DEF IInv, Typed

LEMMA RefreshedRight ==
    ASSUME IInv, NEW c \in calls, Refreshed(c)
    PROVE  IInv'
<1>1. c \in Calls /\ CallRight(c, edges, calls, presses) /\ c.list # Unread /\ c.suggestions # Unread
  BY DEF IInv, Typed, CallsRight, Refreshed
<1>2. c.user \in Account /\ page[c.user] \in Page /\ c.user \notin page[c.user].results
  BY <1>1 DEF Calls, IInv, Typed, PagesRight
<1> DEFINE results == IF c.results = {} THEN page[c.user].results
                      ELSE IF c.id = 0 THEN c.results \ {c.target} ELSE c.results
           pg == [data |-> c.list, suggestions |-> c.suggestions, busy |-> Nobody, results |-> results]
<1>3. page' = [page EXCEPT ![c.user] = pg]
  BY <1>2 DEF Refreshed, IInv, Typed
<1>4. results \in SUBSET Account /\ c.user \notin results
  BY <1>1, <1>2 DEF Calls, Page, CallRight
<1>5. pg \in Page /\ pg.data = c.list /\ pg.results = results /\ pg.suggestions = c.suggestions
  BY <1>1, <1>4 DEF Page, Calls
<1> HIDE DEF pg, results
<1>6. Turned(c, {}) /\ UNCHANGED <<edges, presses, wanted, added>>
  BY DEF Turned, Refreshed
<1>7. RowsKept
  BY <1>6 DEF RowsKept
<1>8. /\ calls' \in SUBSET Calls /\ Later(edges, calls, presses, edges', calls', presses')
      /\ CallsRight' /\ Awaited'
  BY <1>6, <1>7, TurnedLater, TurnedRight, AwaitedTurned
<1>9. presses' \in Nat /\ wanted' \in SUBSET (Account \X Account)
  BY <1>6 DEF IInv, Typed
<1>10. (\A r \in pg.data : Known(r, edges, calls, presses)) /\ c.user \notin pg.results \cup pg.suggestions
  BY <1>1, <1>4, <1>5 DEF CallRight
<1> QED
  BY <1>2, <1>3, <1>5, <1>6, <1>8, <1>9, <1>10, PageDrawn

LEMMA GaveUpRight ==
    ASSUME IInv, NEW c \in calls, GaveUp(c)
    PROVE  IInv'
<1>1. c \in Calls
  BY DEF IInv, Typed
<1>2. /\ c.user \in Account /\ page[c.user] \in Page
      /\ c.user \notin page[c.user].results \cup page[c.user].suggestions
      /\ \A r \in page[c.user].data : Known(r, edges, calls, presses)
  BY <1>1 DEF Calls, IInv, Typed, PagesRight
<1> DEFINE pg == [page[c.user] EXCEPT !.busy = Nobody]
           S == {d \in {[c EXCEPT !.heard = FALSE, !.results = {}]} : c.stage \notin {"ok", "refused"}}
<1>3. page' = [page EXCEPT ![c.user] = pg]
  BY DEF GaveUp
<1>4. /\ pg \in Page /\ pg.data = page[c.user].data
      /\ pg.results = page[c.user].results /\ pg.suggestions = page[c.user].suggestions
  BY <1>2 DEF Page
<1>5. \A d \in S : GetsOn(c, d)
  BY <1>1 DEF GetsOn, Calls, MayInsert
<1>6. Turned(c, S)
  BY <1>5 DEF Turned, GaveUp
<1>7. UNCHANGED <<edges, presses, wanted, added>>
  BY DEF GaveUp
<1> HIDE DEF pg, S
<1>8. RowsKept
  BY <1>7 DEF RowsKept
<1>9. /\ calls' \in SUBSET Calls /\ Later(edges, calls, presses, edges', calls', presses')
      /\ CallsRight' /\ Awaited'
  BY <1>6, <1>7, <1>8, TurnedLater, TurnedRight, AwaitedTurned
<1>10. presses' \in Nat /\ wanted' \in SUBSET (Account \X Account)
  BY <1>7 DEF IInv, Typed
<1> QED
  BY <1>2, <1>3, <1>4, <1>7, <1>9, <1>10, PageDrawn

-----------------------------------------------------------------------------
(* The steps of the API. *)

LEMMA Answers ==
    ASSUME IInv, NEW c \in calls, NEW stage \in {"ok", "refused"}, Answer(c, stage)
    PROVE  \E S : Turned(c, S) /\ \A d \in S : ~MayInsert(d)
<1> DEFINE S == {d \in {[c EXCEPT !.stage = stage, !.found = {}]} : c.heard}
<1>1. c \in Calls
  BY DEF IInv, Typed
<1>2. \A d \in S : GetsOn(c, d) /\ ~MayInsert(d)
  BY <1>1 DEF GetsOn, Calls, MayInsert
<1>3. Turned(c, S)
  BY <1>2 DEF Answer, Turned
<1> QED
  BY <1>2, <1>3

LEMMA Finds ==
    ASSUME IInv, NEW c \in calls, c.stage = "sent", NEW rows \in SUBSET edges, Found(c, rows),
           c.op = "add" => \A r \in rows : r.requester = c.target /\ r.addressee = c.user
    PROVE  \E S : Turned(c, S)
<1> DEFINE d == [c EXCEPT !.stage = "read", !.found = rows]
<1>1. c \in Calls /\ edges \subseteq Edge
  BY DEF IInv, Typed
<1>2. GetsOn(c, d)
  BY <1>1 DEF GetsOn, Calls, MayInsert
<1>3. Turned(c, {d})
  BY <1>2 DEF Found, Turned
<1> QED
  BY <1>3

LEMMA ReadsRight ==
    ASSUME IInv, NEW c \in calls, ListRead(c) \/ SuggestionsRead(c)
    PROVE  IInv'
<1>1. c \in Calls /\ edges \subseteq Edge
  BY DEF IInv, Typed
<1>2. CASE ListRead(c)
  <2> DEFINE d == [c EXCEPT !.list = Involving(c.user)]
  <2>1. GetsOn(c, d)
    BY <1>1, <1>2 DEF GetsOn, Calls, MayInsert, Involving
  <2>2. Turned(c, {d}) /\ UNCHANGED <<edges, page, presses, wanted, added>>
    BY <1>2, <2>1 DEF ListRead, Turned
  <2> QED
    BY <2>2, OnlyTheCall
<1>3. CASE SuggestionsRead(c)
  <2> DEFINE d == [c EXCEPT !.suggestions = played_with(c.user)]
  <2>1. GetsOn(c, d)
    BY <1>1, <1>3 DEF GetsOn, Calls, MayInsert, played_with
  <2>2. Turned(c, {d}) /\ UNCHANGED <<edges, page, presses, wanted, added>>
    BY <1>3, <2>1 DEF SuggestionsRead, Turned
  <2> QED
    BY <2>2, OnlyTheCall
<1> QED
  BY <1>2, <1>3

\* What each operation finds before it writes.
LEMMA LookUpsRight ==
    ASSUME IInv, NEW c \in calls, send_request(c) \/ accept_request(c) \/ delete_edge(c)
    PROVE  IInv'
<1>1. UNCHANGED <<edges, page, presses, wanted, added>>
  BY DEF send_request, accept_request, delete_edge
<1>2. \/ Answer(c, "refused")
      \/ /\ c.stage = "sent"
         /\ \E rows \in SUBSET edges :
                /\ Found(c, rows)
                /\ c.op = "add" => \A r \in rows : r.requester = c.target /\ r.addressee = c.user
  <2>1. CASE send_request(c) /\ ~Answer(c, "refused")
    <3> DEFINE rows == Between(c.user, c.target)
    <3>1. Found(c, rows) /\ rows \ Theirs(c, rows) = {} /\ c.stage = "sent"
      BY <2>1 DEF send_request
    <3>2. rows \in SUBSET edges /\ \A r \in rows : r.requester = c.target /\ r.addressee = c.user
      BY <3>1 DEF Theirs, Between
    <3> QED
      BY <3>1, <3>2
  <2>2. CASE accept_request(c) /\ ~Answer(c, "refused")
    <3> DEFINE rows == {r \in Row(c) : r.addressee = c.user /\ r.status = "pending"}
    <3>1. Found(c, rows) /\ c.stage = "sent" /\ c.op = "accept"
      BY <2>2 DEF accept_request
    <3>2. rows \in SUBSET edges
      BY DEF Row
    <3> QED
      BY <3>1, <3>2
  <2>3. CASE delete_edge(c) /\ ~Answer(c, "refused")
    <3> DEFINE rows == {r \in Row(c) : c.user \in {r.requester, r.addressee}}
    <3>1. Found(c, rows) /\ c.stage = "sent" /\ c.op = "dismiss"
      BY <2>3 DEF delete_edge
    <3>2. rows \in SUBSET edges
      BY DEF Row
    <3> QED
      BY <3>1, <3>2
  <2> QED
    BY <2>1, <2>2, <2>3
<1>3. \E S : Turned(c, S)
  BY <1>2, Answers, Finds
<1> QED
  BY <1>1, <1>3, OnlyTheCall

\* They asked first: both have tapped.
LEMMA AcceptTheirsRight ==
    ASSUME IInv, NEW c \in calls, AcceptTheirs(c)
    PROVE  IInv'
<1> DEFINE rows == {r \in edges : \E e \in c.found : r.id = e.id}
<1>1. c \in Calls /\ CallRight(c, edges, calls, presses) /\ c.op = "add"
      /\ <<c.user, c.target>> \in wanted
  BY DEF IInv, Typed, CallsRight, Awaited, AcceptTheirs
<1>2. \A r \in rows : r.requester = c.target /\ r.addressee = c.user
  <2> SUFFICES ASSUME NEW r \in edges, NEW e \in c.found, r.id = e.id
               PROVE  r.requester = c.target /\ r.addressee = c.user
    OBVIOUS
  <2>1. Fits(e.id, e.requester, e.addressee, edges) /\ e.requester = c.target /\ e.addressee = c.user
    BY <1>1 DEF CallRight, Known
  <2> QED
    BY <2>1 DEF Fits
<1>3. /\ edges' = Accepted(rows) /\ added' = added \cup {<<c.user, c.target>> : r \in rows}
      /\ UNCHANGED <<page, presses, wanted>> /\ Answer(c, "ok") /\ rows \in SUBSET edges
  BY DEF AcceptTheirs
<1>4. PICK S : Turned(c, S)
  BY <1>3, Answers
<1>5. \A w \in added' : \/ w \in added
                        \/ \E r \in rows : {r.requester, r.addressee} = {w[1], w[2]}
  BY <1>2, <1>3
<1>6. added' \in SUBSET (Account \X Account)
  BY <1>1, <1>3 DEF Calls, IInv, Typed
<1>7. \A r \in rows : <<r.addressee, r.requester>> \in wanted
  BY <1>1, <1>2
<1> HIDE DEF rows
<1> QED
  BY <1>3, <1>4, <1>5, <1>6, <1>7, RowsAccepted

\* The button stood for this very request.
LEMMA AcceptRowRight ==
    ASSUME IInv, NEW c \in calls, AcceptRow(c)
    PROVE  IInv'
<1> DEFINE rows == {r \in Row(c) : r.status = "pending"}
<1>1. CallRight(c, edges, calls, presses) /\ c.op = "accept" /\ <<c.user, c.target>> \in wanted
  BY DEF IInv, CallsRight, Awaited, AcceptRow
<1>2. \A r \in rows : <<r.addressee, r.requester>> \in wanted
  BY <1>1 DEF CallRight, Fits, Row
<1>3. /\ edges' = Accepted(rows) /\ UNCHANGED <<page, presses, wanted, added>>
      /\ Answer(c, "ok") \/ Answer(c, "refused")
  BY DEF AcceptRow
<1>4. rows \in SUBSET edges
  BY DEF Row
<1>5. PICK S : Turned(c, S)
  BY <1>3, Answers
<1>6. added' \in SUBSET (Account \X Account)
  BY <1>3 DEF IInv, Typed
<1> HIDE DEF rows
<1> QED
  BY <1>2, <1>3, <1>4, <1>5, <1>6, RowsAccepted

LEMMA InsertRight ==
    ASSUME IInv, NEW c \in calls, Insert(c)
    PROVE  IInv'
<1>1. c \in Calls /\ MayInsert(c)
  BY DEF IInv, Typed, Insert, MayInsert
<1>2. CASE Conflicts(c.user, c.target) = {}
  <2>1. /\ edges' = edges \cup {[id |-> c.no, requester |-> c.user, addressee |-> c.target,
                                 status |-> "pending"]}
        /\ added' = added \cup {<<c.user, c.target>>} /\ UNCHANGED <<page, presses, wanted>>
        /\ Answer(c, "ok") /\ Between(c.user, c.target) = {}
    BY <1>2 DEF Insert, Conflicts
  <2>2. PICK S : Turned(c, S) /\ \A d \in S : ~MayInsert(d)
    BY <2>1, Answers
  <2> QED
    BY <1>1, <2>1, <2>2, RowInserted
<1>3. CASE Conflicts(c.user, c.target) # {}
  <2>1. UNCHANGED <<edges, page, presses, wanted, added>>
    BY <1>3 DEF Insert
  <2>2. CASE c.retry
    <3> DEFINE d == [c EXCEPT !.stage = "sent", !.retry = FALSE]
    <3>1. GetsOn(c, d)
      BY <1>1 DEF GetsOn, Calls, MayInsert
    <3>2. Turned(c, {d})
      BY <1>3, <2>2, <3>1 DEF Insert, Turned
    <3> QED
      BY <2>1, <3>2, OnlyTheCall
  <2>3. CASE ~c.retry
    <3>1. Answer(c, "refused")
      BY <1>3, <2>3 DEF Insert
    <3> QED
      BY <2>1, <3>1, Answers, OnlyTheCall
  <2> QED
    BY <2>2, <2>3
<1> QED
  BY <1>2, <1>3

LEMMA RemovalsRight ==
    ASSUME IInv, NEW c \in calls, DeleteRow(c) \/ unfriend(c)
    PROVE  IInv'
<1>1. \E rows \in SUBSET edges : Dropped(rows)
  BY DEF DeleteRow, unfriend, Row, Between
<1>2. UNCHANGED <<page, presses>> /\ (Answer(c, "ok") \/ Answer(c, "refused"))
  BY DEF DeleteRow, unfriend
<1>3. \E S : Turned(c, S)
  BY <1>2, Answers
<1> QED
  BY <1>1, <1>2, <1>3, RowsDropped

-----------------------------------------------------------------------------

LEMMA InitRight == FriendsInit => IInv
<1> SUFFICES ASSUME FriendsInit PROVE IInv
  OBVIOUS
<1>1. \A p \in Account : page[p] = [data |-> {}, suggestions |-> Account \ {p}, results |-> {},
                                    busy |-> Nobody]
  BY DEF FriendsInit
<1>2. Typed
  BY FriendsAssumption DEF FriendsInit, Typed, Page
<1>3. PagesRight
  <2> SUFFICES ASSUME NEW p \in Account
               PROVE  page[p].data = {} /\ p \notin page[p].results \cup page[p].suggestions
    BY DEF PagesRight
  <2>1. page[p] = [data |-> {}, suggestions |-> Account \ {p}, results |-> {}, busy |-> Nobody]
    BY <1>1
  <2>2. page[p].data = {}
    BY <2>1
  <2>3. page[p].results = {}
    BY <2>1
  <2>4. page[p].suggestions = Account \ {p}
    BY <2>1
  <2> QED
    BY <2>2, <2>3, <2>4
<1> QED
  BY <1>2, <1>3 DEF FriendsInit, IInv, RowsRight, CallsRight, Awaited, OnlyByConsent, Asked

LEMMA StepRight == IInv /\ [FriendsNext]_friendVars => IInv'
<1> SUFFICES ASSUME IInv, [FriendsNext]_friendVars PROVE IInv'
  OBVIOUS
<1>1. ASSUME NEW p \in Account, NEW b \in Buttons(p), Press(p, b) PROVE IInv'
  BY <1>1, PressRight
<1>2. ASSUME NEW p \in Account, NEW q \in Account, runSearch(p, q) PROVE IInv'
  BY <1>2, SearchRight
<1>3. ASSUME NEW c \in calls, ListRead(c) \/ SuggestionsRead(c) PROVE IInv'
  BY <1>3, ReadsRight
<1>4. ASSUME NEW c \in calls, send_request(c) \/ accept_request(c) \/ delete_edge(c) PROVE IInv'
  BY <1>4, LookUpsRight
<1>5. ASSUME NEW c \in calls, DeleteRow(c) \/ unfriend(c) PROVE IInv'
  BY <1>5, RemovalsRight
<1>6. CASE UNCHANGED friendVars
  <2>1. UNCHANGED <<edges, page, calls, presses, wanted, added>>
    BY <1>6 DEF friendVars
  <2> QED
    BY <2>1 DEF IInv, Typed, RowsRight, CallsRight, PagesRight, Awaited, OnlyByConsent, Asked, Between
<1> QED
  BY <1>1, <1>2, <1>3, <1>4, <1>5, <1>6, RefreshedRight, GaveUpRight, AcceptTheirsRight,
     InsertRight, AcceptRowRight DEF FriendsNext

\* Nobody becomes a friend without having tapped Add or Accept for the other, for any
\* number of people and calls (friends_service.py).
THEOREM FriendsConsent == FriendsSpec => []OnlyByConsent
<1>1. IInv => OnlyByConsent
  BY DEF IInv
<1> QED
  BY <1>1, InitRight, StepRight, PTL DEF FriendsSpec

\* Two people who have both asked are friends, for any number of people and calls, and
\* whichever of the two requests comes first (send_request).
THEOREM CrossedAddsMeet == FriendsSpec => []MutualAddsMakeFriends
<1>1. IInv => MutualAddsMakeFriends
  <2> SUFFICES ASSUME IInv, NEW p \in Account, NEW q \in Account, <<p, q>> \in added,
                      <<q, p>> \in added
               PROVE  \E e \in Between(p, q) : e.status = "accepted"
    BY DEF MutualAddsMakeFriends
  <2>1. PICK d \in Between(p, q) : d.requester = p \/ d.status = "accepted"
    BY DEF IInv, Asked
  <2>2. PICK e \in Between(q, p) : e.requester = q \/ e.status = "accepted"
    BY DEF IInv, Asked
  <2>3. d = e /\ d.requester # d.addressee /\ {d.requester, d.addressee} = {p, q}
    BY <2>1, <2>2 DEF Between, IInv, RowsRight, Known
  <2> QED
    BY <2>1, <2>2, <2>3
<1> QED
  BY <1>1, InitRight, StepRight, PTL DEF FriendsSpec
-----------------------------------------------------------------------------
(* Groups. *)

(* Taking somebody out of a list keeps everybody else in it. *)
LEMMA RemovedOne ==
    ASSUME NEW S, NEW s \in Seq(S), NEW e
    PROVE  /\ RemoveFirst(s, e) \in Seq(S)
           /\ Range(RemoveFirst(s, e)) \subseteq Range(s)
           /\ Range(s) \ {e} \subseteq Range(RemoveFirst(s, e))
<1> DEFINE at == {i \in 1 .. Len(s) : s[i] = e}
           k == SelectInSeq(s, LAMBDA v : v = e)
           t == RemoveAt(s, k)
<1>1. CASE at = {}
  <2>1. RemoveFirst(s, e) = s
    BY <1>1 DEF RemoveFirst
  <2> QED
    BY <2>1
<1>2. CASE at # {}
  <2>1. RemoveFirst(s, e) = t /\ k = Min(at)
    BY <1>2 DEF RemoveFirst, SelectInSeq
  <2>2. Min(at) \in at
    <3>0. at \in SUBSET Nat
      OBVIOUS
    <3>1. \E m \in at : \A n \in at : m <= n
      <4> HIDE DEF at
      <4> QED
        BY <1>2, <3>0, LeastNat
    <3> QED
      BY <3>1 DEF Min
  <2>3. k \in 1 .. Len(s) /\ s[k] = e
    BY <2>1, <2>2
  <2> HIDE DEF k
  <2>4. /\ t \in Seq(S) /\ Len(t) = Len(s) - 1
        /\ \A i \in 1 .. Len(t) : t[i] = IF i < k THEN s[i] ELSE s[i + 1]
    <3> DEFINE a == SubSeq(s, 1, k - 1)
               b == SubSeq(s, k + 1, Len(s))
    <3>1. /\ a \in Seq(S) /\ Len(a) = k - 1 /\ \A i \in 1 .. k - 1 : a[i] = s[i]
      BY <2>3
    <3>2. /\ b \in Seq(S) /\ Len(b) = Len(s) - k
          /\ \A i \in 1 .. Len(s) - k : b[i] = s[i + k]
      BY <2>3
    <3> HIDE DEF a, b
    <3>3. t = a \o b
      BY DEF RemoveAt, a, b
    <3>4. t \in Seq(S) /\ Len(t) = Len(s) - 1
      BY <2>3, <3>1, <3>2, <3>3
    <3>5. \A i \in 1 .. Len(t) : t[i] = IF i < k THEN a[i] ELSE b[i - (k - 1)]
      BY <2>3, <3>1, <3>2, <3>3, <3>4
    <3>6. ASSUME NEW i \in 1 .. Len(t)
          PROVE  t[i] = IF i < k THEN s[i] ELSE s[i + 1]
      <4>1. CASE i < k
        BY <2>3, <3>1, <3>5, <4>1
      <4>2. CASE ~(i < k)
        <5>1. i - (k - 1) \in 1 .. Len(s) - k /\ (i - (k - 1)) + k = i + 1
          BY <2>3, <3>4, <4>2
        <5> QED
          BY <3>2, <3>5, <4>2, <5>1
      <4> QED
        BY <4>1, <4>2
    <3> QED
      BY <3>4, <3>6
  <2> HIDE DEF t
  <2>5. \A i \in 1 .. Len(t) : \E j \in 1 .. Len(s) : t[i] = s[j]
    <3> SUFFICES ASSUME NEW i \in 1 .. Len(t)
                 PROVE  \E j \in 1 .. Len(s) : t[i] = s[j]
      OBVIOUS
    <3>1. i \in 1 .. Len(s) /\ i + 1 \in 1 .. Len(s)
      BY <2>4
    <3> QED
      BY <2>4, <3>1
  <2>6. \A j \in 1 .. Len(s) : s[j] # e => \E i \in 1 .. Len(t) : t[i] = s[j]
    <3> SUFFICES ASSUME NEW j \in 1 .. Len(s), s[j] # e
                 PROVE  \E i \in 1 .. Len(t) : t[i] = s[j]
      OBVIOUS
    <3>1. CASE j < k
      <4>1. j \in 1 .. Len(t)
        BY <2>3, <2>4, <3>1
      <4> QED
        BY <2>4, <3>1, <4>1
    <3>2. CASE j > k
      <4>1. j - 1 \in 1 .. Len(t) /\ ~(j - 1 < k) /\ (j - 1) + 1 = j
        BY <2>3, <2>4, <3>2
      <4> QED
        BY <2>4, <4>1
    <3> QED
      BY <2>3, <3>1, <3>2
  <2>7. DOMAIN t = 1 .. Len(t) /\ DOMAIN s = 1 .. Len(s)
    BY <2>4
  <2>8. Range(t) \subseteq Range(s)
    BY <2>5, <2>7, Zenon DEF Range
  <2>9. Range(s) \ {e} \subseteq Range(t)
    BY <2>6, <2>7, Zenon DEF Range
  <2> QED
    BY <2>1, <2>4, <2>8, <2>9
<1> QED
  BY <1>1, <1>2

-----------------------------------------------------------------------------
(* The invariant of a group: what its requests hold, what there is before a group is
   created, and what a leave or a change of the owner's read, which still stands when it
   is committed unless another of them took effect meanwhile. *)

GroupRow == [owner : Person \cup {Unowned}, code : Nat, name : Int]

Screen == [group : GroupRow, members : Seq(Person), busy : BOOLEAN]

Request ==
    [user : Person, op : {"create", "join", "leave"} \cup OwnersOps, arg : Person, value : Int,
     stage : {"sent", "owner", "checked", "ok", "refused"}, successor : Person \cup {Unowned},
     heard : BOOLEAN, no : Nat]

Shaped(r) ==
    /\ r.stage = "owner" => r.op = "leave"
    /\ r.stage = "checked" => r.op # "create"
    /\ r.stage = "sent" => r.successor = Unowned
    /\ r.op = "remove" => r.arg # r.user

GroupTyped ==
    /\ group \in GroupRow /\ members \in Seq(Person) /\ codes \in Nat
    /\ view \in [Person -> Screen] /\ made \in Nat /\ crossed \in BOOLEAN
    /\ requests \subseteq Request /\ \A r \in requests : Shaped(r)

BeforeTheGroup ==
    /\ codes = 0 => /\ ~exists
                    /\ \A p \in Person : view[p].group = NoGroup
                    /\ \A r \in requests : r.op = "create"
    /\ made = 0 => requests = {} /\ codes = 0
    /\ \A r \in requests : r.op = "create" /\ r.stage = "sent" => codes = 0
    /\ \A r, q \in requests : r.op = "create" /\ q.op = "create" => r = q

Stands(r) ==
    /\ r.stage = "owner" => group.owner = r.user
    /\ r.op = "leave" /\ r.stage = "checked" =>
        /\ r.successor = Unowned => group.owner # r.user
        /\ r.successor \notin {Unowned, r.user} => group.owner = r.user /\ is_member(r.successor)
    /\ r.op \in OwnersOps /\ r.stage = "checked" => group.owner = r.user

Owned == exists /\ ~crossed => is_member(group.owner) /\ \A r \in requests : Stands(r)

GroupInv == GroupTyped /\ BeforeTheGroup /\ Owned

-----------------------------------------------------------------------------
(* A request that gets on. *)

GoesOn(r, q) ==
    /\ requests' \subseteq (requests \ {r}) \cup {q}
    /\ q \in Request /\ Shaped(q)
    /\ q.op = r.op /\ q.user = r.user /\ (q.stage = "sent" => r.stage = "sent")

LEMMA GoneOn ==
    ASSUME GroupInv, NEW r \in requests, NEW q, GoesOn(r, q), made' = made,
           codes' = codes \/ (codes' # 0 /\ r.op # "create")
    PROVE  /\ requests' \subseteq Request /\ \A s \in requests' : Shaped(s)
           /\ made' = 0 => requests' = {} /\ codes' = 0
           /\ codes' = 0 => \A s \in requests' : s.op = "create"
           /\ \A s \in requests' : s.op = "create" /\ s.stage = "sent" => codes' = 0
           /\ \A s, t \in requests' : s.op = "create" /\ t.op = "create" => s = t
<1>1. codes' = codes \/ codes # 0
  BY DEF GroupInv, BeforeTheGroup
<1>2. made # 0
  BY DEF GroupInv, BeforeTheGroup
<1> QED
  BY <1>1, <1>2 DEF GroupInv, GroupTyped, BeforeTheGroup, GoesOn

(* The requests that are not the one that gets on read what still stands. *)
LEMMA OthersStand ==
    ASSUME GroupInv, NEW r \in requests, NEW q, GoesOn(r, q), UNCHANGED <<group, members, crossed>>,
           exists /\ ~crossed => Stands(q)'
    PROVE  Owned'
  BY DEF GroupInv, Owned, GoesOn, Stands, exists, is_member

LEMMA ReplyGoesOn ==
    ASSUME GroupInv, NEW r \in requests, NEW stage \in {"ok", "refused"}, Reply(r, stage)
    PROVE  GoesOn(r, [r EXCEPT !.stage = stage])
<1>1. r \in Request /\ Shaped(r)
  BY DEF GroupInv, GroupTyped
<1> QED
  BY <1>1 DEF Reply, GoesOn, Request, Shaped

(* A step that leaves the group as it is. *)
LEMMA GroupKept ==
    ASSUME GroupInv, NEW r \in requests, NEW q, GoesOn(r, q),
           UNCHANGED <<group, members, codes, view, made, crossed>>,
           exists /\ ~crossed => Stands(q)'
    PROVE  GroupInv'
<1>1. Owned'
  BY OthersStand
<1>2. GroupTyped' /\ BeforeTheGroup'
  BY GoneOn DEF GroupInv, GroupTyped, BeforeTheGroup, exists
<1> QED
  BY <1>1, <1>2 DEF GroupInv

LEMMA Refusal ==
    ASSUME GroupInv, NEW r \in requests, Refuse(r)
    PROVE  GroupInv'
<1> DEFINE q == [r EXCEPT !.stage = "refused"]
<1>1. r \in Request
  BY DEF GroupInv, GroupTyped
<1>2. GoesOn(r, q) /\ UNCHANGED <<group, members, codes, view, made, crossed>>
  BY ReplyGoesOn DEF Refuse
<1>3. Stands(q)'
  BY <1>1 DEF Stands, Request
<1> HIDE DEF q
<1> QED
  BY <1>2, <1>3, GroupKept

-----------------------------------------------------------------------------
(* The pages. *)

LEMMA OpenedKeeps ==
    ASSUME GroupInv, NEW p \in Person, Opened(p)
    PROVE  GroupInv'
<1>1. UNCHANGED <<group, members, codes, requests, made, crossed>> /\ exists
  BY DEF Opened
<1>2. Detail \in Screen
  BY DEF Detail, Screen, GroupInv, GroupTyped
<1>3. view' \in [Person -> Screen] /\ codes # 0
  BY <1>1, <1>2 DEF Opened, GroupInv, GroupTyped, BeforeTheGroup
<1>4. Owned'
  BY <1>1 DEF GroupInv, Owned, Stands, exists, is_member
<1> QED
  BY <1>1, <1>3, <1>4 DEF GroupInv, GroupTyped, BeforeTheGroup, exists

(* What a page offers is a request the invariant allows. *)
LEMMA OfferedShaped ==
    ASSUME GroupInv, NEW p \in Person, NEW b \in Offered(p)
    PROVE  /\ b[1] \in {"create", "join", "leave"} \cup OwnersOps /\ b[2] \in Person /\ b[3] \in Int
           /\ b[1] = "remove" => b[2] # p
           /\ b[1] = "create" <=> made = 0
           /\ codes = 0 => made = 0
<1>1. view[p] \in Screen /\ codes \in Nat /\ made \in Nat
  BY DEF GroupInv, GroupTyped
<1>2. made = 0 => view[p].group = NoGroup
  BY DEF GroupInv, BeforeTheGroup
<1>3. codes = 0 => view[p].group = NoGroup
  BY DEF GroupInv, BeforeTheGroup
<1>4. CASE view[p].group = NoGroup
  <2>1. b \in GroupsPage(p) \/ b \in JoinGroupView(p)
    BY <1>4 DEF Offered
  <2>2. made = 0 => codes = 0
    BY DEF GroupInv, BeforeTheGroup
  <2>3. CASE b \in JoinGroupView(p)
    <3>1. PICK c \in 1 .. codes : b = <<"join", p, c>>
      BY <2>3 DEF JoinGroupView
    <3> QED
      BY <1>1, <2>2, <3>1
  <2>4. CASE b \in GroupsPage(p) /\ made # 0
    <3>1. PICK raw \in [code : 1 .. codes, link : BOOLEAN] : b = <<"join", p, codeFrom(raw)>>
      BY <2>4 DEF GroupsPage
    <3>2. codeFrom(raw) \in Int /\ codes # 0
      BY <1>1 DEF codeFrom
    <3> QED
      BY <1>1, <2>4, <3>1, <3>2
  <2>5. CASE b \in GroupsPage(p) /\ made = 0
    BY <2>5 DEF GroupsPage
  <2> QED
    BY <2>1, <2>3, <2>4, <2>5
<1>5. CASE view[p].group # NoGroup
  <2>1. \/ b = <<"leave", p, 0>>
        \/ b \in Invite(p) \cup Members(p) \cup Settings(p)
    BY <1>5 DEF Offered, GroupView
  <2>2. view[p].group.name \in Int /\ view[p].members \in Seq(Person)
    BY <1>1 DEF Screen, GroupRow
  <2>3. Range(view[p].members) \subseteq Person
    BY <2>2 DEF Range
  <2> QED
    BY <1>2, <1>3, <1>5, <2>1, <2>2, <2>3 DEF Invite, Members, Settings, OwnersOps
<1> QED
  BY <1>4, <1>5

LEMMA MakeKeeps ==
    ASSUME GroupInv, NEW p \in Person, NEW b \in Offered(p), Make(p, b)
    PROVE  GroupInv'
<1>0. PICK q : q = [user |-> p, op |-> b[1], arg |-> b[2], value |-> b[3], stage |-> "sent",
                    successor |-> Unowned, heard |-> TRUE, no |-> made]
  OBVIOUS
<1>1. UNCHANGED <<group, members, codes, crossed>> /\ made' = made + 1
      /\ requests' = requests \cup {q} /\ view' = [view EXCEPT ![p].busy = TRUE]
  BY <1>0 DEF Make
<1>2. q \in Request /\ Shaped(q)
  BY <1>0, OfferedShaped DEF Request, Shaped, GroupInv, GroupTyped
<1>3. Stands(q)'
  BY <1>0 DEF Stands
<1>4. /\ q.op = "create" <=> made = 0
      /\ codes = 0 => q.op = "create"
  BY <1>0, OfferedShaped
<1>5. view[p] \in Screen
  BY DEF GroupInv, GroupTyped
<1>6. view' \in [Person -> Screen] /\ \A o \in Person : view'[o].group = view[o].group
  BY <1>1, <1>5 DEF Screen, GroupInv, GroupTyped
<1>7. GroupTyped'
  <2>1. made' \in Nat /\ requests' \subseteq Request
    BY <1>1, <1>2 DEF GroupInv, GroupTyped
  <2>2. \A s \in requests' : Shaped(s)
    BY <1>1, <1>2 DEF GroupInv, GroupTyped
  <2> QED
    BY <1>1, <1>6, <2>1, <2>2 DEF GroupInv, GroupTyped
<1>8. BeforeTheGroup'
  <2>1. made \in Nat /\ made' # 0
    BY <1>1 DEF GroupInv, GroupTyped
  <2> HIDE DEF NoGroup
  <2>2. /\ codes = 0 => ~exists /\ \A o \in Person : view[o].group = NoGroup
        /\ made = 0 => requests = {} /\ codes = 0
        /\ codes = 0 => \A s \in requests : s.op = "create"
    BY DEF GroupInv, BeforeTheGroup
  <2>3. (codes = 0)' => /\ ~exists'
                        /\ \A o \in Person : (view[o].group = NoGroup)'
                        /\ \A s \in requests' : s.op = "create"
    BY <1>1, <1>4, <1>6, <2>2 DEF exists
  <2>4. \A s \in requests' : s.op = "create" /\ s.stage = "sent" => codes' = 0
    BY <1>1, <1>4, <2>2 DEF GroupInv, BeforeTheGroup
  <2>5. \A s, o \in requests' : s.op = "create" /\ o.op = "create" => s = o
    BY <1>1, <1>4, <2>2 DEF GroupInv, BeforeTheGroup
  <2> QED
    BY <2>1, <2>3, <2>4, <2>5 DEF BeforeTheGroup, NoGroup
<1>9. Owned'
  BY <1>1, <1>3 DEF GroupInv, Owned, Stands, exists, is_member
<1> QED
  BY <1>7, <1>8, <1>9 DEF GroupInv

(* An answer, or none, and the page redrawn. *)
LEMMA HeardKeeps ==
    ASSUME GroupInv, NEW r \in requests, Answered(r) \/ Failed(r)
    PROVE  GroupInv'
<1>1. UNCHANGED <<group, members, codes, made, crossed>>
  BY DEF Answered, Failed
<1>2. r \in Request /\ Shaped(r)
  BY DEF GroupInv, GroupTyped
<1>3. r.user \in Person /\ view[r.user] \in Screen
  BY <1>2 DEF Request, GroupInv, GroupTyped
<1>4. Detail \in Screen /\ Blank \in Screen
  BY DEF Detail, Blank, NoGroup, GroupRow, Screen, GroupInv, GroupTyped
<1> PICK v : v = view'[r.user]
  OBVIOUS
<1> DEFINE quiet == [view[r.user] EXCEPT !.busy = FALSE]
<1>5. v \in {Blank, Detail, quiet} /\ (v = Detail => v = Blank \/ v = quiet \/ exists)
      /\ view' = [view EXCEPT ![r.user] = v]
  <2>1. view \in [Person -> Screen]
    BY DEF GroupInv, GroupTyped
  <2>2. CASE Answered(r)
    BY <1>3, <2>1, <2>2 DEF Answered
  <2>3. CASE Failed(r)
    BY <1>3, <2>1, <2>3 DEF Failed
  <2> QED
    BY <2>2, <2>3
<1>6. quiet \in Screen /\ quiet.group = view[r.user].group
  BY <1>3 DEF Screen
<1> HIDE DEF quiet
<1>11. view' \in [Person -> Screen]
  BY <1>4, <1>5, <1>6 DEF GroupInv, GroupTyped
<1>12. \A p \in Person : codes = 0 => view'[p].group = NoGroup
  <2> SUFFICES ASSUME NEW p \in Person, codes = 0 PROVE view'[p].group = NoGroup
    OBVIOUS
  <2>1. view[p].group = NoGroup /\ view[r.user].group = NoGroup /\ ~exists
    BY <1>3 DEF GroupInv, BeforeTheGroup
  <2>2. v.group = NoGroup
    BY <1>5, <1>6, <2>1 DEF Blank
  <2>3. view \in [Person -> Screen]
    BY DEF GroupInv, GroupTyped
  <2> QED
    BY <1>5, <2>1, <2>2, <2>3
<1> DEFINE q == [r EXCEPT !.heard = FALSE]
<1>7. requests' \subseteq (requests \ {r}) \cup {q}
  BY DEF Answered, Failed
<1>8. GoesOn(r, q)
  BY <1>2, <1>7 DEF GoesOn, Request, Shaped
<1>9. exists /\ ~crossed => Stands(q)'
  BY <1>1, <1>2 DEF GroupInv, Owned, Stands, Request, is_member
<1> HIDE DEF q
<1>10. Owned'
  BY <1>1, <1>8, <1>9, OthersStand
<1> QED
  BY <1>1, <1>8, <1>10, <1>11, <1>12, GoneOn DEF GroupInv, GroupTyped, BeforeTheGroup, exists

-----------------------------------------------------------------------------
(* The service. *)

LEMMA CreateKeeps ==
    ASSUME GroupInv, NEW r \in requests, create_group(r)
    PROVE  GroupInv'
<1> DEFINE q == [r EXCEPT !.stage = "ok"]
<1>1. r \in Request /\ r.op = "create" /\ r.stage = "sent"
  BY DEF create_group, GroupInv, GroupTyped
<1>2. GoesOn(r, q) /\ UNCHANGED <<view, made, crossed>> /\ codes' = 1
  BY ReplyGoesOn DEF create_group
<1>3. \A s \in requests : s = r
  BY <1>1 DEF GroupInv, BeforeTheGroup
<1>4. q.stage = "ok"
  BY <1>1 DEF Request
<1>5. Shaped(q) /\ q \in Request
  BY <1>2 DEF GoesOn
<1>6. made # 0
  BY DEF GroupInv, BeforeTheGroup
<1>7. requests' \subseteq {q}
  BY <1>2, <1>3 DEF GoesOn
<1>8. group' = [owner |-> r.user, code |-> 1, name |-> 0] /\ members' = <<r.user>>
  BY DEF create_group
<1>9. group' \in GroupRow /\ members' \in Seq(Person) /\ r.user \in Range(members')
  BY <1>1, <1>8 DEF Request, GroupRow, Range
<1> HIDE DEF q
<1>10. Owned'
  BY <1>4, <1>7, <1>8, <1>9 DEF Owned, Stands, is_member
<1>11. BeforeTheGroup'
  BY <1>2, <1>4, <1>6, <1>7 DEF BeforeTheGroup
<1>12. GroupTyped'
  BY <1>2, <1>5, <1>7, <1>9 DEF GroupInv, GroupTyped
<1> QED
  BY <1>10, <1>11, <1>12 DEF GroupInv

(* Checks, and reads a leave acts on later. *)
LEMMA ChecksKeep ==
    ASSUME GroupInv, NEW r \in requests,
           join_by_code(r) \/ leave(r) \/ Successor(r) \/ _require_owner(r)
    PROVE  GroupInv'
<1>1. r \in Request /\ Shaped(r)
  BY DEF GroupInv, GroupTyped
<1>2. CASE Refuse(r)
  BY <1>2, Refusal
<1>3. CASE ~Refuse(r)
  <2>1. UNCHANGED <<group, members, codes, view, made, crossed>>
    BY <1>3 DEF join_by_code, leave, Successor, _require_owner
  <2>2. SUFFICES \E q : GoesOn(r, q) /\ (exists /\ ~crossed => Stands(q)')
    BY <2>1, GroupKept
  <2>3. CASE join_by_code(r)
    <3>1. CASE Then(r, [r EXCEPT !.stage = "checked"])
      <4> DEFINE q == [r EXCEPT !.stage = "checked"]
      <4>1. GoesOn(r, q)
        BY <1>1, <2>3, <3>1 DEF join_by_code, Then, GoesOn, Request, Shaped
      <4>2. Stands(q)'
        BY <1>1, <2>3 DEF join_by_code, Stands, Request, OwnersOps
      <4> QED
        BY <4>1, <4>2
    <3>2. ASSUME NEW stage \in {"ok", "refused"}, Reply(r, stage)
          PROVE  \E q : GoesOn(r, q) /\ Stands(q)'
      <4> DEFINE q == [r EXCEPT !.stage = stage]
      <4>1. GoesOn(r, q)
        BY <3>2, ReplyGoesOn
      <4>2. Stands(q)'
        BY <1>1 DEF Stands, Request
      <4> QED
        BY <4>1, <4>2
    <3> QED
      BY <1>3, <2>3, <3>1, <3>2 DEF join_by_code
  <2>4. CASE leave(r)
    <3> PICK q : q = [r EXCEPT !.stage = IF group.owner = r.user THEN "owner" ELSE "checked"]
      OBVIOUS
    <3>1. GoesOn(r, q)
      BY <1>1, <1>3, <2>4 DEF leave, Then, GoesOn, Request, Shaped
    <3>2. Stands(q)'
      BY <1>1, <2>1, <2>4 DEF leave, Stands, Request, Shaped, OwnersOps
    <3> QED
      BY <3>1, <3>2
  <2>5. CASE Successor(r)
    <3> PICK o : o = Others(r.user)
      OBVIOUS
    <3> DEFINE h == IF o = <<>> THEN r.user ELSE Head(o)
               q == [r EXCEPT !.stage = "checked", !.successor = h]
    <3>1. o \in Seq(Person) /\ Range(o) \subseteq Range(members)
      BY RemovedOne DEF Others, GroupInv, GroupTyped
    <3>2. h \in Person /\ (h # r.user => is_member(h))
      <4>1. CASE o = <<>>
        BY <1>1, <4>1 DEF Request
      <4>2. CASE o # <<>>
        <5>1. Head(o) = o[1] /\ 1 \in DOMAIN o
          BY <3>1, <4>2
        <5>2. o[1] \in Person /\ o[1] \in Range(o)
          BY <3>1, <5>1 DEF Range
        <5> QED
          BY <3>1, <4>2, <5>1, <5>2 DEF is_member
      <4> QED
        BY <4>1, <4>2
    <3>3. r.stage = "owner" /\ Then(r, q)
      BY <2>5 DEF Successor
    <3> HIDE DEF h
    <3>4. GoesOn(r, q)
      BY <1>1, <3>2, <3>3 DEF Then, GoesOn, Request, Shaped
    <3>5. exists /\ ~crossed => Stands(q)'
      BY <1>1, <2>1, <3>2, <3>3, GroupsAssumption
         DEF GroupInv, Owned, Stands, Request, Shaped, OwnersOps, is_member
    <3> QED
      BY <3>4, <3>5
  <2>6. CASE _require_owner(r)
    <3> DEFINE q == [r EXCEPT !.stage = "checked"]
    <3>1. GoesOn(r, q)
      BY <1>1, <1>3, <2>6 DEF _require_owner, Then, GoesOn, Request, Shaped, OwnersOps
    <3>2. Stands(q)'
      BY <1>1, <1>3, <2>1, <2>6 DEF _require_owner, Stands, Request, MayManage, OwnersOps
    <3> QED
      BY <3>1, <3>2
  <2> QED
    BY <2>3, <2>4, <2>5, <2>6
<1> QED
  BY <1>2, <1>3

(* A newcomer is put at the end; whoever was in the group still is. *)
LEMMA InsertKeeps ==
    ASSUME GroupInv, NEW r \in requests, InsertMember(r)
    PROVE  GroupInv'
<1> DEFINE q == [r EXCEPT !.stage = "ok"]
<1>1. r \in Request /\ members \in Seq(Person)
  BY DEF GroupInv, GroupTyped
<1>2. GoesOn(r, q) /\ UNCHANGED <<group, codes, view, made, crossed>>
  BY ReplyGoesOn DEF InsertMember
<1>3. q.stage = "ok"
  BY <1>1 DEF Request
<1> HIDE DEF q
<1>4. members' = Append(members, r.user) \/ members' = members
  BY DEF InsertMember
<1>5. members' \in Seq(Person) /\ Range(members) \subseteq Range(members')
  <2>1. CASE members' = members
    BY <1>1, <2>1
  <2>2. CASE members' = Append(members, r.user)
    <3>1. r.user \in Person
      BY <1>1 DEF Request
    <3>2. /\ members' \in Seq(Person)
          /\ \A i \in 1 .. Len(members) : i \in 1 .. Len(members') /\ members'[i] = members[i]
      BY <1>1, <2>2, <3>1
    <3>3. DOMAIN members = 1 .. Len(members) /\ DOMAIN members' = 1 .. Len(members')
      BY <1>1, <3>2
    <3>4. Range(members) \subseteq Range(members')
      BY <3>2, <3>3, Zenon DEF Range
    <3> QED
      BY <3>2, <3>4
  <2> QED
    BY <1>4, <2>1, <2>2
<1>6. \A s : Stands(s) => Stands(s)'
  BY <1>2, <1>5 DEF Stands, is_member
<1>7. Owned'
  <2>1. Stands(q)'
    BY <1>3 DEF Stands
  <2>2. exists' = exists /\ group' = group /\ crossed' = crossed
    BY <1>2 DEF exists
  <2> SUFFICES ASSUME exists, ~crossed
               PROVE  is_member(group.owner)' /\ \A s \in requests' : Stands(s)'
    BY <2>2 DEF Owned
  <2>3. is_member(group.owner) /\ \A s \in requests : Stands(s)
    BY DEF GroupInv, Owned
  <2>4. is_member(group.owner)'
    BY <1>5, <2>2, <2>3 DEF is_member
  <2>5. requests' \subseteq (requests \ {r}) \cup {q}
    BY <1>2 DEF GoesOn
  <2> QED
    BY <1>6, <2>1, <2>3, <2>4, <2>5
<1> QED
  BY <1>2, <1>5, <1>7, GoneOn DEF GroupInv, GroupTyped, BeforeTheGroup, exists

(* When nothing else of the kind is under way, a commit has nobody's read to outdate. *)
LEMMA CommitKeeps ==
    ASSUME GroupInv, NEW r \in requests, Reply(r, "ok"), r.op # "create",
           UNCHANGED <<view, made>>, crossed' = (crossed \/ Overlapped(r)),
           codes' \in Nat, codes' = codes \/ codes' # 0,
           group' \in GroupRow, members' \in Seq(Person),
           exists /\ ~crossed => Stands(r),
           exists' => exists,
           exists' /\ ~crossed => is_member(group.owner)'
    PROVE  GroupInv'
<1> DEFINE q == [r EXCEPT !.stage = "ok"]
<1>1. r \in Request
  BY DEF GroupInv, GroupTyped
<1>2. GoesOn(r, q)
  BY ReplyGoesOn
<1>3. q.stage = "ok"
  BY <1>1 DEF Request
<1> HIDE DEF q
<1>4. GroupTyped'
  <2>1. crossed' \in BOOLEAN
    BY DEF GroupInv, GroupTyped
  <2> QED
    BY <1>2, <2>1, GoneOn DEF GroupInv, GroupTyped
<1>5. codes' = 0 => codes = 0
  BY DEF GroupInv, GroupTyped
<1>6. BeforeTheGroup'
  BY <1>2, <1>5, GoneOn DEF GroupInv, BeforeTheGroup
<1>7. Owned'
  <2> SUFFICES ASSUME exists', ~crossed'
               PROVE  \A s \in requests' : Stands(s)'
    BY DEF Owned
  <2>1. ~crossed /\ ~Overlapped(r)
    OBVIOUS
  <2>2. requests' \subseteq (requests \ {r}) \cup {q}
    BY <1>2 DEF GoesOn
  <2>3. \A s \in requests \ {r} : s \in Request /\ (s.op = "join" \/ s.stage \notin {"owner", "checked"})
    BY <2>1 DEF Overlapped, GroupInv, GroupTyped
  <2>4. \A s \in requests \ {r} : Shaped(s)
    BY DEF GroupInv, GroupTyped
  <2>5. \A s \in requests \ {r} : Stands(s)'
    BY <2>3, <2>4 DEF Stands, Shaped, OwnersOps
  <2>6. Stands(q)'
    BY <1>3 DEF Stands
  <2> QED
    BY <2>2, <2>5, <2>6
<1> QED
  BY <1>4, <1>6, <1>7 DEF GroupInv

LEMMA LeaveKeeps ==
    ASSUME GroupInv, NEW r \in requests, LeaveCommits(r)
    PROVE  GroupInv'
<1>1. r \in Request /\ r.op = "leave" /\ r.stage = "checked"
  BY DEF LeaveCommits, GroupInv, GroupTyped
<1>2. group \in GroupRow /\ members \in Seq(Person) /\ codes \in Nat
  BY DEF GroupInv, GroupTyped
<1>3. UNCHANGED <<codes, view, made>> /\ Reply(r, "ok") /\ crossed' = (crossed \/ Overlapped(r))
  BY DEF LeaveCommits
<1>4. exists /\ ~crossed => Stands(r) /\ is_member(group.owner)
  BY DEF GroupInv, Owned
<1>5. CASE r.successor = r.user
  <2>1. group' = NoGroup /\ members' = <<>>
    BY <1>5 DEF LeaveCommits, Closed
  <2>2. group' \in GroupRow /\ members' \in Seq(Person) /\ ~exists'
    BY <2>1 DEF NoGroup, GroupRow, exists
  <2> QED
    BY <1>1, <1>2, <1>3, <1>4, <2>2, CommitKeeps
<1>6. CASE r.successor # r.user
  <2>1. members' = Others(r.user)
    BY <1>6 DEF LeaveCommits
  <2>2. members' \in Seq(Person) /\ Range(members) \ {r.user} \subseteq Range(members')
    BY <1>2, <2>1, RemovedOne DEF Others
  <2>3. CASE r.successor = Unowned \/ ~exists
    <3>1. group' = group
      BY <1>6, <2>3 DEF LeaveCommits
    <3>2. exists' = exists
      BY <3>1 DEF exists
    <3>3. exists /\ ~crossed => group.owner # r.user
      BY <1>1, <1>4, <2>3 DEF Stands
    <3>4. exists' /\ ~crossed => is_member(group.owner)'
      BY <1>4, <2>2, <3>1, <3>2, <3>3 DEF is_member
    <3> QED
      BY <1>1, <1>2, <1>3, <1>4, <2>2, <3>1, <3>2, <3>4, CommitKeeps
  <2>4. CASE r.successor # Unowned /\ exists
    <3>1. group' = [group EXCEPT !.owner = r.successor]
      BY <1>6, <2>4 DEF LeaveCommits
    <3>2. group' \in GroupRow /\ group'.owner = r.successor
      BY <1>1, <1>2, <3>1 DEF GroupRow, Request
    <3>3. ~crossed => is_member(r.successor)
      BY <1>1, <1>4, <1>6, <2>4 DEF Stands
    <3>4. ~crossed => is_member(group.owner)'
      BY <1>6, <2>2, <3>2, <3>3 DEF is_member
    <3> QED
      BY <1>1, <1>2, <1>3, <1>4, <2>2, <2>4, <3>2, <3>4, CommitKeeps
  <2> QED
    BY <2>3, <2>4
<1> QED
  BY <1>5, <1>6

LEMMA ChangeKeeps ==
    ASSUME GroupInv, NEW r \in requests, OwnersChange(r)
    PROVE  GroupInv'
<1>1. r \in Request /\ Shaped(r) /\ r.op \in OwnersOps /\ r.stage = "checked"
  BY DEF OwnersChange, GroupInv, GroupTyped
<1>2. group \in GroupRow /\ members \in Seq(Person) /\ codes \in Nat
  BY DEF GroupInv, GroupTyped
<1>3. UNCHANGED <<view, made>> /\ Reply(r, "ok") /\ crossed' = (crossed \/ Overlapped(r))
  BY DEF OwnersChange
<1>4. exists /\ ~crossed => Stands(r) /\ is_member(group.owner)
  BY DEF GroupInv, Owned
<1>5. exists /\ ~crossed => group.owner = r.user
  BY <1>1, <1>4 DEF Stands
<1>6. r.op # "create"
  BY <1>1 DEF OwnersOps
<1>7. CASE ~exists
  <2>1. UNCHANGED <<group, members, codes>>
    BY <1>7 DEF OwnersChange
  <2>2. exists' = exists
    BY <2>1 DEF exists
  <2> QED
    BY <1>2, <1>3, <1>6, <1>7, <2>1, <2>2, CommitKeeps
<1>8. CASE exists /\ rename(r)
  <2>1. group' = [group EXCEPT !.name = r.value] /\ UNCHANGED <<members, codes>>
    BY <1>8 DEF rename
  <2>2. group' \in GroupRow /\ group'.owner = group.owner
    BY <1>1, <1>2, <2>1 DEF GroupRow, Request
  <2>3. is_member(group.owner)' = is_member(group.owner)
    BY <2>1, <2>2 DEF is_member
  <2> QED
    BY <1>2, <1>3, <1>4, <1>6, <1>8, <2>1, <2>2, <2>3, CommitKeeps
<1>9. CASE exists /\ rotate_code(r)
  <2>1. group' = [group EXCEPT !.code = codes + 1] /\ codes' = codes + 1 /\ UNCHANGED members
    BY <1>9 DEF rotate_code
  <2>2. group' \in GroupRow /\ group'.owner = group.owner /\ codes' \in Nat /\ codes' # 0
    BY <1>1, <1>2, <2>1 DEF GroupRow
  <2>3. is_member(group.owner)' = is_member(group.owner)
    BY <2>1, <2>2 DEF is_member
  <2> QED
    BY <1>2, <1>3, <1>4, <1>6, <1>9, <2>1, <2>2, <2>3, CommitKeeps
<1>10. CASE exists /\ remove_member(r)
  <2>1. members' = Others(r.arg) /\ UNCHANGED <<group, codes>> /\ r.op = "remove"
    BY <1>10 DEF remove_member
  <2>2. members' \in Seq(Person) /\ Range(members) \ {r.arg} \subseteq Range(members')
    BY <1>2, <2>1, RemovedOne DEF Others
  <2>3. r.arg # r.user
    BY <1>1, <2>1 DEF Shaped
  <2>4. ~crossed => is_member(group.owner)'
    BY <1>4, <1>5, <1>10, <2>1, <2>2, <2>3 DEF is_member
  <2> QED
    BY <1>2, <1>3, <1>4, <1>6, <1>10, <2>1, <2>2, <2>4, CommitKeeps
<1>11. CASE exists /\ delete_group(r)
  <2>1. group' = NoGroup /\ members' = <<>> /\ codes' = codes
    BY <1>11 DEF delete_group, Closed
  <2>2. group' \in GroupRow /\ members' \in Seq(Person) /\ ~exists'
    BY <2>1 DEF NoGroup, GroupRow, exists
  <2> QED
    BY <1>2, <1>3, <1>4, <1>6, <2>1, <2>2, CommitKeeps
<1> QED
  BY <1>7, <1>8, <1>9, <1>10, <1>11 DEF OwnersChange

LEMMA GroupsInitRight == GroupsInit => GroupInv
<1> SUFFICES ASSUME GroupsInit PROVE GroupInv
  OBVIOUS
<1>1. NoGroup \in GroupRow /\ Blank \in Screen /\ Blank.group = NoGroup
  BY DEF NoGroup, GroupRow, Blank, Screen
<1>2. \A p \in Person : view[p] = Blank
  BY DEF GroupsInit
<1>3. view \in [Person -> Screen]
  <2>1. view = [p \in Person |-> Blank]
    BY DEF GroupsInit
  <2> HIDE DEF Blank, Screen
  <2> QED
    BY <1>1, <2>1
<1>4. ~exists
  BY DEF GroupsInit, exists, NoGroup
<1>5. GroupTyped
  <2>1. group \in GroupRow /\ members \in Seq(Person) /\ codes = 0 /\ made = 0
        /\ requests = {} /\ crossed = FALSE
    BY <1>1 DEF GroupsInit
  <2> QED
    BY <1>3, <2>1 DEF GroupTyped
<1>6. BeforeTheGroup
  BY <1>1, <1>2, <1>4 DEF GroupsInit, BeforeTheGroup
<1> QED
  BY <1>4, <1>5, <1>6 DEF GroupInv, Owned

LEMMA GroupStep == GroupInv /\ [GroupsNext]_groupVars => GroupInv'
<1> SUFFICES ASSUME GroupInv, [GroupsNext]_groupVars PROVE GroupInv'
  OBVIOUS
<1>1. ASSUME NEW p \in Person, Opened(p) PROVE GroupInv'
  BY <1>1, OpenedKeeps
<1>2. ASSUME NEW p \in Person, NEW b \in Offered(p), Make(p, b) PROVE GroupInv'
  BY <1>2, MakeKeeps
<1>3. ASSUME NEW r \in requests, Answered(r) \/ Failed(r) PROVE GroupInv'
  BY <1>3, HeardKeeps
<1>4. ASSUME NEW r \in requests,
             join_by_code(r) \/ leave(r) \/ Successor(r) \/ _require_owner(r)
      PROVE  GroupInv'
  BY <1>4, ChecksKeep
<1>5. ASSUME NEW r \in requests,
             create_group(r) \/ InsertMember(r) \/ LeaveCommits(r) \/ OwnersChange(r)
      PROVE  GroupInv'
  BY <1>5, CreateKeeps, InsertKeeps, LeaveKeeps, ChangeKeeps
<1>6. CASE UNCHANGED groupVars
  BY <1>6 DEF groupVars, GroupInv, GroupTyped, BeforeTheGroup, Owned, Stands, exists, is_member
<1> QED
  BY <1>1, <1>2, <1>3, <1>4, <1>5, <1>6 DEF GroupsNext

\* A group is never left without an owner among its members as long as no leave overlaps
\* another leave or a change of the owner's, for any number of people, requests and
\* lost answers (leave_uncommitted, remove_member).
THEOREM GroupKeepsItsOwner == GroupsSpec => []OwnerAmongMembers
<1>1. GroupInv => OwnerAmongMembers
  BY DEF GroupInv, Owned, OwnerAmongMembers
<1> QED
  BY <1>1, GroupsInitRight, GroupStep, PTL DEF GroupsSpec
=============================================================================
