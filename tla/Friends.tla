------------------------------- MODULE Friends -------------------------------
(***************************************************************************)
(* Friend requests: the rows of api/app/friends_service.py and the Friends *)
(* page of the web client (web/src/app/friends/page.tsx), one page for     *)
(* each account.                                                           *)
(*                                                                         *)
(* Every call reads before it writes, and calls of both people interleave. *)
(* A unique index lets one row exist for a pair, in whichever direction.   *)
(* A page shows what its last refresh listed; a call keeps the page it was *)
(* made from, and a call given up on may still be carried out.             *)
(***************************************************************************)
EXTENDS Naturals, FiniteSets

CONSTANTS
    Account, Nobody,
    MaxTaps       \* bound: the buttons pressed in all

ASSUME FriendsAssumption == Nobody \notin Account /\ MaxTaps \in Nat

VARIABLES
    edges,     \* the rows of friendships
    page,      \* what each account's page shows
    calls,     \* the calls under way
    presses,   \* how many buttons were pressed; also the ids given to rows
    wanted,    \* <<p, q>>: p tapped Add or Accept for q (history)
    added      \* <<p, q>>: a request of p to q has taken effect (history)

friendVars == <<edges, page, calls, presses, wanted, added>>

-----------------------------------------------------------------------------
(* The rows. *)

Between(p, q) == {e \in edges : {e.requester, e.addressee} = {p, q}}

Involving(p) == {e \in edges : p \in {e.requester, e.addressee}}

other(e, p) == IF e.requester = p THEN e.addressee ELSE e.requester

Row(e) == {r \in edges : r.id = e.id}

Accepted(rows) == (edges \ rows) \cup {[r EXCEPT !.status = "accepted"] : r \in rows}

\* Taps on behalf of which a call may still take effect outlive the row.
Dropped(rows) ==
    LET gone(p, q) == \E r \in rows : {r.requester, r.addressee} = {p, q}
        awaited(p, q) == \E c \in calls : c.user = p /\ c.target = q /\ c.op \in {"add", "accept"}
    IN  /\ edges' = edges \ rows
        /\ wanted' = {w \in wanted : gone(w[1], w[2]) => awaited(w[1], w[2])}
        /\ added' = {w \in added : ~gone(w[1], w[2])}

-----------------------------------------------------------------------------
(* The page. *)

\* People are suggested who were played with and are not connected; here
\* everybody has played with everybody.
played_with(p) == {q \in Account \ {p} : Between(p, q) = {}}

FriendsInit ==
    /\ edges = {} /\ calls = {} /\ presses = 0 /\ wanted = {} /\ added = {}
    /\ page = [p \in Account |->
                [data |-> {}, suggestions |-> Account \ {p}, results |-> {}, busy |-> Nobody]]

Unread == {Nobody}

Call(p, op, target, id) ==
    [user |-> p, op |-> op, target |-> target, id |-> id, stage |-> "sent", found |-> {},
     retry |-> TRUE, heard |-> TRUE, results |-> page[p].results,
     list |-> Unread, suggestions |-> Unread, no |-> presses + 1]

\* The buttons of the three tabs: on friends, on requests received and sent, and on
\* what a search found and who was played with.
FriendsTab(p) ==
    {<<"remove", other(e, p), 0>> : e \in {d \in page[p].data : d.status = "accepted"}}

RequestsTab(p) ==
    LET pending == {e \in page[p].data : e.status = "pending"}
    IN  {<<"accept", e.requester, e.id>> : e \in {d \in pending : d.addressee = p}}
        \cup {<<"dismiss", other(e, p), e.id>> : e \in pending}

AddTab(p) == {<<"add", q, 0>> : q \in page[p].results \cup page[p].suggestions}

Buttons(p) == FriendsTab(p) \cup RequestsTab(p) \cup AddTab(p)

key(b) == IF b[3] = 0 THEN b[2] ELSE b[3]

\* act: the row's buttons are disabled, but one row is busy at a time.
Press(p, b) ==
    /\ presses < MaxTaps
    /\ page[p].busy # key(b)
    /\ page' = [page EXCEPT ![p].busy = key(b)]
    /\ calls' = calls \cup {Call(p, b[1], b[2], b[3])}
    /\ presses' = presses + 1
    /\ wanted' = IF b[1] \in {"add", "accept"} THEN wanted \cup {<<p, b[2]>>} ELSE wanted
    /\ UNCHANGED <<edges, added>>

\* runSearch, answered: usernames and addresses match one account exactly.
runSearch(p, q) ==
    /\ presses < MaxTaps /\ q # p
    /\ page' = [page EXCEPT ![p].results = {q}, ![p].busy = Nobody]
    /\ presses' = presses + 1
    /\ UNCHANGED <<edges, calls, wanted, added>>

\* Once the call went through, both lists are fetched, each when it is.
ListRead(c) ==
    /\ c.stage = "ok" /\ c.heard /\ c.list = Unread
    /\ calls' = (calls \ {c}) \cup {[c EXCEPT !.list = Involving(c.user)]}
    /\ UNCHANGED <<edges, page, presses, wanted, added>>

SuggestionsRead(c) ==
    /\ c.stage = "ok" /\ c.heard /\ c.suggestions = Unread
    /\ calls' = (calls \ {c}) \cup {[c EXCEPT !.suggestions = played_with(c.user)]}
    /\ UNCHANGED <<edges, page, presses, wanted, added>>

\* The results are those the button was pressed over, without its person.
Refreshed(c) ==
    /\ c.stage = "ok" /\ c.heard /\ Unread \notin {c.list, c.suggestions}
    /\ page' = [page EXCEPT ![c.user] =
                [data |-> c.list, suggestions |-> c.suggestions, busy |-> Nobody,
                 results |-> IF c.results = {} THEN @.results
                             ELSE IF c.id = 0 THEN c.results \ {c.target} ELSE c.results]]
    /\ calls' = calls \ {c}
    /\ UNCHANGED <<edges, presses, wanted, added>>

\* Refused, or no answer came; a call not carried out yet may still be.
GaveUp(c) ==
    /\ c.heard
    /\ page' = [page EXCEPT ![c.user].busy = Nobody]
    /\ calls' = (calls \ {c}) \cup
                    {d \in {[c EXCEPT !.heard = FALSE, !.results = {}]} :
                        c.stage \notin {"ok", "refused"}}
    /\ UNCHANGED <<edges, presses, wanted, added>>

-----------------------------------------------------------------------------
(* friends_service.py: every operation reads, and writes later. *)

\* An answer nobody waits for is dropped.
Answer(c, stage) ==
    calls' = (calls \ {c}) \cup {d \in {[c EXCEPT !.stage = stage, !.found = {}]} : c.heard}

Found(c, rows) == calls' = (calls \ {c}) \cup {[c EXCEPT !.stage = "read", !.found = rows]}

\* Mutant: a request sent twice counts as theirs.
Theirs_Any(c, rows) == {e \in rows : e.status = "pending"}

Theirs(c, rows) == {e \in rows : e.status = "pending" /\ e.requester # c.user}

\* send_request looks the pair up, again after a conflict.
send_request(c) ==
    /\ c.stage = "sent" /\ c.op = "add"
    /\ LET rows == Between(c.user, c.target)
       IN  IF rows \ Theirs(c, rows) # {} THEN Answer(c, "refused") ELSE Found(c, rows)
    /\ UNCHANGED <<edges, page, presses, wanted, added>>

\* They asked first: their row is accepted, if it is still there.
AcceptTheirs(c) ==
    /\ c.stage = "read" /\ c.op = "add" /\ c.found # {}
    /\ LET rows == {r \in edges : \E e \in c.found : r.id = e.id}
       IN  /\ edges' = Accepted(rows)
           /\ added' = added \cup {<<c.user, c.target>> : r \in rows}
    /\ Answer(c, "ok")
    /\ UNCHANGED <<page, presses, wanted>>

\* Mutant: the index is on the pair in the order it was asked.
Conflicts_OneWay(p, q) == {e \in edges : e.requester = p /\ e.addressee = q}

\* uq_friendships_unordered_pair
Conflicts(p, q) == Between(p, q)

Insert(c) ==
    /\ c.stage = "read" /\ c.op = "add" /\ c.found = {}
    /\ IF Conflicts(c.user, c.target) = {}
       THEN /\ edges' = edges \cup {[id |-> c.no, requester |-> c.user, addressee |-> c.target,
                                     status |-> "pending"]}
            /\ added' = added \cup {<<c.user, c.target>>}
            /\ Answer(c, "ok")
       ELSE /\ IF c.retry
               THEN calls' = (calls \ {c}) \cup {[c EXCEPT !.stage = "sent", !.retry = FALSE]}
               ELSE Answer(c, "refused")
            /\ UNCHANGED <<edges, added>>
    /\ UNCHANGED <<page, presses, wanted>>

accept_request(c) ==
    /\ c.stage = "sent" /\ c.op = "accept"
    /\ LET rows == {r \in Row(c) : r.addressee = c.user /\ r.status = "pending"}
       IN  IF rows = {} THEN Answer(c, "refused") ELSE Found(c, rows)
    /\ UNCHANGED <<edges, page, presses, wanted, added>>

\* Withdrawn or already accepted in between: refused as well.
AcceptRow(c) ==
    /\ c.stage = "read" /\ c.op = "accept"
    /\ LET rows == {r \in Row(c) : r.status = "pending"}
       IN  edges' = Accepted(rows) /\ Answer(c, IF rows = {} THEN "refused" ELSE "ok")
    /\ UNCHANGED <<page, presses, wanted, added>>

\* Decline and cancel; of a row accepted in between, too.
delete_edge(c) ==
    /\ c.stage = "sent" /\ c.op = "dismiss"
    /\ LET rows == {r \in Row(c) : c.user \in {r.requester, r.addressee}}
       IN  IF rows = {} THEN Answer(c, "refused") ELSE Found(c, rows)
    /\ UNCHANGED <<edges, page, presses, wanted, added>>

DeleteRow(c) ==
    /\ c.stage = "read" /\ c.op = "dismiss"
    /\ Dropped(Row(c))
    /\ Answer(c, "ok")
    /\ UNCHANGED <<page, presses>>

unfriend(c) ==
    /\ c.stage = "sent" /\ c.op = "remove"
    /\ LET rows == Between(c.user, c.target)
       IN  Dropped(rows) /\ Answer(c, IF rows = {} THEN "refused" ELSE "ok")
    /\ UNCHANGED <<page, presses>>

FriendsNext ==
    \/ \E p \in Account :
        \/ \E b \in Buttons(p) : Press(p, b)
        \/ \E q \in Account : runSearch(p, q)
    \/ \E c \in calls :
        \/ ListRead(c) \/ SuggestionsRead(c) \/ Refreshed(c) \/ GaveUp(c)
        \/ send_request(c) \/ AcceptTheirs(c) \/ Insert(c)
        \/ accept_request(c) \/ AcceptRow(c) \/ delete_edge(c) \/ DeleteRow(c) \/ unfriend(c)

FriendsSpec == FriendsInit /\ [][FriendsNext]_friendVars

-----------------------------------------------------------------------------
(* Properties. *)

\* Nobody becomes a friend without having tapped Add or Accept for the other since
\* the two were last unconnected: not by a request asked twice, nor by a call that
\* arrives after its row was withdrawn and asked for anew.
OnlyByConsent ==
    \A e \in edges : e.status = "accepted" => <<e.addressee, e.requester>> \in wanted

\* Two people who have both asked are friends, also when their requests cross and
\* one of them loses the race to insert ("Two people who both tapped Add have
\* already agreed", send_request).
MutualAddsMakeFriends ==
    \A p, q \in Account :
        {<<p, q>>, <<q, p>>} \subseteq added => \E e \in Between(p, q) : e.status = "accepted"
=============================================================================
