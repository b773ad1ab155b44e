-------------------------------- MODULE Groups --------------------------------
(***************************************************************************)
(* A group: the rows of api/app/group_service.py and the pages that create *)
(* it, join it and manage it (web/src/app/groups/page.tsx,                 *)
(* groups/join/page.tsx and group/page.tsx).                               *)
(*                                                                         *)
(* Who may do what is read first and acted on later, so requests of two    *)
(* people, or of one whose first request went unanswered, interleave.      *)
(* One group is followed through its life; codes are numbered as they are  *)
(* issued, and a code once seen may be used by anybody.                    *)
(***************************************************************************)
EXTENDS Naturals, FiniteSets, Sequences, SequencesExt

CONSTANTS
    Person, Unowned,
    MAX_GROUP_MEMBERS,
    MaxRequests   \* bound: the requests made in all

ASSUME GroupsAssumption ==
    /\ Unowned \notin Person
    /\ MAX_GROUP_MEMBERS \in Nat \ {0}
    /\ MaxRequests \in Nat

VARIABLES
    group,      \* the row of groups: owner, code, name; Unowned when there is none
    members,    \* the rows of group_members in the order they joined
    codes,      \* how many codes were issued
    view,       \* the group as each person's page shows it
    requests,   \* the requests under way
    made,       \* how many requests were made
    crossed     \* a leave or a removal took effect while another was under way (history)

groupVars == <<group, members, codes, view, requests, made, crossed>>

-----------------------------------------------------------------------------
NoGroup == [owner |-> Unowned, code |-> 0, name |-> 0]

Blank == [group |-> NoGroup, members |-> <<>>, busy |-> FALSE]

GroupsInit ==
    /\ group = NoGroup /\ members = <<>> /\ codes = 0
    /\ view = [p \in Person |-> Blank]
    /\ requests = {} /\ made = 0 /\ crossed = FALSE

exists == group.owner # Unowned

is_member(p) == p \in Range(members)

isOwner(p) == view[p].group.owner = p

-----------------------------------------------------------------------------
(* The pages. *)

\* A link carries its code as a parameter, but codeFrom looks for it in the path: of a
\* pasted link it makes no code any group has.
codeFrom(raw) == IF raw.link THEN 0 ELSE raw.code

\* The groups page creates the group that is followed, or joins with a code or a link.
GroupsPage(p) ==
    IF made = 0 THEN {<<"create", p, 0>>}
    ELSE {<<"join", p, codeFrom(raw)>> : raw \in [code : 1..codes, link : BOOLEAN]}

\* An invite link that is opened joins at once.
JoinGroupView(p) == {<<"join", p, c>> : c \in 1..codes}

Invite(p) == {<<"rotate", p, 0>>}

Members(p) == {<<"remove", m, 0>> : m \in Range(view[p].members) \ {p}}

Settings(p) == {<<"rename", p, 1 - view[p].group.name>>, <<"delete", p, 0>>}

\* What the page of a group offers, which is what its last answer showed.
GroupView(p) ==
    {<<"leave", p, 0>>}
    \cup (IF isOwner(p) THEN Invite(p) \cup Members(p) \cup Settings(p) ELSE {})

Offered(p) == IF view[p].group = NoGroup THEN GroupsPage(p) \cup JoinGroupView(p) ELSE GroupView(p)

\* act: one request at a time, unless no answer came.
Make(p, b) ==
    /\ made < MaxRequests /\ ~view[p].busy
    /\ view' = [view EXCEPT ![p].busy = TRUE]
    /\ requests' = requests \cup
        {[user |-> p, op |-> b[1], arg |-> b[2], value |-> b[3], stage |-> "sent",
          successor |-> Unowned, heard |-> TRUE, no |-> made]}
    /\ made' = made + 1
    /\ UNCHANGED <<group, members, codes, crossed>>

Detail == [group |-> group, members |-> members, busy |-> FALSE]

\* _detail: the answer is the group as it is then, if the person is still in it;
\* after a leave and a deletion the page is left.
Answered(r) ==
    /\ r.stage = "ok" /\ r.heard
    /\ view' = [view EXCEPT ![r.user] =
                IF r.op \in {"leave", "delete"} THEN Blank
                ELSE IF exists /\ is_member(r.user) THEN Detail
                ELSE [@ EXCEPT !.busy = FALSE]]
    /\ requests' = requests \ {r}
    /\ UNCHANGED <<group, members, codes, made, crossed>>

\* Refused, or no answer came; a request not carried out yet may still be.
Failed(r) ==
    /\ r.heard
    /\ view' = [view EXCEPT ![r.user].busy = FALSE]
    /\ requests' = (requests \ {r}) \cup
                    {q \in {[r EXCEPT !.heard = FALSE]} : r.stage \notin {"ok", "refused"}}
    /\ UNCHANGED <<group, members, codes, made, crossed>>

\* The page is opened again, by a member.
Opened(p) ==
    /\ exists /\ is_member(p) /\ view[p] # Detail /\ ~view[p].busy
    /\ view' = [view EXCEPT ![p] = Detail]
    /\ UNCHANGED <<group, members, codes, requests, made, crossed>>

-----------------------------------------------------------------------------
(* group_service.py *)

Then(r, q) == requests' = (requests \ {r}) \cup {q}

\* An answer nobody waits for is dropped.
Reply(r, stage) == requests' = (requests \ {r}) \cup {q \in {[r EXCEPT !.stage = stage]} : r.heard}

Refuse(r) == Reply(r, "refused") /\ UNCHANGED <<group, members, codes, view, made, crossed>>

create_group(r) ==
    /\ r.stage = "sent" /\ r.op = "create"
    /\ group' = [owner |-> r.user, code |-> 1, name |-> 0]
    /\ members' = <<r.user>>
    /\ codes' = 1
    /\ Reply(r, "ok")
    /\ UNCHANGED <<view, made, crossed>>

\* The code is looked up; a full group is refused before the row is inserted.
join_by_code(r) ==
    /\ r.stage = "sent" /\ r.op = "join"
    /\ IF exists /\ r.value = group.code
       THEN /\ \/ is_member(r.user) /\ Reply(r, "ok")
               \/ ~is_member(r.user) /\ Len(members) < MAX_GROUP_MEMBERS
                    /\ Then(r, [r EXCEPT !.stage = "checked"])
               \/ ~is_member(r.user) /\ Len(members) >= MAX_GROUP_MEMBERS /\ Reply(r, "refused")
            /\ UNCHANGED <<group, members, codes, view, made, crossed>>
       ELSE Refuse(r)

\* A conflict with a join of one's own, or with the group's deletion, counts as in.
InsertMember(r) ==
    /\ r.stage = "checked" /\ r.op = "join"
    /\ members' = IF exists /\ ~is_member(r.user) THEN Append(members, r.user) ELSE members
    /\ Reply(r, "ok")
    /\ UNCHANGED <<group, codes, view, made, crossed>>

Others(p) == RemoveFirst(members, p)

\* leave_uncommitted reads the group, and for its owner the longest-standing other.
leave(r) ==
    /\ r.stage = "sent" /\ r.op = "leave"
    /\ IF exists
       THEN /\ Then(r, [r EXCEPT !.stage = IF group.owner = r.user THEN "owner" ELSE "checked"])
            /\ UNCHANGED <<group, members, codes, view, made, crossed>>
       ELSE Refuse(r)

Successor(r) ==
    /\ r.stage = "owner"
    /\ Then(r, [r EXCEPT !.stage = "checked",
                         !.successor = IF Others(r.user) = <<>> THEN r.user ELSE Head(Others(r.user))])
    /\ UNCHANGED <<group, members, codes, view, made, crossed>>

\* The last member closes the group.
Closed == group' = NoGroup /\ members' = <<>>

\* Another leave, removal, or change of the owner's is between its reads and its commit.
Overlapped(r) == \E q \in requests \ {r} : q.op # "join" /\ q.stage \in {"owner", "checked"}

\* Mutant: the owner leaves without handing over.
LeaveCommits_KeepsOwner(r) ==
    /\ r.stage = "checked" /\ r.op = "leave"
    /\ IF r.successor = r.user THEN Closed ELSE members' = Others(r.user) /\ UNCHANGED group
    /\ Reply(r, "ok")
    /\ crossed' = (crossed \/ Overlapped(r))
    /\ UNCHANGED <<codes, view, made>>

LeaveCommits(r) ==
    /\ r.stage = "checked" /\ r.op = "leave"
    /\ IF r.successor = r.user THEN Closed
       ELSE /\ members' = Others(r.user)
            /\ group' = IF r.successor = Unowned \/ ~exists THEN group
                        ELSE [group EXCEPT !.owner = r.successor]
    /\ Reply(r, "ok")
    /\ crossed' = (crossed \/ Overlapped(r))
    /\ UNCHANGED <<codes, view, made>>

OwnersOps == {"rename", "remove", "rotate", "delete"}

MayManage(p) == group.owner = p

_require_owner(r) ==
    /\ r.stage = "sent" /\ r.op \in OwnersOps
    /\ IF exists /\ MayManage(r.user)
       THEN /\ Then(r, [r EXCEPT !.stage = "checked"])
            /\ UNCHANGED <<group, members, codes, view, made, crossed>>
       ELSE Refuse(r)

rename(r) == r.op = "rename" /\ group' = [group EXCEPT !.name = r.value] /\ UNCHANGED <<members, codes>>

remove_member(r) == r.op = "remove" /\ members' = Others(r.arg) /\ UNCHANGED <<group, codes>>

rotate_code(r) ==
    /\ r.op = "rotate"
    /\ codes' = codes + 1
    /\ group' = [group EXCEPT !.code = codes + 1]
    /\ UNCHANGED members

delete_group(r) == r.op = "delete" /\ Closed /\ UNCHANGED codes

\* The change is committed; there is nothing to change in a group that is gone.
OwnersChange(r) ==
    /\ r.stage = "checked" /\ r.op \in OwnersOps
    /\ IF exists THEN rename(r) \/ remove_member(r) \/ rotate_code(r) \/ delete_group(r)
       ELSE UNCHANGED <<group, members, codes>>
    /\ Reply(r, "ok")
    /\ crossed' = (crossed \/ Overlapped(r))
    /\ UNCHANGED <<view, made>>

GroupsNext ==
    \/ \E p \in Person : Opened(p) \/ \E b \in Offered(p) : Make(p, b)
    \/ \E r \in requests :
        \/ Answered(r) \/ Failed(r)
        \/ create_group(r) \/ join_by_code(r) \/ InsertMember(r)
        \/ leave(r) \/ Successor(r) \/ LeaveCommits(r)
        \/ _require_owner(r) \/ OwnersChange(r)

GroupsSpec == GroupsInit /\ [][GroupsNext]_groupVars

-----------------------------------------------------------------------------
(* Properties. *)

\* A group is never left without an owner among its members, who alone can rename,
\* close or prune it, as long as no leave overlaps another leave or a change of the
\* owner's (leave_uncommitted hands over on what it read before).
OwnerAmongMembers == exists /\ ~crossed => is_member(group.owner)
=============================================================================
