------------------------------- MODULE MCPages --------------------------------
(***************************************************************************)
(* Small instance of four parts of the app that share no state and no      *)
(* call: Friends, Groups, NewRoom and RoomStore.  Interleaving them would  *)
(* show nothing new, so each behaviour moves one of them, chosen at the    *)
(* start.                                                                  *)
(***************************************************************************)
EXTENDS Friends, Groups, NewRoom, RoomStore, TLC

CONSTANTS ann, ben, cat, dan, eve, nobody

VARIABLE part

MCAccount == {ann, ben}

MCPerson == {cat, dan, eve}

Alike == Permutations(MCAccount)

\* Nothing saved, or rules at the edges of what the form takes.
MCStored ==
    {Unsaved,
     [taidi |-> {[DEFAULT_RULES EXCEPT !.double_threshold = 52, !.triple_threshold = 52,
                                       !.special_hands_enabled = FALSE]},
      mahjong |-> {[HIGH_STAKES_MAHJONG_RULES EXCEPT !.max_tai = 1,
                                                     !.tai_table = <<Payout(0, 1000000)>>]}]}

\* Cards: too few for a threshold, too many for a hand.  Amounts: no number, and one.
MCTexts == [taidi |-> {0, 53}, mahjong |-> {NotANumber, 53}]

\* The parts that do not move rest in one state.
PagesInit ==
    /\ part \in {"friends", "groups", "new room", "rooms"}
    /\ FriendsInit /\ GroupsInit /\ NewRoomInit /\ RoomStoreInit
    /\ part # "new room" => saved = Unsaved
    /\ part # "new room" \/ saved # Unsaved => api = "new"

PagesNext ==
    /\ UNCHANGED part
    /\ \/ part = "friends" /\ FriendsNext /\ UNCHANGED <<groupVars, newRoomVars, storeVars>>
       \/ part = "groups" /\ GroupsNext /\ UNCHANGED <<friendVars, newRoomVars, storeVars>>
       \/ part = "new room" /\ NewRoomNext /\ UNCHANGED <<friendVars, groupVars, storeVars>>
       \/ part = "rooms" /\ RoomStoreNext /\ UNCHANGED <<friendVars, groupVars, newRoomVars>>

PagesSpec ==
    PagesInit /\ [][PagesNext]_<<part, friendVars, groupVars, newRoomVars, storeVars>>

\* Bound: what follows a race the one-active-room rule accepts is not explored.
Unexcused == ~excused
=============================================================================
