-------------------------------- MODULE NewRoom --------------------------------
(***************************************************************************)
(* Opening a room: the form of web/src/app/new/page.tsx with its default   *)
(* rules, and what the API makes of it.                                    *)
(*                                                                         *)
(* A number field holds the text typed; it is modelled by the number the   *)
(* text reads as, cents for money, or NotANumber.  The form's limits and   *)
(* the API's validators (TaidiRules, MahjongRules) are written apart.      *)
(* Saving a default is one step here; how saves of a profile interleave is *)
(* the matter of Profile, and when a room is refused that of RoomStore.    *)
(***************************************************************************)
EXTENDS Integers

CONSTANTS
    Stored,        \* the defaults that may be saved at the start: sets of at most one for each game
    Texts,         \* bound: what is typed into the number fields of each game's form
    MaxActs        \* bound: the changes to the form, defaults saved and rooms asked for

Taidi == INSTANCE TaidiRules

Mahjong == INSTANCE MahjongRules

NotANumber == -1

Game == {"taidi", "mahjong"}

ASSUME NewRoomAssumption ==
    /\ \A g \in Game : Texts[g] \subseteq Nat \cup {NotANumber}
    /\ MaxActs \in Nat

VARIABLES
    saved,       \* the default rules stored for each game
    profile,     \* the defaults the phone knows of; none until its profile is loaded
    edit,        \* the form of each game once it has been edited
    screen,      \* whether Create waits, and the room the phone was taken to
    posted,      \* the requests under way
    rooms,       \* the rooms created and not disbanded
    api,         \* the API that is deployed, "old" or "new"
    acts         \* how many of those there were; also the numbers of rooms

newRoomVars == <<saved, profile, edit, screen, posted, rooms, api, acts>>

-----------------------------------------------------------------------------
(* The rules a form stands for. *)

DEFAULT_RULES ==
    [card_value_cents |-> 20, base_cards |-> 2, multipliers_enabled |-> TRUE,
     double_threshold |-> 10, triple_threshold |-> 13, difference_payouts |-> TRUE,
     special_hands_enabled |-> TRUE, special_hand_cards |-> 5]

Payout(hu, zimo) == [hu |-> hu, zimo |-> zimo]

BAN_3_6_TABLE ==
    <<Payout(200, 200), Payout(350, 250), Payout(550, 350), Payout(1000, 600), Payout(2000, 1100)>>

BAN_5_1_TABLE ==
    <<Payout(200, 100), Payout(400, 200), Payout(800, 400), Payout(1600, 800),
      Payout(3200, 1600), Payout(6400, 3200), Payout(12800, 6400)>>

DEFAULT_MAHJONG_RULES ==
    [cents_per_unit |-> 1, yao_amount |-> 100, gang_amount |-> 100, zimo_bonus_amount |-> 0,
     klppdd_amount |-> 0, max_tai |-> 5, tai_table |-> BAN_3_6_TABLE]

HIGH_STAKES_MAHJONG_RULES ==
    [cents_per_unit |-> 1, yao_amount |-> 150, gang_amount |-> 150, zimo_bonus_amount |-> 250,
     klppdd_amount |-> 250, max_tai |-> 7, tai_table |-> BAN_5_1_TABLE]

MAX_TAI_LIMIT == 20
MAX_ACTION_CENTS == 100000
MAX_TAI_CENTS == 1000000

wholeNumber(raw, min, max) == raw \in min..max

dollarsToCents(raw, maxCents) == raw \in 0..maxCents

\* Rules become texts that read as the same numbers: cents are shown with two decimals.
taidiForm(rules) == rules

\* Mutant: what was typed into a field that is hidden now is sent.
Hidden_Sent(on, raw, default) == raw

\* Fields of a switch that is off are not checked, and the standard number is sent.
Hidden(on, raw, default) == IF on THEN raw ELSE default

TaidiFieldsRight(f) ==
    /\ dollarsToCents(f.card_value_cents, 10000)
    /\ wholeNumber(f.base_cards, 0, 52)
    /\ f.multipliers_enabled =>
            /\ wholeNumber(f.double_threshold, 1, 52) /\ wholeNumber(f.triple_threshold, 1, 52)
            /\ f.triple_threshold >= f.double_threshold
    /\ f.special_hands_enabled => wholeNumber(f.special_hand_cards, 0, 52)

\* The rules, if every field shown is right.
checkTaidi(f) ==
    IF ~TaidiFieldsRight(f) THEN {}
    ELSE {[card_value_cents |-> f.card_value_cents, base_cards |-> f.base_cards,
           multipliers_enabled |-> f.multipliers_enabled,
           double_threshold |->
                Hidden(f.multipliers_enabled, f.double_threshold, DEFAULT_RULES.double_threshold),
           triple_threshold |->
                Hidden(f.multipliers_enabled, f.triple_threshold, DEFAULT_RULES.triple_threshold),
           difference_payouts |-> f.difference_payouts,
           special_hands_enabled |-> f.special_hands_enabled,
           special_hand_cards |-> Hidden(f.special_hands_enabled, f.special_hand_cards,
                                         DEFAULT_RULES.special_hand_cards)]}

Amount == {"yao_amount", "gang_amount", "zimo_bonus_amount", "klppdd_amount"}

\* The form has no field for the unit: amounts are cents.
mahjongForm(rules) ==
    [amounts |-> [a \in Amount |-> rules[a]], maxTai |-> rules.max_tai, table |-> rules.tai_table]

MahjongFieldsRight(f) ==
    /\ \A a \in Amount : dollarsToCents(f.amounts[a], MAX_ACTION_CENTS)
    /\ \A tai \in 1..f.maxTai :
            /\ tai \in DOMAIN f.table
            /\ dollarsToCents(f.table[tai].hu, MAX_TAI_CENTS)
            /\ dollarsToCents(f.table[tai].zimo, MAX_TAI_CENTS)

\* Rows above the highest tai are kept in the form, and not sent.
checkMahjong(f) ==
    IF ~MahjongFieldsRight(f) THEN {}
    ELSE {[cents_per_unit |-> 1, max_tai |-> f.maxTai,
           yao_amount |-> f.amounts["yao_amount"], gang_amount |-> f.amounts["gang_amount"],
           zimo_bonus_amount |-> f.amounts["zimo_bonus_amount"],
           klppdd_amount |-> f.amounts["klppdd_amount"],
           tai_table |-> [tai \in 1..f.maxTai |-> f.table[tai]]]}

\* The form a game opens with: the edits, else the saved default, else the standard rules.
Shown(g) ==
    LET standard == IF g = "taidi" THEN DEFAULT_RULES ELSE DEFAULT_MAHJONG_RULES
        rules == CHOOSE r \in IF profile[g] = {} THEN {standard} ELSE profile[g] : TRUE
    IN  IF edit[g] # {} THEN CHOOSE f \in edit[g] : TRUE
        ELSE IF g = "taidi" THEN taidiForm(rules) ELSE mahjongForm(rules)

check(g, f) == IF g = "taidi" THEN checkTaidi(f) ELSE checkMahjong(f)

shownRules(g) == check(g, Shown(g))

\* What was saved at the start was saved by the form.
ASSUME StoredAssumption ==
    \A s \in Stored :
        /\ s = [g \in Game |-> s[g]]
        /\ \A rules \in s["taidi"] :
                rules \in Taidi!RuleShape /\ checkTaidi(taidiForm(rules)) = {rules}
        /\ \A rules \in s["mahjong"] :
                /\ rules.max_tai \in 1..MAX_TAI_LIMIT
                /\ \A tai \in DOMAIN rules.tai_table : rules.tai_table[tai] \in [hu : Int, zimo : Int]
                /\ checkMahjong(mahjongForm(rules)) = {rules}

-----------------------------------------------------------------------------
(* Filling in the form. *)

Unsaved == [g \in Game |-> {}]

Opened0 == [busy |-> FALSE, entered |-> 0]

NewRoomInit ==
    /\ saved \in Stored /\ profile = Unsaved /\ edit = Unsaved
    /\ screen = Opened0
    /\ posted = {} /\ rooms = {} /\ api \in {"old", "new"}
    /\ acts = 0

server == <<posted, rooms, api>>

\* The profile lands after the form may have been opened or edited already.
ProfileLoaded ==
    /\ profile # saved
    /\ profile' = saved
    /\ UNCHANGED <<saved, edit, screen, acts, server>>

\* The first edit takes over the form as it stands, and no default replaces it again.
Edit(g, f) ==
    /\ screen.entered = 0 /\ acts < MaxActs
    /\ Shown(g) # f
    /\ edit' = [edit EXCEPT ![g] = {f}]
    /\ acts' = acts + 1
    /\ UNCHANGED <<saved, profile, screen, server>>

TaidiNumbers(f) ==
    {"card_value_cents", "base_cards"}
    \cup (IF f.multipliers_enabled THEN {"double_threshold", "triple_threshold"} ELSE {})
    \cup (IF f.special_hands_enabled THEN {"special_hand_cards"} ELSE {})

Toggles == {"multipliers_enabled", "difference_payouts", "special_hands_enabled"}

setT ==
    LET f == Shown("taidi")
    IN  \/ \E key \in TaidiNumbers(f), raw \in Texts["taidi"] : Edit("taidi", [f EXCEPT ![key] = raw])
        \/ \E key \in Toggles : Edit("taidi", [f EXCEPT ![key] = ~@])

setM ==
    LET f == Shown("mahjong")
    IN  \E a \in Amount, raw \in Texts["mahjong"] : Edit("mahjong", [f EXCEPT !.amounts[a] = raw])

setTaiRow ==
    LET f == Shown("mahjong")
    IN  \E tai \in {1, f.maxTai}, raw \in Texts["mahjong"] :
            \/ Edit("mahjong", [f EXCEPT !.table[tai].hu = raw])
            \/ Edit("mahjong", [f EXCEPT !.table[tai].zimo = raw])

\* A row that was not there before starts at nothing.
setMaxTai ==
    LET f == Shown("mahjong")
    IN  \E max \in {f.maxTai - 1, f.maxTai + 1} \cap (1..MAX_TAI_LIMIT) :
            Edit("mahjong",
                 [f EXCEPT !.maxTai = max,
                           !.table = [tai \in DOMAIN f.table \cup 1..max |->
                                        IF tai \in DOMAIN f.table THEN f.table[tai]
                                        ELSE Payout(0, 0)]])

Presets ==
    \E rules \in {DEFAULT_MAHJONG_RULES, HIGH_STAKES_MAHJONG_RULES} \cup profile["mahjong"] :
        Edit("mahjong", mahjongForm(rules))

\* Answered; the answer is the profile.
saveDefault(g) ==
    /\ screen.entered = 0 /\ acts < MaxActs
    /\ shownRules(g) # {} /\ saved[g] # shownRules(g)
    /\ saved' = [saved EXCEPT ![g] = shownRules(g)]
    /\ profile' = saved'
    /\ acts' = acts + 1
    /\ UNCHANGED <<edit, screen, server>>

-----------------------------------------------------------------------------
(* Creating the room. *)

parse_rules(g, rules) ==
    IF g = "taidi" THEN Taidi!ValidRules(rules) ELSE Mahjong!ValidRules(rules)

\* Of the rules only matters whether the API takes them.
Post(op, g, valid) ==
    [op |-> op, game |-> g, valid |-> valid, stage |-> "sent", unit |-> 1, no |-> acts + 1,
     heard |-> TRUE]

handleCreate(g) ==
    /\ screen = Opened0 /\ acts < MaxActs
    /\ \E rules \in shownRules(g) :
            posted' = posted \cup {Post("create", g, parse_rules(g, rules))}
    /\ screen' = [screen EXCEPT !.busy = TRUE]
    /\ acts' = acts + 1
    /\ UNCHANGED <<saved, profile, edit, rooms, api>>

\* Mutant: the answer is not looked at.
EchoesCents_Always(r) == TRUE

\* An API from before amounts were cents gives rules without a unit back.
EchoesCents(r) == r.game = "mahjong" => r.unit = 1

\* The phone goes to the room; one it may not play in is disbanded, if that works.
Created(r) ==
    /\ r.op = "create" /\ r.stage = "created" /\ r.heard
    /\ IF EchoesCents(r)
       THEN /\ screen' = [busy |-> FALSE, entered |-> r.no]
            /\ edit' = Unsaved
            /\ posted' = posted \ {r}
       ELSE /\ posted' = (posted \ {r}) \cup {[r EXCEPT !.op = "disband", !.stage = "sent"]}
            /\ UNCHANGED <<screen, edit>>
    /\ UNCHANGED <<saved, profile, rooms, api, acts>>

\* Refused, not answered, or created and disbanded: Create can be tapped again.
NotCreated(r) ==
    /\ r.op \in {"create", "disband"} /\ r.heard /\ r.stage # "created"
    /\ screen' = [screen EXCEPT !.busy = FALSE]
    /\ posted' = (posted \ {r}) \cup
                    {q \in {[r EXCEPT !.heard = FALSE]} : r.stage \notin {"refused", "disbanded"}}
    /\ UNCHANGED <<saved, profile, edit, rooms, api, acts>>

\* The answer itself is lost.
CreatedUnheard(r) ==
    /\ r.op = "create" /\ r.heard /\ r.stage = "created"
    /\ screen' = [screen EXCEPT !.busy = FALSE]
    /\ posted' = posted \ {r}
    /\ UNCHANGED <<saved, profile, edit, rooms, api, acts>>

\* The room is left for the form again, while it is open or after it is over.
BackToNew ==
    /\ screen.entered # 0
    /\ screen' = Opened0
    /\ UNCHANGED <<saved, profile, edit, acts, server>>

-----------------------------------------------------------------------------
(* events_store.py and routers/rooms.py *)

phone == <<saved, profile, edit, screen, acts>>

Done(r, stage) == posted' = (posted \ {r}) \cup {q \in {[r EXCEPT !.stage = stage]} : r.heard}

\* Rules the API does not take; or the person is in another room.
Refused(r) ==
    /\ r.stage = "sent" /\ r.op = "create"
    /\ Done(r, "refused")
    /\ UNCHANGED <<phone, rooms, api>>

\* The old API reads the amounts as chips.
create(r) ==
    /\ r.stage = "sent" /\ r.op = "create" /\ r.valid
    /\ LET unit == IF r.game = "mahjong" /\ api = "old" THEN Mahjong!LEGACY_CENTS_PER_CHIP ELSE 1
       IN  /\ rooms' = rooms \cup {[no |-> r.no, unit |-> unit]}
           /\ posted' = (posted \ {r}) \cup
                {q \in {[r EXCEPT !.stage = "created", !.unit = unit]} : r.heard}
    /\ UNCHANGED <<phone, api>>

disband(r) ==
    /\ r.stage = "sent" /\ r.op = "disband"
    /\ rooms' = {room \in rooms : room.no # r.no}
    /\ Done(r, "disbanded")
    /\ UNCHANGED <<phone, api>>

Deployed ==
    /\ api = "old" /\ api' = "new"
    /\ UNCHANGED <<phone, posted, rooms>>

NewRoomNext ==
    \/ ProfileLoaded \/ setT \/ setM \/ setTaiRow \/ setMaxTai \/ Presets
    \/ \E g \in Game : saveDefault(g) \/ handleCreate(g)
    \/ BackToNew \/ Deployed
    \/ \E r \in posted :
        \/ Created(r) \/ NotCreated(r) \/ CreatedUnheard(r)
        \/ Refused(r) \/ create(r) \/ disband(r)

NewRoomSpec == NewRoomInit /\ [][NewRoomNext]_newRoomVars

-----------------------------------------------------------------------------
(* Properties. *)

\* The API takes the rules of every edited form that lets Create be tapped, whatever its
\* hidden fields hold, and the form takes every default that was saved for the same rules
\* ("a saved default can never be one the API would refuse").
RulesAgree ==
    \A g \in Game :
        /\ \A f \in edit[g] : \A rules \in check(g, f) : parse_rules(g, rules)
        /\ \A rules \in saved[g] :
                /\ parse_rules(g, rules)
                /\ check(g, IF g = "taidi" THEN taidiForm(rules) ELSE mahjongForm(rules)) = {rules}

\* The phone is never taken into a game played in chips of fifty cents by an API
\* from before the amounts were cents (handleCreate).
StakesAreCents == \A room \in rooms : room.no = screen.entered => room.unit = 1
=============================================================================
