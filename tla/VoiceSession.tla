---------------------------- MODULE VoiceSession ----------------------------
(***************************************************************************)
(* internal/voice: a dialogue that collects intent, category and filters   *)
(* over several requests.  What is still missing is kept in Redis between  *)
(* the requests of a dialogue; nothing orders them, and every request      *)
(* reads the catalogue several times, in transactions of their own, while  *)
(* new snapshots are published.                                            *)
(*                                                                         *)
(* A filter value that is the JSON null says nothing (Merge skips it) and  *)
(* is not told apart from an absent one.                                   *)
(***************************************************************************)
EXTENDS Naturals, FiniteSets

CONSTANTS
  Starts,           \* POST /api/voice/start requests; a dialogue is named after its start
  Continues,        \* POST /api/voice/continue requests
  Intents,          \* "cheapest", "search"
  Declared,         \* Declared[c][k]: options of filter k in the schema of category c
  Booleans,         \* filters of type boolean: they have no options, any boolean may be said
  Catalogs,         \* the snapshots that may be published, see CatalogsAreDeclared
  MaxPublications   \* bound: publications in a behaviour

Requests == Starts \cup Continues
Categories == DOMAIN Declared
None == "none"

(* A snapshot maps its visible categories to the filter values on offer.   *)
ASSUME CatalogsAreDeclared ==
  \A s \in Catalogs :
    /\ DOMAIN s \subseteq Categories
    /\ \A c \in DOMAIN s :
         /\ DOMAIN s[c] = DOMAIN Declared[c]
         /\ \A k \in DOMAIN s[c] : s[c][k] \subseteq Declared[c][k]
ASSUME NoneIsNoCategory == {None, "nothing"} \cap (Categories \cup Intents) = {}
ASSUME TwoEndpoints == Starts \cap Continues = {}
ASSUME PublicationsBounded == MaxPublications \in Nat

VARIABLES
  catalog,    \* the latest published snapshot
  published,  \* publications so far
  sessions,   \* Redis: sessions[d], Nothing if the key does not exist
  pc, dialogue, categories, state, command,   \* locals of a request, see VoiceTypeOK
  stated,     \* originalUpdate.Filters of a request
  seen,       \* history: snapshots that were current while a request ran
  said,       \* history: said[d], what the parser heard as <<category, key, value>>
  completed   \* history: dialogues whose result has been returned

store    == <<catalog, published>>
locals   == <<pc, dialogue, categories, state, command, stated>>
voiceHistory  == <<seen, said, completed>>
voiceVars     == <<store, sessions, locals, voiceHistory>>

Nothing == [intent |-> None, category |-> "nothing", filters |-> <<>>]

FiltersOf(c) ==
  IF c = None THEN {<<>>}
  ELSE UNION {[ks -> UNION {Declared[c][k] : k \in ks}] : ks \in SUBSET DOMAIN Declared[c]}

-----------------------------------------------------------------------------
(* Pure decisions (state.go, live_validation.go).                          *)

(* The schema of c in the vocabulary: the declared options of every        *)
(* visible category.                                                       *)
Configured(visible, c) ==
  IF c \in visible THEN [k \in {k \in DOMAIN Declared[c] : Declared[c][k] # {}} |-> Declared[c][k]]
  ELSE <<>>

(* GetFilterSchema: the declared options on offer now; a boolean filter is *)
(* returned without options as soon as a product on offer has a value of   *)
(* it, and validFilter then takes either boolean.                          *)
Live(c) ==
  IF c \in DOMAIN catalog
    THEN [k \in {k \in DOMAIN catalog[c] : catalog[c][k] # {}} |->
            IF k \in Booleans THEN Declared[c][k] ELSE catalog[c][k]]
  ELSE <<>>

ValidFilter(schema, k, v) == k \in DOMAIN schema /\ v \in schema[k]

Valid(p, visible, schema) ==
  /\ p.category = None \/ p.category \in visible
  /\ \A k \in DOMAIN p.filters : ValidFilter(schema, k, p.filters[k])

RequiredKeys(c) == IF c = "milk" THEN {"volumeMl", "fatPercent"} ELSE {}

Without(filters, keys) == [k \in DOMAIN filters \ keys |-> filters[k]]

(* clarifyUnavailableMilk: the required values that were declared and are  *)
(* not on offer become missing.                                            *)
Unavailable(c, filters, configured, live) ==
  {k \in RequiredKeys(c) \cap DOMAIN filters :
     ValidFilter(configured, k, filters[k]) /\ ~ValidFilter(live, k, filters[k])}

Clarified(c, filters, configured, live) ==
  Without(filters, Unavailable(c, filters, configured, live))

Selected(p, current) == IF p.category # None THEN p.category ELSE current

(* Faulty variant: filters of the previous category are carried over.      *)
Merge_AcrossCategories(previous, p, schema) ==
  LET kept == DOMAIN previous.filters \cap DOMAIN schema
      new  == DOMAIN p.filters \cap DOMAIN schema
  IN [intent   |-> IF previous.intent # None THEN previous.intent ELSE p.intent,
      category |-> Selected(p, previous.category),
      filters  |-> [k \in kept \cup new |-> IF k \in new THEN p.filters[k] ELSE previous.filters[k]]]

Merge(previous, p, schema) ==
  LET c    == Selected(p, previous.category)
      kept == IF c = previous.category THEN DOMAIN previous.filters \cap DOMAIN schema ELSE {}
      new  == DOMAIN p.filters \cap DOMAIN schema
  IN [intent   |-> IF previous.intent # None THEN previous.intent ELSE p.intent,
      category |-> c,
      filters  |-> [k \in kept \cup new |-> IF k \in new THEN p.filters[k] ELSE previous.filters[k]]]

Missing(s) ==
  {f \in {"intent", "category"} : s[f] = None} \cup (RequiredKeys(s.category) \ DOMAIN s.filters)

(* Faulty variant: an answer that is not on offer falls back to the value  *)
(* of an earlier turn.                                                     *)
Restated_Ignored(merged, original, p) == merged

(* "An explicit unavailable answer must ask again."                        *)
Restated(merged, original, p) ==
  [merged EXCEPT !.filters =
     Without(@, (RequiredKeys(merged.category) \cap DOMAIN original) \ DOMAIN p.filters)]

-----------------------------------------------------------------------------
VoiceInit ==
  /\ catalog \in Catalogs
  /\ published = 0
  /\ sessions = [d \in Starts |-> Nothing]
  /\ pc = [r \in Requests |-> "idle"]
  /\ dialogue = [r \in Requests |-> None]
  /\ categories = [r \in Requests |-> {}]
  /\ state = [r \in Requests |-> Nothing]
  /\ command = [r \in Requests |-> None]
  /\ stated = [r \in Requests |-> <<>>]
  /\ seen = [r \in Requests |-> {}]
  /\ said = [d \in Starts |-> {}]
  /\ completed = {}

Goto(r, label) == pc' = [pc EXCEPT ![r] = label]
Running(r) == pc[r] \notin {"idle", "asked", "answered", "notFound", "failed"}

(* The request ends; the locals that no late command needs are gone.       *)
End(r, outcome) ==
  /\ Goto(r, outcome)
  /\ categories' = [categories EXCEPT ![r] = {}]
  /\ stated' = [stated EXCEPT ![r] = <<>>]
  /\ seen' = [seen EXCEPT ![r] = {}]
  /\ state' = IF command[r] \in {"SET", "DEL"} THEN state ELSE [state EXCEPT ![r] = Nothing]

Start(r) ==
  /\ r \in Starts /\ pc[r] = "idle"
  /\ Goto(r, "vocabulary")
  /\ dialogue' = [dialogue EXCEPT ![r] = r]
  /\ state' = [state EXCEPT ![r] = [Nothing EXCEPT !.category = None]]
  /\ seen' = [seen EXCEPT ![r] = {catalog}]
  /\ UNCHANGED <<store, sessions, categories, command, stated, said, completed>>

(* A client continues a dialogue in which it has been asked.               *)
Continue(r) ==
  /\ r \in Continues /\ pc[r] = "idle"
  /\ \E d \in Starts :
       /\ pc[d] = "asked"
       /\ dialogue' = [dialogue EXCEPT ![r] = d]
  /\ Goto(r, "get")
  /\ seen' = [seen EXCEPT ![r] = {catalog}]
  /\ UNCHANGED <<store, sessions, categories, state, command, stated, said, completed>>

(* Faulty variant: a session that has expired is continued all the same.   *)
Get_FoundIgnored(r) ==
  /\ pc[r] = "get"
  /\ Goto(r, "vocabulary")
  /\ state' = [state EXCEPT ![r] = sessions[dialogue[r]]]
  /\ UNCHANGED <<store, sessions, dialogue, categories, command, stated, voiceHistory>>

Get(r) ==
  /\ pc[r] = "get"
  /\ \/ /\ sessions[dialogue[r]] = Nothing
        /\ End(r, "notFound")
     \/ /\ sessions[dialogue[r]] # Nothing
        /\ Goto(r, "vocabulary")
        /\ state' = [state EXCEPT ![r] = sessions[dialogue[r]]]
        /\ UNCHANGED <<categories, stated, seen>>
  /\ UNCHANGED <<store, sessions, dialogue, command, said, completed>>

ListVoiceVocabulary(r) ==
  /\ pc[r] = "vocabulary"
  /\ categories' = [categories EXCEPT ![r] = DOMAIN catalog]
  /\ Goto(r, "parse")
  /\ UNCHANGED <<store, sessions, dialogue, state, command, stated, voiceHistory>>

(* Faulty variant: values of earlier turns are not validated again.        *)
Turn_PreviousTrusted(r, p) ==
  LET previous   == state[r]
      c          == Selected(p, previous.category)
      configured == Configured(categories[r], c)
      live       == IF c = None THEN <<>> ELSE Live(c)
      current    == [p EXCEPT !.filters = Clarified(c, @, configured, live)]
  IN IF ~Valid(current, categories[r], live) THEN Nothing
     ELSE IF r \in Starts THEN current
     ELSE Restated(Merge(previous, current, live), p.filters, current)

(* The state after a turn in which the parser heard p, Nothing if it is    *)
(* refused.                                                                *)
Turn(r, p) ==
  LET previous   == state[r]
      c          == Selected(p, previous.category)
      configured == Configured(categories[r], c)
      live       == IF c = None THEN <<>> ELSE Live(c)
      current    == [p EXCEPT !.filters = Clarified(c, @, configured, live)]
      merged     == Restated(Merge(previous, current, live), p.filters, current)
      offered    == [merged EXCEPT !.filters = Clarified(c, @, configured, live)]
  IN IF ~Valid(current, categories[r], live) THEN Nothing
     ELSE IF r \in Starts THEN current
     ELSE IF Valid(offered, categories[r], live) THEN offered
     ELSE Nothing

(* The filters the vocabulary lets the parser name for category c.         *)
Nameable(r, c) ==
  {f \in FiltersOf(c) : \A k \in DOMAIN f : ValidFilter(Configured(categories[r], c), k, f[k])}

(* The turn in which the parser heard p.                                   *)
Hear(r, p) ==
  LET c    == Selected(p, state[r].category)
      next == Turn(r, p)
  IN /\ said' = [said EXCEPT ![dialogue[r]] = @ \cup {<<c, k, p.filters[k]>> : k \in DOMAIN p.filters}]
     /\ \/ /\ next = Nothing
           /\ End(r, "failed")
           /\ UNCHANGED command
        \/ /\ next # Nothing
           /\ state' = [state EXCEPT ![r] = next]
           /\ stated' = [stated EXCEPT ![r] = p.filters]
           /\ IF Missing(next) # {}
                THEN Goto(r, "reply") /\ command' = [command EXCEPT ![r] = "SET"]
                ELSE Goto(r, "query") /\ UNCHANGED command
           /\ UNCHANGED <<categories, seen>>

(* Parse and liveInput.  The parser is Gemini or the fallback: whatever it *)
(* says is validated against the vocabulary, then against what is on offer.*)
(* A value the validation refuses fails the request.                       *)
Understand(r) ==
  /\ pc[r] = "parse"
  /\ \E i \in Intents \cup {None}, c \in categories[r] \cup {None} :
       \E f \in Nameable(r, IF c # None THEN c ELSE state[r].category) :
         Hear(r, [intent |-> i, category |-> c, filters |-> f])
  /\ UNCHANGED <<store, sessions, dialogue, completed>>

(* ListProducts and ListLocations; a continued dialogue is then deleted.   *)
Result(r) ==
  /\ pc[r] = "query"
  /\ \/ /\ r \in Starts
        /\ End(r, "answered")
        /\ UNCHANGED command
     \/ /\ r \in Continues
        /\ Goto(r, "reply")
        /\ command' = [command EXCEPT ![r] = "DEL"]
        /\ UNCHANGED <<categories, state, stated, seen>>
  /\ UNCHANGED <<store, sessions, dialogue, said, completed>>

(* Redis executes a command, possibly after the request has given up.      *)
Execute(r) ==
  /\ command[r] \in {"SET", "DEL"}
  /\ sessions' = [sessions EXCEPT ![dialogue[r]] = IF command[r] = "SET" THEN state[r] ELSE Nothing]
  /\ command' = [command EXCEPT ![r] = "executed"]
  /\ UNCHANGED <<store, pc, dialogue, categories, state, stated, voiceHistory>>

Reply(r) ==
  /\ pc[r] = "reply" /\ command[r] = "executed"
  /\ \/ Missing(state[r]) # {} /\ End(r, "asked") /\ UNCHANGED completed
     \/ Missing(state[r]) = {} /\ End(r, "answered") /\ completed' = completed \cup {dialogue[r]}
  /\ UNCHANGED <<store, sessions, dialogue, command, said>>

(* A dependency fails, a deadline passes or the client goes away.          *)
Fail(r) ==
  /\ Running(r)
  /\ End(r, "failed")
  /\ UNCHANGED <<store, sessions, dialogue, command, said, completed>>

(* A command that never reached Redis.                                     *)
Lose(r) ==
  /\ pc[r] = "failed" /\ command[r] \in {"SET", "DEL"}
  /\ command' = [command EXCEPT ![r] = "lost"]
  /\ UNCHANGED <<store, sessions, pc, dialogue, categories, state, stated, voiceHistory>>

(* 600 s without a SET.                                                    *)
Expire(d) ==
  /\ sessions[d] # Nothing
  /\ sessions' = [sessions EXCEPT ![d] = Nothing]
  /\ UNCHANGED <<store, locals, voiceHistory>>

Publish ==
  /\ published < MaxPublications
  /\ published' = published + 1
  /\ catalog' \in Catalogs \ {catalog}
  /\ seen' = [r \in Requests |-> IF Running(r) THEN seen[r] \cup {catalog'} ELSE seen[r]]
  /\ UNCHANGED <<sessions, locals, said, completed>>

VoiceNext ==
  \/ Publish
  \/ \E d \in Starts : Expire(d)
  \/ \E r \in Requests :
       \/ Start(r) \/ Continue(r) \/ Get(r) \/ ListVoiceVocabulary(r) \/ Understand(r)
       \/ Result(r) \/ Execute(r) \/ Reply(r) \/ Fail(r) \/ Lose(r)

VoiceSpec == VoiceInit /\ [][VoiceNext]_voiceVars

-----------------------------------------------------------------------------
(* A session: filters belong to its category, and without one there are    *)
(* none.                                                                   *)
IsSession(s) ==
  /\ s.intent \in Intents \cup {None}
  /\ s.category \in Categories \cup {None}
  /\ s.filters \in FiltersOf(s.category)

VoiceTypeOK ==
  /\ catalog \in Catalogs
  /\ published \in 0..MaxPublications
  /\ \A d \in Starts : sessions[d] = Nothing \/ IsSession(sessions[d])
  /\ pc \in [Requests -> {"idle", "get", "vocabulary", "parse", "query", "reply",
                          "asked", "answered", "notFound", "failed"}]
  /\ dialogue \in [Requests -> Starts \cup {None}]
  /\ categories \in [Requests -> SUBSET Categories]
  /\ \A r \in Requests :
       IF pc[r] \in {"vocabulary", "parse", "query", "reply"} THEN IsSession(state[r])
       ELSE state[r] = Nothing \/ IsSession(state[r])
  /\ command \in [Requests -> {None, "SET", "DEL", "executed", "lost"}]
  /\ seen \in [Requests -> SUBSET Catalogs]
  /\ completed \subseteq Starts

(* What a request asks the catalogue for was on offer at some moment while *)
(* it ran: values of earlier turns that have been sold out since are       *)
(* never used (service.go: "may have become stale").  Of a boolean filter  *)
(* this says that products on offer had a value of it: the very value may  *)
(* be on no offer (state.go:51-57), and the query then finds nothing.      *)
WasOffered(s, c, k, v) ==
  c \in DOMAIN s /\ IF k \in Booleans THEN s[c][k] # {} ELSE v \in s[c][k]

QueryWasOnOffer ==
  \A r \in Requests : pc[r] = "query" =>
    \E s \in seen[r] : \A k \in DOMAIN state[r].filters :
      WasOffered(s, state[r].category, k, state[r].filters[k])

(* An answer wins over every earlier one: when the user has just named a   *)
(* volume or a fat content, no other value is queried or kept, also when   *)
(* the one named is not on offer.                                          *)
StatedAnswerWins ==
  \A r \in Requests : pc[r] \in {"query", "reply"} =>
    \A k \in RequiredKeys(state[r].category) \cap DOMAIN stated[r] \cap DOMAIN state[r].filters :
      state[r].filters[k] = stated[r][k]

(* Every filter of a session was heard in its dialogue, and heard for the  *)
(* category it is applied to.                                              *)
NothingInvented ==
  \A d \in Starts : sessions[d] # Nothing =>
    \A k \in DOMAIN sessions[d].filters :
      <<sessions[d].category, k, sessions[d].filters[k]>> \in said[d]

(* VoiceTypeOK, StatedAnswerWins and NothingInvented (service.go:80,       *)
(* state.go:110): a query asks for what the dialogue said, the last answer *)
(* first, and for nothing else.                                            *)
QueryIsWhatWasSaid == VoiceTypeOK /\ StatedAnswerWins /\ NothingInvented

(* docs/production/API_V1_CONTRACT.md: "completion deletes it. Missing/    *)
(* expired/completed session -> 404".  A SET of another request of the     *)
(* dialogue that began before the completion brings the session back.      *)
CompletedSessionIsGone == \A d \in completed : sessions[d] = Nothing

=============================================================================
