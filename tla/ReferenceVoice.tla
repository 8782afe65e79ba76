---------------------------- MODULE ReferenceVoice ----------------------------
(* The voice dialogue of the reference API (backend/src/voice) over         *)
(* ReferenceCatalog.  A turn reads the categories, then in parallel every   *)
(* category's filters, then asks the parsers, then reads products and       *)
(* locations: each read is a transaction of its own, and the seeder may     *)
(* replace the catalogue between any two of them.                           *)
(*                                                                          *)
(* A text is the set of the words the fallback parser looks for and the     *)
(* percentage it names, 0 without one.  Null is "" or the absence of a key. *)
EXTENDS ReferenceCatalog, TLC

CONSTANTS
  Texts,     \* what the speaker may say
  Replies,   \* what a model may answer: JSON objects, right or wrong
  Keys,      \* number of configured Gemini keys
  Ttl,       \* VOICE_SESSION_TTL_SECONDS
  MaxTurns,  \* bound: turns of the dialogue
  MaxTime    \* bound: the clock

ASSUME VoiceConstants == Keys \in Nat /\ Ttl \in Nat \ {0} /\ MaxTurns \in Nat /\ MaxTime \in Nat

VARIABLES
  turn,      \* the request being served: its step and what it has read so far
  session,   \* the stored session and its expiry, or NoSession
  answers,   \* the answers given, oldest first
  heard,     \* per filter set by the speaker, what was taken for it when he did
  now        \* the clock

voiceVars == <<turn, session, answers, heard, now>>

-----------------------------------------------------------------------------
(* The parsers: pure.                                                       *)
NoFilters == [k \in {} |-> 0]
Parsed(intent, category, filters) == [intent |-> intent, category |-> category, filters |-> filters]

SchemaOf(context, category) ==
  IF category \in DOMAIN context.schemas THEN context.schemas[category] ELSE <<>>
\* What validFilter takes for a key: an option, or either boolean for a boolean.
OptionsOf(definitions, key) ==
  UNION {IF definitions[i].type = "boolean" THEN BOOLEAN ELSE ToSet(definitions[i].options) :
           i \in {n \in DOMAIN definitions : definitions[n].key = key}}
KeysOf(definitions) == {definitions[i].key : i \in DOMAIN definitions}

\* validateNlpResult: the reply unchanged when everything in it is on offer.
Valid(reply, context) ==
  LET category    == IF reply.category # "" THEN reply.category ELSE context.current
      definitions == SchemaOf(context, category)
  IN  /\ reply.intent \in {"", "cheapest", "search"}
      /\ reply.category = "" \/ reply.category \in context.categories
      /\ \A key \in DOMAIN reply.filters :
           /\ key \in KeysOf(definitions)
           /\ reply.filters[key] \in OptionsOf(definitions, key)

\* FallbackNlpParser.
ParseFallback(text, context) ==
  LET words    == SelectInSeq(<<"milk", "bread", "eggs", "sugar", "oil">>, LAMBDA w : w \in text.words)
      detected == IF words = 0 THEN "" ELSE <<"milk", "bread", "eggs", "sugar", "oil">>[words]
      category == IF detected \in context.categories THEN detected ELSE ""
      milk     == (IF category # "" THEN category ELSE context.current) = "milk"
      offered(key, value) == milk /\ value \in OptionsOf(SchemaOf(context, "milk"), key)
      volume   == IF "500ml" \in text.words THEN 500 ELSE IF "1l" \in text.words THEN 1000 ELSE 0
      said     == (IF offered("volumeMl", volume) THEN {"volumeMl"} ELSE {})
                  \cup (IF offered("fatPercent", text.percent) THEN {"fatPercent"} ELSE {})
  IN  Parsed(IF "cheap" \in text.words THEN "cheapest" ELSE IF "find" \in text.words THEN "search" ELSE "",
             category, [key \in said |-> IF key = "volumeMl" THEN volume ELSE text.percent])

\* requestGeminiWithFailover: the first usable answer of the keys in turn, all
\* under one deadline; "late" is the key that is running when it passes.
Refusal == [usable |-> FALSE, late |-> FALSE]
Late    == [usable |-> FALSE, late |-> TRUE]
Failover(outcomes) ==
  LET stop == SelectInSeq(outcomes, LAMBDA o : o.usable \/ o.late)
  IN  IF stop = 0 THEN Refusal ELSE outcomes[stop]

\* NlpService.parse: the model's answer when it is valid, else the fallback.
Parse(text, outcomes, context) ==
  LET model    == Failover(outcomes)
      fallback == ParseFallback(text, context)
  IN  IF model.usable /\ Valid(model.reply, context) THEN model.reply
      ELSE IF Valid(fallback, context) THEN fallback
      ELSE Parsed("", "", NoFilters)

\* Mutant: the filters of the former category are kept.
MergeVoiceSessionAll(previous, update, context) ==
  LET category == IF update.category # "" THEN update.category ELSE previous.category
  IN  Parsed(IF previous.intent # "" THEN previous.intent ELSE update.intent, category,
             [key \in DOMAIN previous.filters \cup DOMAIN update.filters |->
                IF key \in DOMAIN update.filters THEN update.filters[key] ELSE previous.filters[key]])

\* mergeVoiceSession: an earlier intent stays, a new category drops the filters.
MergeVoiceSession(previous, update, context) ==
  LET category == IF update.category # "" THEN update.category ELSE previous.category
      allowed  == KeysOf(SchemaOf(context, category))
      old      == IF category = previous.category THEN DOMAIN previous.filters \cap allowed ELSE {}
      new      == DOMAIN update.filters \cap allowed
  IN  Parsed(IF previous.intent # "" THEN previous.intent ELSE update.intent, category,
             [key \in old \cup new |-> IF key \in new THEN update.filters[key] ELSE previous.filters[key]])

MissingVoiceFields(s) ==
  (IF s.intent = "" THEN {"intent"} ELSE {}) \cup (IF s.category = "" THEN {"category"} ELSE {})
  \cup (IF s.category = "milk" THEN {"volumeMl", "fatPercent"} \ DOMAIN s.filters ELSE {})

\* result: one item for the cheapest, up to three for a search, each of them
\* the product's first offer.
Result(s) ==
  LET found == FindProducts([category |-> s.category, search |-> "", sort |-> "price_asc", limit |-> 0,
                             offset |-> 0, filters |-> [key \in DOMAIN s.filters |-> {s.filters[key]}]])
      limit == IF s.intent = "cheapest" THEN 1 ELSE 3
  IN  [i \in 1 .. Min({limit, Len(found)}) |->
         [id |-> found[i].id, price |-> found[i].offers[1].price, store |-> found[i].offers[1].store]]

-----------------------------------------------------------------------------
(* A turn.                                                                  *)
NoSession == [held |-> FALSE]
Stored(s) == [held |-> TRUE, query |-> s, expiresAt |-> now + Ttl]
Ready     == [step |-> "ready"]
Answer(status) == [status |-> status]

\* The step ends the turn with an answer.
Reply(answer) == turn' = Ready /\ answers' = Append(answers, answer)

Context0(current) == [categories |-> {}, schemas |-> NoFilters, current |-> current]

\* start and continue: continue first fetches the session, which may be gone,
\* expired, or out of reach.
StartTurn(text) ==
  /\ turn.step = "ready" /\ Len(answers) < MaxTurns
  /\ turn' = [step |-> "categories", text |-> text, previous |-> NoSession, context |-> Context0("")]
  /\ heard' = NoFilters /\ session' = NoSession
  /\ UNCHANGED <<answers, now>>

ContinueTurn(text, reachable) ==
  /\ turn.step = "ready" /\ Len(answers) < MaxTurns /\ answers # <<>>
  /\ IF ~reachable THEN Reply(Answer("unavailable")) /\ UNCHANGED session
     ELSE IF ~session.held THEN Reply(Answer("not found")) /\ UNCHANGED session
     ELSE IF session.expiresAt <= now THEN Reply(Answer("not found")) /\ session' = NoSession
     ELSE /\ turn' = [step |-> "categories", text |-> text, previous |-> session,
                      context |-> Context0(session.query.category)]
          /\ UNCHANGED <<answers, session>>
  /\ UNCHANGED <<heard, now>>

\* nlpContext: without a published snapshot every read fails the request.
ReadCategories ==
  /\ turn.step = "categories"
  /\ IF Unavailable THEN Reply(Answer("error"))
     ELSE turn' = [turn EXCEPT !.step = "filters", !.context.categories = FindCategories] /\ UNCHANGED answers
  /\ UNCHANGED <<session, heard, now>>

Unread == turn.context.categories \ DOMAIN turn.context.schemas
ReadFilters(c) ==
  /\ turn.step = "filters" /\ c \in Unread
  /\ IF Unavailable THEN Reply(Answer("error"))
     ELSE /\ turn' = [turn EXCEPT !.context.schemas =
                        [x \in DOMAIN @ \cup {c} |-> IF x = c THEN FindFilters(c) ELSE @[x]]]
          /\ UNCHANGED answers
  /\ UNCHANGED <<session, heard, now>>

\* The parsers answer and the session is merged; what is missing is asked for.
Hear(outcomes) ==
  /\ turn.step = "filters" /\ Unread = {}
  /\ LET parsed == Parse(turn.text, outcomes, turn.context)
         query  == IF turn.previous.held
                   THEN MergeVoiceSession(turn.previous.query, parsed, turn.context) ELSE parsed
         onOffer(key) == OptionsOf(SchemaOf(turn.context, query.category), key)
     IN  /\ turn' = [turn EXCEPT !.step = IF MissingVoiceFields(query) = {} THEN "result" ELSE "save",
                                 !.previous = Stored(query)]
         /\ heard' = [key \in DOMAIN query.filters |->
                        IF key \in DOMAIN parsed.filters THEN onOffer(key) ELSE heard[key]]
  /\ UNCHANGED <<session, answers, now>>

SaveSession(reachable) ==
  /\ turn.step = "save"
  /\ IF reachable
     THEN Reply(Answer("needs_clarification")) /\ session' = Stored(turn.previous.query)
     ELSE Reply(Answer("unavailable")) /\ UNCHANGED session
  /\ UNCHANGED <<heard, now>>

\* The products are read in one transaction; the session is removed after it,
\* and a failure to remove it is ignored.
ReadProducts(reachable) ==
  /\ turn.step = "result"
  /\ IF Unavailable THEN Reply(Answer("error")) /\ UNCHANGED session
     ELSE /\ Reply([status |-> "result", query |-> turn.previous.query, items |-> Result(turn.previous.query)])
          /\ session' = IF reachable THEN NoSession ELSE session
  /\ UNCHANGED <<heard, now>>

Tick == now < MaxTime /\ now' = now + 1 /\ UNCHANGED <<turn, session, answers, heard>>

VoiceInit == turn = Ready /\ session = NoSession /\ answers = <<>> /\ heard = NoFilters /\ now = 0

VoiceStep ==
  \/ ReadCategories
  \/ turn.step = "filters" /\ \E c \in Unread : ReadFilters(c)
  \/ \E outcomes \in [1 .. Keys -> {Refusal, Late} \cup {[usable |-> TRUE, late |-> FALSE, reply |-> r] : r \in Replies}] :
       Hear(outcomes)
  \/ \E reachable \in BOOLEAN : SaveSession(reachable) \/ ReadProducts(reachable)

VoiceNext ==
  \/ \E text \in Texts : StartTurn(text) \/ \E reachable \in BOOLEAN : ContinueTurn(text, reachable)
  \/ VoiceStep \/ Tick

Init == CatalogInit /\ VoiceInit
Next == /\ UNCHANGED files
        /\ (CatalogNext /\ UNCHANGED voiceVars) \/ (VoiceNext /\ UNCHANGED catalogVars)
vars == <<files, db, seed, seeds, turn, session, answers, heard, now>>
Fairness == WF_catalogVars(SeedStep)
Spec == Init /\ [][Next]_vars /\ Fairness

-----------------------------------------------------------------------------
(* Properties.                                                              *)

\* A read that finds a published snapshot finds the whole dataset or, between
\* the removal of the offers and of the snapshot, nothing of it (seed.ts:24,
\* prisma-snapshot.ts:11): never a part, whenever the seeder was killed.
NoPartialCatalogue ==
  ~Unavailable =>
    \/ Current = <<>>
    \/ /\ Len(Current) = Len(files[db.data].products)
       /\ FoldLeft(LAMBDA sum, p : sum + Len(p.offers), 0, Current) = Len(files[db.data].rows)

\* A seeder started over the remains of a killed one comes through: nothing it
\* left blocks a delete or an insert (seed.ts:24), and at its end the dataset is
\* published; it fails only on a dataset that lists a product twice.
SeedRecovers ==
  seed.step = "idle" =>
    /\ seed.ended = "failed" => seed.data # 0 /\ Repeated(seed.data, Len(files[seed.data].rows))
    /\ seed.ended = "seeded" => ~Unavailable /\ Len(Current) = Len(files[db.data].products)

\* A filter the page offers finds a product (prisma-category.repository.ts:37):
\* for every option, in the catalogue it was computed from, and through the
\* parser of the query (product-query.ts:24).
OfferedFilterFinds ==
  \A c \in FindCategories :
    LET definitions == FindFilters(c)
    IN  \A i \in DOMAIN definitions :
          LET f == definitions[i]
          IN  \A o \in IF f.type = "boolean" THEN {TRUE} ELSE ToSet(f.options) :
                LET query == ParseProductQuery([category |-> c, search |-> "", sort |-> "", limit |-> 0, offset |-> 0,
                                                filters |-> [key \in {f.key} |-> {o}]], definitions)
                IN  query.ok /\ FindProducts(query) # <<>>

\* Every filter of a session was offered in the turn the speaker named it, its
\* value one of the options on offer then, and it belongs to the category the
\* session is about as that turn found it (voice-state.ts:10), although the
\* catalogue may have been replaced since.  A boolean filter has no options:
\* some product had a value of it, not always the one that is asked for
\* (validate-nlp-result.ts:11), and the answer may be empty.
QueryWasHeard ==
  turn.step \in {"save", "result"} =>
    LET query == turn.previous.query
    IN  /\ \A key \in DOMAIN query.filters : query.filters[key] \in heard[key]
        /\ DOMAIN query.filters \subseteq KeysOf(SchemaOf(turn.context, query.category))

\* The database returns products in any order (prisma-product.repository.ts:31
\* sets none): the baskets are the same for each (basket-calculator.ts:30).
BasketIsOrderFree ==
  seed.step = "idle" =>
    \A order \in Permutations(DOMAIN Current) :
      CalculateBaskets([n \in DOMAIN Current |-> Current[order[n]]], {"DINA", "DANA"})
        = CalculateBaskets(Current, {"DINA", "DANA"})

\* The seeder, when it is left to run, ends (seed.ts:266).
SeedEventuallyEnds == seed.step # "idle" ~> seed.step = "idle"
=============================================================================
