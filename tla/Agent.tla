------------------------------- MODULE Agent -------------------------------
(* The classification and matching of scraped products by a language model  *)
(* (pipeline/src/agent/*.ts, cli/classify.ts, cli/match.ts): the calls over *)
(* several keys with retries, cooling and a disk cache, the repeated prompt *)
(* for what a reply left out, the guards on the clusters a reply proposes.  *)
(* A prompt is named by the set of products it asks about; a reply is       *)
(* "odd" (JSON, but not what was asked for) or the set of products it       *)
(* classifies with a known category.                                        *)
EXTENDS Integers, FiniteSetsExt, SequencesExt, Functions

CONSTANTS Batches,       \* sequence of sets of products: the batches of 40
          Keys,          \* sequence of distinct API keys
          MaxRetries,    \* repetitions on one key (4)
          MinInterval,   \* least time between two starts of a request
          Backoff,       \* first pause after 429/5xx
          Cooldown,      \* how long an exhausted key rests
          MaxRuns        \* how often the command is started

\* The batches are cut from files that name no product twice (source-file.ts:10).
ASSUME BatchesAreApart ==
  /\ Batches \in Seq(SUBSET UNION {Batches[i] : i \in DOMAIN Batches})
  /\ \A i, j \in DOMAIN Batches : i # j => Batches[i] \cap Batches[j] = {}
  /\ \A i \in DOMAIN Batches : "odd" \notin Batches[i]
ASSUME PausesAreNumbers ==
  /\ MinInterval \in Nat /\ Cooldown \in Nat /\ MaxRetries \in Nat
  /\ \A k \in 0 .. MaxRetries : Backoff * 2 ^ k \in Nat

VARIABLES now, lastStart,   \* the clock, the start of the last request
          coolUntil,        \* key -> time until which it rests
          cache,            \* prompt -> reply on disk
          run, batch,       \* run of the command, batch it is at
          attempt, done,    \* attempt at the batch, products classified in it
          call,             \* the call under way: keys left, retry number
          output            \* product -> "classified" or "fallback", of this run

agentVars == <<now, lastStart, coolUntil, cache, run, batch, attempt, done, call, output>>

Idle == [keys |-> <<>>, retry |-> 0, asked |-> {}]
Calling == call.asked # {}

AgentInit ==
  /\ now = 0 /\ lastStart = 0 - MinInterval
  /\ coolUntil = [k \in ToSet(Keys) |-> 0]
  /\ cache = [p \in {} |-> {}]
  /\ run = 1 /\ batch = 1 /\ attempt = 0 /\ done = {}
  /\ call = Idle /\ output = [p \in {} |-> ""]

\* Mutant: no throttle.
StartedAtOnce == now

\* throttle(): the start is put off to the least interval after the last one.
Started == IF lastStart + MinInterval > now THEN lastStart + MinInterval ELSE now

Pending == Batches[batch] \ done

\* merge() and the loop of classifyBatch over a reply: unknown products,
\* repeated ones and unknown categories are passed over; an odd reply as a
\* whole.  Either way one of the two attempts is used up.
Taken(reply) == IF reply = {"odd"} THEN {} ELSE reply \cap Pending

\* Mutant: a second reply replaces what the first one classified.
AnsweredAnew(reply) ==
  /\ done' = Taken(reply)
  /\ attempt' = attempt + 1
  /\ call' = Idle

Answered(reply) ==
  /\ done' = done \cup Taken(reply)
  /\ attempt' = attempt + 1
  /\ call' = Idle

\* Mutant: the disk is not asked first.
AskUncached ==
  /\ batch <= Len(Batches) /\ ~Calling
  /\ attempt < 2 /\ Pending # {}
  /\ LET ready == SelectSeq(Keys, LAMBDA k : coolUntil[k] <= now)
     IN  call' = [keys |-> IF ready = <<>> THEN Keys ELSE ready, retry |-> 0, asked |-> Pending]
  /\ UNCHANGED <<now, lastStart, coolUntil, cache, run, batch, attempt, done, output>>

\* classifyBatch asks for the products still missing; a cached prompt is
\* answered from the disk, else the keys that do not rest are tried in order,
\* all of them when all rest.
Ask ==
  /\ batch <= Len(Batches) /\ ~Calling
  /\ attempt < 2 /\ Pending # {}
  /\ IF Pending \in DOMAIN cache
     THEN Answered(cache[Pending])
     ELSE /\ LET ready == SelectSeq(Keys, LAMBDA k : coolUntil[k] <= now)
             IN  call' = [keys  |-> IF ready = <<>> THEN Keys ELSE ready,
                          retry |-> 0, asked |-> Pending]
          /\ UNCHANGED <<attempt, done>>
  /\ UNCHANGED <<now, lastStart, coolUntil, cache, run, batch, output>>

NextKey == [call EXCEPT !.keys = Tail(@), !.retry = 0]

\* 429 or 5xx: pause and repeat on the same key; the last repetition lets the
\* key rest, and the loop goes on to the next one.
Busy(pause) ==
  /\ Calling /\ call.keys # <<>>
  /\ lastStart' = Started
  /\ IF call.retry < MaxRetries
     THEN /\ now' = Started + pause
          /\ call' = [call EXCEPT !.retry = @ + 1]
          /\ UNCHANGED coolUntil
     ELSE /\ now' = Started
          /\ coolUntil' = [coolUntil EXCEPT ![Head(call.keys)] = Started + Cooldown]
          /\ call' = NextKey
  /\ UNCHANGED <<cache, run, batch, attempt, done, output>>

\* 4xx, an empty candidate, a network error or text that is no JSON: the next
\* key at once.
Refused ==
  /\ Calling /\ call.keys # <<>>
  /\ now' = Started /\ lastStart' = Started
  /\ call' = NextKey
  /\ UNCHANGED <<coolUntil, cache, run, batch, attempt, done, output>>

\* Any JSON is cached under the prompt and returned.
Replied(reply) ==
  /\ Calling /\ call.keys # <<>>
  /\ now' = Started /\ lastStart' = Started
  /\ cache' = [p \in DOMAIN cache \cup {call.asked} |-> IF p = call.asked THEN reply ELSE cache[p]]
  /\ Answered(reply)
  /\ UNCHANGED <<coolUntil, run, batch, output>>

\* All keys failed: the error is caught, the attempt is used up.
OutOfKeys ==
  /\ Calling /\ call.keys = <<>>
  /\ Answered({})
  /\ UNCHANGED <<now, lastStart, coolUntil, cache, run, batch, output>>

\* Both attempts are over, or everything is classified: the rest falls back.
CloseBatch ==
  /\ batch <= Len(Batches) /\ ~Calling
  /\ attempt = 2 \/ Pending = {}
  /\ output' = [p \in DOMAIN output \cup Batches[batch] |->
                  IF p \in Batches[batch] THEN IF p \in done THEN "classified" ELSE "fallback"
                  ELSE output[p]]
  /\ batch' = batch + 1 /\ attempt' = 0 /\ done' = {}
  /\ UNCHANGED <<now, lastStart, coolUntil, cache, run, call>>

\* The command is started again (a new process: no key rests, the cache stays).
Rerun ==
  /\ batch > Len(Batches) /\ run < MaxRuns
  /\ \E p \in DOMAIN output : output[p] = "fallback"
  /\ run' = run + 1 /\ batch' = 1 /\ output' = [p \in {} |-> ""]
  /\ now' = 0 /\ lastStart' = 0 - MinInterval /\ coolUntil' = [k \in ToSet(Keys) |-> 0]
  /\ UNCHANGED <<cache, attempt, done, call>>

\* What a reply may hold: odd, nothing, some of the products, strangers too.
Replies == {{"odd"}} \cup SUBSET call.asked

AgentSteps == \/ Ask \/ Refused \/ OutOfKeys \/ CloseBatch
              \/ \E k \in 0 .. MaxRetries : k = call.retry /\ Busy(Backoff * 2 ^ k)
              \/ \E r \in Replies : Replied(r)
AgentNext == AgentSteps \/ Rerun
AgentSpec == AgentInit /\ [][AgentNext]_agentVars

-----------------------------------------------------------------------------
(* Properties *)

\* What the command writes (classify.ts:73): every product of the batches
\* dealt with, once; "classified" exactly when a reply to a prompt that asked
\* for it named it, so that a product never falls back while a usable answer
\* is at hand.  (The keys that cached replies cover are the prompts asked.)
FallbackOnlyWithoutAnswer ==
  /\ DOMAIN output = UNION {Batches[b] : b \in 1 .. batch - 1}
  /\ \A p \in DOMAIN output :
       (output[p] = "classified") <=>
         \E q \in DOMAIN cache : p \in q /\ cache[q] # {"odd"} /\ p \in cache[q]

\* gemini.ts:51: two requests start at least the interval apart.
RequestsArePaced == [][Calling /\ call.keys # <<>> => lastStart' - lastStart >= MinInterval]_agentVars

\* gemini.ts:63: a key that is resting is tried only by a call that found all
\* keys resting.
KeysRest ==
  [][~Calling /\ call'.asked # {} /\ (\E k \in ToSet(Keys) : coolUntil[k] <= now) =>
       \A i \in DOMAIN call'.keys : coolUntil[call'.keys[i]] <= now]_agentVars

\* The cache makes a run reproducible (gemini.ts:31): what a prompt was once
\* answered with is never replaced, and no prompt is sent twice after that.
CacheIsStable ==
  [][\A q \in DOMAIN cache : q \in DOMAIN cache' /\ cache'[q] = cache[q] /\ call'.asked # q]_agentVars

-----------------------------------------------------------------------------
(* Blocks and clusters.  A classified product is                            *)
(*   [id, store, category, type, shape, brand, likeness]                    *)
(* where shape stands for volume, weight, count and fat, size for the part  *)
(* of it in the block key, likeness for similarity() to a given anchor.     *)

BlockKey(c) == <<c.category, c.type, c.size>>

\* buildBlocks: by key, too large ones by the first letter of the brand and
\* then by length.
BuildBlocks(items, maxSize) ==
  LET keys    == FoldLeft(LAMBDA acc, c : IF BlockKey(c) \in ToSet(acc) THEN acc
                                          ELSE Append(acc, BlockKey(c)), <<>>, items)
      group(k) == SelectSeq(items, LAMBDA c : BlockKey(c) = k)
      letters(g) == FoldLeft(LAMBDA acc, c : IF c.letter \in ToSet(acc) THEN acc
                                             ELSE Append(acc, c.letter), <<>>, g)
      slices(part) == [n \in 1 .. ((Len(part) + maxSize - 1) \div maxSize) |->
                        SubSeq(part, (n - 1) * maxSize + 1, Min({n * maxSize, Len(part)}))]
      blocks(g) == IF Len(g) <= maxSize THEN <<g>>
                   ELSE FlattenSeq([i \in DOMAIN letters(g) |->
                          slices(SelectSeq(g, LAMBDA c : c.letter = letters(g)[i]))])
  IN  FlattenSeq([i \in DOMAIN keys |-> blocks(group(keys[i]))])

Single(c) == [members |-> <<c>>, method |-> "deterministic", review |-> "approved"]
Singles(s) == [i \in DOMAIN s |-> Single(s[i])]

\* Mutant: several products of one store stay in a cluster.
StaysByShape(kept, m) == m.shape = kept[1].shape

\* A member stays with the anchor and those kept before it.
Stays(kept, m) == m.shape = kept[1].shape /\ \A k \in DOMAIN kept : kept[k].store # m.store

\* applyGuards: members of another shape than the anchor's and further ones of
\* a store already kept are ejected; the likest to the anchor are kept first
\* ("like" gives the similarity of two ids, ties in the order of the reply).
ApplyGuards(cl, like) ==
  IF Len(cl.members) < 2 THEN <<cl>>
  ELSE LET anchor == cl.members[1]
           rest   == Tail(cl.members)
           order  == SetToSortSeq(DOMAIN rest, LAMBDA i, j :
                       \/ like[anchor.id, rest[i].id] > like[anchor.id, rest[j].id]
                       \/ like[anchor.id, rest[i].id] = like[anchor.id, rest[j].id] /\ i < j)
           split  == FoldLeft(LAMBDA acc, i :
                       IF Stays(acc.kept, rest[i])
                       THEN [acc EXCEPT !.kept = Append(@, rest[i])]
                       ELSE [acc EXCEPT !.ejected = Append(@, rest[i])],
                       [kept |-> <<anchor>>, ejected |-> <<>>], order)
       IN  <<[cl EXCEPT !.members = split.kept]>> \o Singles(split.ejected)

\* matchBlock: a block of one store is not asked about; a reply is a sequence
\* of [ids, confidence] in hundredths, <<>> when both attempts failed.  Ids the
\* block has not, or that an earlier cluster used, are dropped (an id repeated
\* inside one cluster is not: used grows after the filter); what no cluster
\* names is single.
MatchBlock(block, reply, like) ==
  LET ids     == {block[i].id : i \in DOMAIN block}
      byId(x) == block[CHOOSE i \in DOMAIN block : block[i].id = x]
      used(n) == UNION {ToSet(reply[m].ids) : m \in 1 .. n - 1}
      named(n) == SelectSeq(reply[n].ids, LAMBDA x : x \in ids \ used(n))
      fresh(n) == [i \in DOMAIN named(n) |-> byId(named(n)[i])]
      clusters(n) ==
        IF Len(fresh(n)) < 2 \/ reply[n].confidence < 80 THEN Singles(fresh(n))
        ELSE ApplyGuards([members |-> fresh(n), method |-> "ai",
                          review |-> IF reply[n].confidence >= 95 THEN "approved" ELSE "pending"], like)
  IN  IF Cardinality({block[i].store : i \in DOMAIN block}) < 2 THEN Singles(block)
      ELSE FlattenSeq([n \in DOMAIN reply |-> clusters(n)])
           \o Singles(SelectSeq(block, LAMBDA c : c.id \notin used(Len(reply) + 1)))
=============================================================================
