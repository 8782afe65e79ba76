---------------------------- MODULE Observation ----------------------------
(***************************************************************************)
(* One C2 attempt while it watches real publications: the launcher of the  *)
(* scheduled dry-run/apply pair (pipeline/scripts/c2-ingest-launch.py),    *)
(* the C2 side of cmd/ingest (READY admission, baseline binding, FIFO      *)
(* relay), the ready-server helper, and the supervisor that turns the      *)
(* event into a verdict.                                                   *)
(*                                                                         *)
(* A snapshot is numbered by its position in the order of publication, so  *)
(* the predecessor of snapshot n is n - 1 and 0 is the catalogue before    *)
(* anything happens.  Publishing itself is the subject of Ingest; here a   *)
(* run holds the session lock from its baseline to its end, and a commit   *)
(* may be lost: published although the run ends with an error.             *)
(***************************************************************************)
EXTENDS Naturals, Sequences

CONSTANTS
  Launches      \* starts of the launcher, scheduled or by hand

VARIABLES
  latest,     \* the newest published snapshot
  stager,     \* the launch whose ingest process holds the session lock
  authority,  \* ready.json: "absent", "valid", "gone"
  claim,      \* does the attempt's publisher.claim exist?
  launch,     \* launch[l] = [pc, c2]
  run,        \* run[l]: the ingest process of l, [pc, ticket, base, bound]
  relay,      \* the ready-server helper: [pc, client]
  fifo,       \* unread event: [snapshot, accepted], or NoEvent
  sup,        \* supervisor: [pc, before, live, event, captured, verdict]
  auxBy,      \* auxBy[n] = the launch that published snapshot n
  auxAfter    \* the newest snapshot when AFTER was read

vars == <<latest, stager, authority, claim, launch, run, relay, fifo, sup, auxBy, auxAfter>>

Nobody  == "nobody"
ASSUME NobodyIsNoLaunch == Nobody \notin Launches
NoEvent == [snapshot |-> 0, accepted |-> FALSE]
NoRun   == [pc |-> "none", ticket |-> FALSE, base |-> 0, bound |-> FALSE]

Init ==
  /\ latest = 0 /\ stager = Nobody /\ authority = "absent" /\ claim = FALSE
  /\ launch = [l \in Launches |-> [pc |-> "idle", c2 |-> FALSE]]
  /\ run = [l \in Launches |-> NoRun]
  /\ relay = [pc |-> "none", client |-> Nobody]
  /\ fifo = NoEvent
  /\ sup = [pc |-> "prepared", before |-> 0, live |-> FALSE, event |-> 0,
            captured |-> 0, verdict |-> "none"]
  /\ auxBy = <<>> /\ auxAfter = 0

attemptVars == <<authority, relay, fifo, sup, auxAfter>>
storeVars   == <<latest, stager, auxBy>>

----------------------------------------------------------------------------
(* The launcher *)

Goto(l, p) == launch' = [launch EXCEPT ![l].pc = p]

\* admit(): a valid record, the pinned binary, and the exclusive claim
AdmitImmutable(l) ==
  /\ launch[l].pc = "idle" /\ authority = "valid" /\ ~claim
  /\ claim' = TRUE
  /\ launch' = [launch EXCEPT ![l] = [pc |-> "dry", c2 |-> TRUE]]
  /\ UNCHANGED <<storeVars, attemptVars, run>>

\* Anything missing selects the ordinary pair; a claim already made persists.
NotArmed(l) ==
  /\ launch[l].pc = "idle"
  /\ claim' \in IF authority = "valid" THEN {TRUE, claim} ELSE {claim}
  /\ launch' = [launch EXCEPT ![l] = [pc |-> "plain_dry", c2 |-> FALSE]]
  /\ UNCHANGED <<storeVars, attemptVars, run>>

\* The record is reread before each of the two processes.
DryRun(l) ==
  /\ \/ launch[l].pc = "dry" /\ authority = "valid" /\ Goto(l, "apply")
     \/ launch[l].pc = "plain_dry" /\ Goto(l, "plain_apply")
  /\ UNCHANGED <<storeVars, attemptVars, claim, run>>

Apply(l) ==
  /\ \/ launch[l].pc = "apply" /\ authority = "valid"
     \/ launch[l].pc = "plain_apply"
  /\ Goto(l, "wait")
  /\ run' = [run EXCEPT ![l].pc = IF launch[l].pc = "apply" THEN "request" ELSE "stage"]
  /\ UNCHANGED <<storeVars, attemptVars, claim>>

\* authority_lost, or exec of the candidate is known not to have happened
FallBack(l) ==
  /\ launch[l].pc \in {"dry", "apply"}
  /\ launch' = [launch EXCEPT ![l] = [pc |-> "plain_dry", c2 |-> FALSE]]
  /\ UNCHANGED <<storeVars, attemptVars, claim, run>>

DryRunFails(l) ==
  /\ launch[l].pc \in {"dry", "plain_dry"}
  /\ Goto(l, "failed")
  /\ UNCHANGED <<storeVars, attemptVars, claim, run>>

\* Mutant: a failed apply is repeated without C2.
Collect_Retried(l) ==
  /\ launch[l].pc = "wait" /\ run[l].pc \in {"ok", "error"}
  /\ launch' = [launch EXCEPT ![l] =
       CASE run[l].pc = "ok" -> [pc |-> "done", c2 |-> @.c2]
         [] run[l].pc = "error" /\ @.c2 -> [pc |-> "plain_dry", c2 |-> FALSE]
         [] OTHER -> [pc |-> "failed", c2 |-> FALSE]]
  /\ run' = [run EXCEPT ![l] = NoRun]
  /\ UNCHANGED <<storeVars, attemptVars, claim>>

\* The exit status of the apply process is final: it is never run again.
Collect(l) ==
  /\ launch[l].pc = "wait" /\ run[l].pc \in {"ok", "error"}
  /\ Goto(l, IF run[l].pc = "ok" THEN "done" ELSE "failed")
  /\ run' = [run EXCEPT ![l] = NoRun]
  /\ UNCHANGED <<storeVars, attemptVars, claim>>

----------------------------------------------------------------------------
(* cmd/ingest -apply *)

Step(l, p) == run' = [run EXCEPT ![l].pc = p]

\* RequestReady: one connection, one request, five seconds in all
Connect(l) ==
  /\ run[l].pc = "request" /\ relay.pc = "listening" /\ authority = "valid"
  /\ relay' = [pc |-> "accepted", client |-> l]
  /\ Step(l, "reply")
  /\ UNCHANGED <<storeVars, authority, claim, launch, fifo, sup, auxAfter>>

TakeTicket(l) ==
  /\ run[l].pc = "reply" /\ relay.client = l /\ relay.pc = "delivered"
  /\ authority = "valid"
  /\ run' = [run EXCEPT ![l].pc = "stage", ![l].ticket = TRUE]
  /\ UNCHANGED <<storeVars, attemptVars, claim, launch>>

\* Mutant: without a server the request waits on.
GiveUp_OnlyAfterConnect(l) ==
  /\ run[l].pc = "reply"
  /\ Step(l, "stage")
  /\ UNCHANGED <<storeVars, attemptVars, claim, launch>>

\* The budget is over or anything was wrong: the publication goes on without C2.
GiveUp(l) ==
  /\ run[l].pc \in {"request", "reply"}
  /\ Step(l, "stage")
  /\ UNCHANGED <<storeVars, attemptVars, claim, launch>>

\* Mutant: the ticket is used whatever the baseline.
Bound_BaselineIgnored(l) == run[l].ticket /\ authority # "absent"

\* BindBaseline: the snapshot to be replaced is the one the supervisor saw
Bound(l) == run[l].ticket /\ latest = sup.before

\* Mutant: the session lock is not waited for.
Stage_Unlocked(l) ==
  /\ run[l].pc = "stage"
  /\ stager' = l
  /\ run' = [run EXCEPT ![l].pc = "publish", ![l].base = latest, ![l].bound = Bound(l)]
  /\ UNCHANGED <<latest, auxBy, attemptVars, claim, launch>>

Stage(l) ==
  /\ run[l].pc = "stage" /\ stager = Nobody
  /\ stager' = l
  /\ run' = [run EXCEPT ![l].pc = "publish", ![l].base = latest, ![l].bound = Bound(l)]
  /\ UNCHANGED <<latest, auxBy, attemptVars, claim, launch>>

\* committed, or committed although the process sees an error
Publish(l) ==
  /\ run[l].pc = "publish"
  /\ latest' = latest + 1
  /\ auxBy' = Append(auxBy, l)
  /\ \/ Step(l, "notify") /\ UNCHANGED stager
     \/ Step(l, "error") /\ stager' = Nobody
  /\ UNCHANGED <<attemptVars, claim, launch>>

\* The lock is held by another run, validation fails, or the process is stopped.
RunFails(l) ==
  /\ run[l].pc \in {"request", "reply", "stage", "publish", "notify", "relay", "relay_degraded"}
  /\ Step(l, "error")
  /\ stager' = IF stager = l THEN Nobody ELSE stager
  /\ UNCHANGED <<latest, auxBy, attemptVars, claim, launch>>

\* The notification is answered 204, or is degraded: the receipt says which.
Notify(l) ==
  /\ run[l].pc = "notify"
  /\ \E answer \in {"relay", "relay_degraded"} :
       Step(l, IF run[l].bound THEN answer ELSE "ok")
  /\ stager' = IF run[l].bound THEN stager ELSE Nobody
  /\ UNCHANGED <<latest, auxBy, attemptVars, claim, launch>>

\* One nonblocking write, skipped when no reader has the FIFO open.
Relay(l) ==
  /\ run[l].pc \in {"relay", "relay_degraded"}
  /\ fifo' = IF sup.pc = "armed"
             THEN [snapshot |-> run[l].base + 1, accepted |-> run[l].pc = "relay"]
             ELSE fifo
  /\ Step(l, "ok")
  /\ stager' = Nobody
  /\ UNCHANGED <<latest, auxBy, authority, claim, launch, relay, sup, auxAfter>>

----------------------------------------------------------------------------
(* The attempt: root's record, the ready-server helper, the supervisor *)

\* BEFORE is read, the FIFO is opened and the helper listens.
Arm ==
  /\ sup.pc = "prepared"
  /\ sup' = [sup EXCEPT !.pc = "armed", !.before = latest]
  /\ relay' = [relay EXCEPT !.pc = "listening"]
  /\ UNCHANGED <<storeVars, authority, claim, launch, run, fifo, auxAfter>>

IssueReady ==
  /\ sup.pc = "armed" /\ authority = "absent"
  /\ authority' = "valid"
  /\ UNCHANGED <<storeVars, claim, launch, run, relay, fifo, sup, auxAfter>>

\* The record expires, or the controller is gone.
AuthorityEnds ==
  /\ authority = "valid"
  /\ authority' = "gone"
  /\ UNCHANGED <<storeVars, claim, launch, run, relay, fifo, sup, auxAfter>>

\* The supervisor checks the peer and its own authority and answers once.
Respond ==
  /\ relay.pc = "accepted" /\ sup.pc = "armed" /\ authority = "valid"
  /\ relay' = [relay EXCEPT !.pc = "answered"]
  /\ UNCHANGED <<storeVars, authority, claim, launch, run, fifo, sup, auxAfter>>

\* The helper writes the answer; a client that gave up meanwhile breaks it.
Deliver ==
  /\ relay.pc = "answered"
  /\ relay' = [relay EXCEPT !.pc = IF run[relay.client].pc = "reply" THEN "delivered" ELSE "closed"]
  /\ UNCHANGED <<storeVars, authority, claim, launch, run, fifo, sup, auxAfter>>

\* The helper's frame "delivered" reaches the supervisor.
Delivered ==
  /\ relay.pc = "delivered" /\ sup.pc = "armed" /\ ~sup.live
  /\ sup' = [sup EXCEPT !.live = TRUE]
  /\ UNCHANGED <<storeVars, authority, claim, launch, run, relay, fifo, auxAfter>>

\* The helper fails: budget after accept, foreign peer, lost parent.
HelperFails ==
  /\ relay.pc \in {"listening", "accepted", "answered", "delivered"}
  /\ relay' = [relay EXCEPT !.pc = "closed"]
  /\ sup' = [sup EXCEPT !.live = FALSE]
  /\ UNCHANGED <<storeVars, authority, claim, launch, run, fifo, auxAfter>>

Settle(verdict) == [sup EXCEPT !.pc = "settled", !.verdict = verdict, !.live = FALSE]
CloseHelper     == relay' = [relay EXCEPT !.pc = "closed"]

\* onEvent: an accepted event, delivered READY, unchanged authority
Admissible == fifo.accepted /\ sup.live /\ authority = "valid"

ConsumeEvent ==
  /\ sup.pc = "armed" /\ fifo # NoEvent
  /\ fifo' = NoEvent
  /\ IF Admissible
     THEN /\ sup' = [sup EXCEPT !.pc = "capture", !.event = fifo.snapshot]
          /\ UNCHANGED relay
     ELSE sup' = Settle("INCONCLUSIVE") /\ CloseHelper
  /\ UNCHANGED <<storeVars, authority, claim, launch, run, auxAfter>>

\* The public pages show some revision that has been published.
Capture ==
  /\ sup.pc = "capture"
  /\ \E revision \in 0 .. latest :
       sup' = [sup EXCEPT !.pc = "after", !.captured = revision]
  /\ UNCHANGED <<storeVars, authority, claim, launch, run, relay, fifo, auxAfter>>

\* Mutant: AFTER takes the newest snapshot without looking at the chain.
ChainHolds_NotChecked == sup.event > 0

\* AFTER: the newest two snapshots are the event's and the one it replaced
ChainHolds == latest = sup.event /\ sup.event = sup.before + 1

After ==
  /\ sup.pc = "after"
  /\ auxAfter' = latest
  /\ sup' = IF ~ChainHolds THEN Settle("INCONCLUSIVE")
            ELSE [sup EXCEPT !.pc = "observed",
                             !.verdict = IF sup.captured = latest THEN "PASS" ELSE "FAIL"]
  /\ relay' = IF ChainHolds THEN relay ELSE [relay EXCEPT !.pc = "closed"]
  /\ UNCHANGED <<storeVars, authority, claim, launch, run, fifo>>

\* observe(): a verdict needs the live helper and the unchanged authority
Observe ==
  /\ sup.pc = "observed"
  /\ sup' = Settle(IF sup.live /\ authority = "valid" THEN sup.verdict ELSE "INCONCLUSIVE")
  /\ CloseHelper
  /\ UNCHANGED <<storeVars, authority, claim, launch, run, fifo, auxAfter>>

\* The 35 minutes are over, the attempt is cancelled, or evidence is missing.
GiveUpAttempt ==
  /\ sup.pc # "settled"
  /\ sup' = Settle("INCONCLUSIVE")
  /\ CloseHelper
  /\ UNCHANGED <<storeVars, authority, claim, launch, run, fifo, auxAfter>>

----------------------------------------------------------------------------

Launcher(l) ==
  \/ AdmitImmutable(l) \/ NotArmed(l) \/ DryRun(l) \/ Apply(l) \/ FallBack(l)
  \/ DryRunFails(l) \/ Collect(l)

Ingest(l) ==
  \/ Connect(l) \/ TakeTicket(l) \/ GiveUp(l) \/ Stage(l) \/ Publish(l)
  \/ RunFails(l) \/ Notify(l) \/ Relay(l)

Attempt ==
  \/ Arm \/ IssueReady \/ AuthorityEnds \/ Respond \/ Deliver \/ Delivered
  \/ HelperFails \/ ConsumeEvent \/ Capture \/ After \/ Observe \/ GiveUpAttempt

Next == (\E l \in Launches : Launcher(l) \/ Ingest(l)) \/ Attempt

Spec == Init /\ [][Next]_vars

\* Every process of a started launch runs on: the request has its budget of
\* five seconds, the ingest process its deadline of five minutes.  Nothing is
\* assumed of the attempt: C2 may stand still at any point.
FairSpec ==
  /\ Spec
  /\ \A l \in Launches :
       /\ WF_vars(launch[l].pc # "idle" /\ Launcher(l))
       /\ WF_vars(GiveUp(l)) /\ WF_vars(run[l].pc \notin {"request", "reply"} /\ Ingest(l))

----------------------------------------------------------------------------
(* Properties *)

Verdicts == {"none", "PASS", "FAIL", "INCONCLUSIVE"}

\* The types; in particular there is a publisher for every snapshot, and a run
\* between its baseline and its end holds the session lock.
TypeOK ==
  /\ latest = Len(auxBy) /\ stager \in Launches \union {Nobody}
  /\ authority \in {"absent", "valid", "gone"} /\ claim \in BOOLEAN
  /\ \A l \in Launches :
       /\ launch[l].pc \in {"idle", "dry", "apply", "plain_dry", "plain_apply", "wait", "done", "failed"}
       /\ run[l].pc \in {"none", "request", "reply", "stage", "publish", "notify",
                         "relay", "relay_degraded", "ok", "error"}
       /\ run[l].pc \in {"publish", "notify", "relay", "relay_degraded"} <=> stager = l
       /\ run[l].pc # "none" => launch[l].pc = "wait"
  /\ relay.pc \in {"none", "listening", "accepted", "answered", "delivered", "closed"}
  /\ sup.verdict \in Verdicts /\ sup.event \in 0 .. latest /\ sup.captured \in 0 .. latest

\* The event that enters the supervisor announces the snapshot that replaced
\* exactly the one BEFORE was read from, published by the launch that was
\* given READY (cmd/ingest/main.go:129-140, ready.go:225-231).
EventReplacesBaseline ==
  sup.event # 0 => /\ sup.event = sup.before + 1
                   /\ auxBy[sup.event] = relay.client

\* The types, and with them what an event of an attempt stands for
\* (ready.go:225, cmd/ingest/main.go:129).
EventIsBound == TypeOK /\ EventReplacesBaseline

\* PASS and FAIL are statements about the announced snapshot: it was still the
\* newest when AFTER was read, and PASS means the pages showed it.  A further
\* publication between the event and AFTER makes the attempt inconclusive
\* (c2projection.go:133-148, projection-provider.mjs:374-391).
VerdictIsAboutTheEvent ==
  sup.verdict \in {"PASS", "FAIL"} =>
    /\ auxAfter = sup.event
    /\ sup.verdict = "PASS" <=> sup.captured = sup.event

\* A launch publishes at most once, although its authority may vanish between
\* the two processes, the candidate may not start, and a commit may be lost
\* (c2-ingest-launch.py:257-289 "Never readmit/retry C2", "no retry after an
\* uncertain wait").
PublishedOnce ==
  \A m, n \in DOMAIN auxBy : auxBy[m] = auxBy[n] => m = n

\* C2 never keeps a launch from ending, whatever the helper, the supervisor and
\* root do or fail to do (ready_linux.go:338-374, relay_linux.go:63-98).
LaunchEnds ==
  \A l \in Launches : (launch[l].pc # "idle") ~> (launch[l].pc \in {"done", "failed"})

=============================================================================
