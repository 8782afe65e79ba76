------------------------------ MODULE Promoter ------------------------------
(***************************************************************************)
(* ops/c2/publisher-promotion.py on the host: one package replaces the     *)
(* checkout of the publisher and its installed files under a journal       *)
(* (interlock.json), with backups and a receipt, and is undone from them;  *)
(* and promotion-runtime-gate.py, by which a service starts only when no   *)
(* promotion is at work or unresolved.  A step may fail, which undoes the  *)
(* promotion, and the process may be killed anywhere, which does not.      *)
(* Versions are numbers; 0 and 1 are what the host started with.           *)
(***************************************************************************)
EXTENDS Naturals

CONSTANTS
  Packages,    \* Packages[n]: the version in the package n; the first is the owner's
  Files,       \* number of installed files, the record of their hashes the last
  MaxFaults,   \* bound: steps that fail and processes that are killed
  MaxLedger    \* bound: entries of the ledger of C2

VARIABLES
  checkout,    \* the version of /opt/aktau-sync, or Torn
  installed,   \* installed[f]: the version of file f
  interlock,   \* interlock.json, or NoJournal
  kept,        \* kept[n]: the directory of package n below releases/
  lastDone,    \* last.json: the package completed last
  ledger,      \* entries of the ledger
  serving,     \* a service holds the shared lock
  op,          \* the root process, which holds the exclusive locks
  unguarded,   \* history: a process died undoing what it had completed
  faults

promoterVars == <<checkout, installed, interlock, kept, lastDone, ledger, serving, op, unguarded, faults>>

All       == 1 .. Files
Torn      == 99                       \* a checkout that was interrupted
NoJournal == [id |-> 0]
Ids       == DOMAIN Packages

ASSUME PackagesAreVersions ==
  /\ Files \in Nat \ {0}
  /\ Ids \subseteq Nat \ {0} /\ \A n \in Ids : Packages[n] \in Nat \ {Torn}

NoRelease == [made |-> FALSE, junk |-> FALSE, receipt |-> NoJournal, undone |-> FALSE]
Free      == [pc |-> "off", mode |-> "none", j |-> NoJournal, at |-> 1, reply |-> "none"]

Held == op.pc # "off"

-----------------------------------------------------------------------------
(* What is checked before a promotion or a rollback.                       *)

\* Every release directory has come to an end and holds nothing unknown.
Inventory ==
  \A n \in Ids : kept[n].made => ~kept[n].junk /\ (kept[n].undone \/ kept[n].receipt # NoJournal)

\* verify_old_closure(): the files are the ones their record names, and the
\* record names the checkout, or the version the owner's package is to repair.
Closed(initial) ==
  /\ \A f \in All : installed[f] = installed[Files]
  /\ installed[Files] \in {checkout} \cup (IF initial /\ checkout = 1 THEN {0} ELSE {})

Aligned(v) == checkout = v /\ \A f \in All : installed[f] = v

Journal(n) == [id |-> n, old |-> checkout, new |-> Packages[n], ledger |-> ledger, saved |-> {},
               was |-> [f \in All |-> 0]]

Begin(mode, to, j) == op' = [pc |-> to, mode |-> mode, j |-> j, at |-> 1, reply |-> "none"]
Admissible == ~Held /\ ~serving /\ interlock = NoJournal /\ Inventory

\* A promotion that is refused, or finds the locks taken, leaves no trace; one
\* of what is already there changes nothing.
StartPromotion(n) ==
  /\ Admissible /\ Closed(n = 1) /\ (n = 1 => checkout = Packages[1])
  /\ ~Aligned(Packages[n]) /\ ~kept[n].made
  /\ Begin("promote", "intent", Journal(n))
  /\ UNCHANGED <<checkout, installed, interlock, kept, lastDone, ledger, serving, unguarded, faults>>

\* --rollback-interrupted
StartRecovery ==
  /\ ~Held /\ ~serving /\ interlock # NoJournal
  /\ Begin("recover", "check", interlock)
  /\ UNCHANGED <<checkout, installed, interlock, kept, lastDone, ledger, serving, unguarded, faults>>

\* --rollback-last: with the ledger as it is now.
StartRollback ==
  /\ Admissible /\ Closed(FALSE)
  /\ lastDone # 0 /\ ~kept[lastDone].undone
  /\ LET r == kept[lastDone].receipt
     IN  /\ checkout = r.new /\ \A f \in All : installed[f] = r.new
         /\ Begin("last", "reopen", [r EXCEPT !.ledger = ledger])
  /\ UNCHANGED <<checkout, installed, interlock, kept, lastDone, ledger, serving, unguarded, faults>>

-----------------------------------------------------------------------------
(* Transaction.  A step writes one thing and goes to the next.             *)

Continue(to)  == op' = [op EXCEPT !.pc = to, !.at = 1]
Answer(reply) == op' = [op EXCEPT !.pc = "off", !.at = 1, !.reply = reply]

\* The next file, or what follows the last one.
NextFile(to) == IF op.at < Files THEN op' = [op EXCEPT !.at = @ + 1] ELSE Continue(to)

\* Mutant: the journal on disk is not told which files are saved.
WriteJournalOnce(j) == interlock' = IF interlock = NoJournal THEN j ELSE interlock

WriteJournal(j) == interlock' = j

Intent ==
  /\ op.pc = "intent" /\ WriteJournal(op.j) /\ Continue("mkdir")
  /\ UNCHANGED <<checkout, installed, kept, lastDone>>

Mkdir ==
  /\ op.pc = "mkdir" /\ kept' = [kept EXCEPT ![op.j.id].made = TRUE] /\ Continue("save")
  /\ UNCHANGED <<checkout, installed, interlock, lastDone>>

\* The old bytes of a file go into backup/.
SaveFile ==
  /\ op.pc = "save"
  /\ LET j == [op.j EXCEPT !.saved = @ \cup {op.at}, !.was[op.at] = installed[op.at]]
     IN  op' = IF op.at < Files THEN [op EXCEPT !.j = j, !.at = @ + 1]
               ELSE [op EXCEPT !.j = j, !.at = 1, !.pc = "saved"]
  /\ UNCHANGED <<checkout, installed, interlock, kept, lastDone>>

Saved ==
  /\ op.pc = "saved" /\ WriteJournal(op.j) /\ Continue("prepare")
  /\ UNCHANGED <<checkout, installed, kept, lastDone>>

\* The package is staged, imported and examined, and nothing has moved.
Prepare ==
  /\ op.pc = "prepare"
  /\ checkout = op.j.old /\ ledger = op.j.ledger /\ installed = op.j.was
  /\ Continue("switch")
  /\ UNCHANGED <<checkout, installed, interlock, kept, lastDone>>

Switch ==
  /\ op.pc = "switch" /\ checkout' = op.j.new /\ Continue("install")
  /\ UNCHANGED <<installed, interlock, kept, lastDone>>

Install ==
  /\ op.pc = "install" /\ installed' = [installed EXCEPT ![op.at] = op.j.new] /\ NextFile("verify")
  /\ UNCHANGED <<checkout, interlock, kept, lastDone>>

Verify ==
  /\ op.pc = "verify" /\ Aligned(op.j.new) /\ ledger = op.j.ledger /\ Continue("receipt")
  /\ UNCHANGED <<checkout, installed, interlock, kept, lastDone>>

Receipt ==
  /\ op.pc = "receipt" /\ kept' = [kept EXCEPT ![op.j.id].receipt = op.j] /\ Continue("last")
  /\ UNCHANGED <<checkout, installed, interlock, lastDone>>

Last ==
  /\ op.pc = "last" /\ lastDone' = op.j.id /\ Continue("remove")
  /\ UNCHANGED <<checkout, installed, interlock, kept>>

\* remove_owned(INTERLOCK), which is not yet the end: a signal may follow.
Remove ==
  /\ op.pc = "remove" /\ interlock' = NoJournal /\ Continue("leave")
  /\ UNCHANGED <<checkout, installed, kept, lastDone>>

Leave ==
  /\ op.pc = "leave" /\ Answer("ALIGNED")
  /\ UNCHANGED <<checkout, installed, interlock, kept, lastDone>>

-----------------------------------------------------------------------------
(* rollback(), of a promotion that failed, was killed, or is unwanted.     *)

\* --rollback-last writes the journal of the receipt again.
Reopen ==
  /\ op.pc = "reopen" /\ WriteJournal(op.j) /\ Continue("check")
  /\ UNCHANGED <<checkout, installed, kept, lastDone>>

\* All backups are named, and what is there is the old or the new.
Admitted(j) ==
  /\ j.saved = All /\ checkout \in {j.old, j.new} /\ ledger = j.ledger
  /\ \A f \in All : installed[f] \in {j.was[f], j.new}

Recheck ==
  /\ op.pc = "check" /\ (IF Admitted(op.j) THEN Continue("back") ELSE Answer("BLOCKED"))
  /\ UNCHANGED <<checkout, installed, interlock, kept, lastDone>>

Back ==
  /\ op.pc = "back" /\ checkout' = op.j.old /\ Continue("restore")
  /\ UNCHANGED <<installed, interlock, kept, lastDone>>

Restore ==
  /\ op.pc = "restore" /\ installed' = [installed EXCEPT ![op.at] = op.j.was[op.at]]
  /\ NextFile("undone")
  /\ UNCHANGED <<checkout, interlock, kept, lastDone>>

Undone ==
  /\ op.pc = "undone" /\ WriteJournal(op.j) /\ Continue("record")
  /\ UNCHANGED <<checkout, installed, kept, lastDone>>

\* rollback.json is never written over.
Record ==
  /\ op.pc = "record"
  /\ IF kept[op.j.id].undone THEN Answer("BLOCKED") /\ UNCHANGED kept
     ELSE kept' = [kept EXCEPT ![op.j.id].undone = TRUE] /\ Continue("release")
  /\ UNCHANGED <<checkout, installed, interlock, lastDone>>

Unlock ==
  /\ op.pc = "release" /\ interlock' = NoJournal /\ Continue("over")
  /\ UNCHANGED <<checkout, installed, kept, lastDone>>

Over ==
  /\ op.pc = "over" /\ Answer(IF op.mode = "promote" THEN "BLOCKED" ELSE "ROLLED_BACK")
  /\ UNCHANGED <<checkout, installed, interlock, kept, lastDone>>

-----------------------------------------------------------------------------
(* A step that fails, by an error, the alarm or a signal, and the end of   *)
(* the process.  Either may leave a step half done: a name that inventory  *)
(* does not know, or a checkout that is neither version.                   *)

RollingBack == op.pc \in {"reopen", "check", "back", "restore", "undone", "record", "release", "over"}

HalfDone ==
  /\ faults < MaxFaults /\ Held /\ faults' = faults + 1
  /\ \/ UNCHANGED <<checkout, kept>>
     \/ op.pc \in {"save", "prepare", "receipt", "record"}
        /\ kept' = [kept EXCEPT ![op.j.id].junk = TRUE] /\ UNCHANGED checkout
     \/ /\ \/ op.pc = "switch" /\ op.j.old # op.j.new
           \/ op.pc = "back" /\ checkout # op.j.old
        /\ checkout' = Torn /\ UNCHANGED kept
  /\ UNCHANGED <<installed, interlock, lastDone, ledger, serving>>

\* A rollback begun after the interlock was removed has nothing to hold the
\* services until it writes the journal again.
Dies == unguarded' = (unguarded \/ (RollingBack /\ interlock = NoJournal /\ op.pc \in {"back", "restore", "undone"}))

\* In the try of promote() a failure undoes the promotion once all is saved.
\* A git child that may be alive is left alone, and so is all the rest.
Fail ==
  /\ HalfDone
  /\ \/ /\ op.mode = "promote" /\ ~RollingBack /\ op.pc # "intent" /\ op.j.saved = All
        /\ Continue("check") /\ UNCHANGED unguarded
     \/ /\ RollingBack \/ op.pc \in {"intent", "prepare", "switch"} \/ op.j.saved # All
        /\ Answer("BLOCKED") /\ Dies

Kill == HalfDone /\ Answer("killed") /\ Dies

-----------------------------------------------------------------------------
(* promotion-runtime-gate.py, before each of the services.                 *)

StartService ==
  /\ ~Held /\ ~serving /\ interlock = NoJournal /\ serving' = TRUE
  /\ UNCHANGED <<checkout, installed, interlock, kept, lastDone, ledger, op, unguarded, faults>>

StopService ==
  /\ serving /\ serving' = FALSE
  /\ ledger' \in {ledger} \cup (IF ledger < MaxLedger THEN {ledger + 1} ELSE {})
  /\ UNCHANGED <<checkout, installed, interlock, kept, lastDone, op, unguarded, faults>>

-----------------------------------------------------------------------------
PromoterInit ==
  /\ checkout = 1 /\ installed = [f \in All |-> 0] /\ interlock = NoJournal
  /\ kept = [n \in Ids |-> NoRelease] /\ lastDone = 0 /\ ledger = 0
  /\ serving = FALSE /\ op = Free /\ unguarded = FALSE /\ faults = 0

PromoterStep ==
  /\ \/ Intent \/ Mkdir \/ SaveFile \/ Saved \/ Prepare \/ Switch \/ Install \/ Verify
     \/ Receipt \/ Last \/ Remove \/ Leave
     \/ Reopen \/ Recheck \/ Back \/ Restore \/ Undone \/ Record \/ Unlock \/ Over
  /\ UNCHANGED <<ledger, serving, unguarded, faults>>

PromoterNext ==
  \/ \E n \in Ids : StartPromotion(n)
  \/ StartRecovery \/ StartRollback \/ PromoterStep
  \/ Fail \/ Kill \/ StartService \/ StopService

PromoterSpec == PromoterInit /\ [][PromoterNext]_promoterVars

-----------------------------------------------------------------------------
Untouched(j) == checkout = j.old /\ \A f \in j.saved : installed[f] = j.was[f]
Whole        == Closed(TRUE)

\* No service runs a checkout beside the files of another version
\* (promotion-runtime-gate.py:44 asks for the interlock behind the lock).
NoServiceOnAMixture == serving => Whole \/ unguarded

\* publisher-promotion.py:719 and :782: whenever a promotion or a rollback was
\* cut off, the journal it left either names every backup and finds the old or
\* the new in every place, or nothing has moved yet; only git may have been cut
\* off within the checkout, or rollback.json have been written before.
WayBackExists ==
  ~Held /\ interlock # NoJournal =>
    \/ checkout = Torn
    \/ Untouched(interlock)
    \/ Admitted(interlock) /\ ~kept[interlock.id].undone

\* publisher-promotion.py:776: what the operator is told is what the host has.
\* A refusal that left no journal has changed nothing, or, where the way back
\* from the very end failed too, it has changed all.
OutcomeIsTrue ==
  ~Held /\ interlock = NoJournal =>
    CASE op.reply = "ALIGNED"     -> Aligned(op.j.new) /\ lastDone = op.j.id
      [] op.reply = "ROLLED_BACK" -> Untouched(op.j) /\ kept[op.j.id].undone
      [] op.reply = "BLOCKED"     ->
           unguarded \/ Untouched(op.j) \/ (Aligned(op.j.new) /\ lastDone = op.j.id)
      [] OTHER                    -> TRUE

PromotionIsAllOrNothing == NoServiceOnAMixture /\ WayBackExists /\ OutcomeIsTrue
=============================================================================
