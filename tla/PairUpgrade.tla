---------------------------- MODULE PairUpgrade ----------------------------
(***************************************************************************)
(* ops/c2/root-executor-pair-upgrade.py: the promoter (the executor) and   *)
(* the policy that pins it are replaced together, by two renames, once.    *)
(* Every file it makes is registered in a journal by its inode, and after  *)
(* a death the pair is told from the inodes, not from the phase.  A process *)
(* that meets what it does not know stops there, as if it were killed.     *)
(***************************************************************************)
EXTENDS Naturals

CONSTANT MaxUpgradeDeaths   \* bound: processes of the upgrade that die

VARIABLES
  pair,       \* pair[k]: which inode the target k is
  files,      \* the files made and not yet renamed away
  backup,     \* the backup directory exists
  temporary,  \* the journal's temporary file exists
  written,    \* the journal, or Unwritten
  line,       \* the line of Plan the process is at, 0: there is none
  point,      \* what of the line is next: "act", "stage", "commit", "unlink" or "check"
  said,       \* its answer
  moved,      \* a promotion changed what the journal's snapshot protects
  upgradeDeaths

pairVars == <<pair, files, backup, temporary, written, line, point, said, moved, upgradeDeaths>>

Targets        == {"executor", "policy"}
OldOf(k)       == <<"old", k>>
NewOf(k)       == <<"new", k>>
RestoredOf(k)  == <<"restore", k>>
ReceiptFile    == <<"receipt", "pair">>
NoFile         == <<"none", "none">>
Unwritten      == [phase |-> "none", backup |-> FALSE, resources |-> {}]
RollbackPhases == {"rollback_prepared", "rollback_policy_replaced", "rollback_executor_replaced", "rolled_back"}

\* classify(): a target is the original or registered, and a policy is never
\* newer than its executor.
Classified ==
  /\ \A k \in Targets : pair[k] \in {OldOf(k)} \cup written.resources
  /\ ~(pair["policy"] = NewOf("policy") /\ pair["executor"] # NewOf("executor"))

\* A registered file that is gone became a target, or was one.
WentThere(r) ==
  \E k \in Targets :
    \/ r = NewOf(k) /\ pair[k] = NewOf(k)
    \/ r = NewOf(k) /\ pair[k] = RestoredOf(k) /\ written.phase \in RollbackPhases
    \/ r = RestoredOf(k) /\ pair[k] = RestoredOf(k)

\* inventory(): no file but the registered, and all of those.
Inventoried ==
  /\ ~temporary /\ files \subseteq written.resources /\ backup = written.backup
  /\ \A r \in written.resources \ files : WentThere(r)

-----------------------------------------------------------------------------
(* A line of the plan is what is done to the disk, the phase the journal   *)
(* then gives, in two writes, and whether the inventory is taken after it. *)

Line(do, what, k, phase, checked) == [do |-> do, what |-> what, target |-> k, phase |-> phase, checked |-> checked]
Journalled(phase)         == Line("nothing", NoFile, "none", phase, FALSE)
Store(r, phase)           == Line("make", r, "none", phase, TRUE)
MoveInto(r, k, phase, ok) == Line("rename", r, k, phase, ok)

\* run() and, from RollbackLine on, rollback().
Plan == <<
  Journalled("intent"),
  Line("mkdir", NoFile, "none", "backup_created", TRUE),
  Store(OldOf("executor"), "backup_created"),
  Store(OldOf("policy"), "backed_up"),
  Store(NewOf("executor"), "staged_executor"),
  Store(NewOf("policy"), "staged_policy"),
  Line("nothing", NoFile, "none", "prepared", TRUE),
  MoveInto(NewOf("executor"), "executor", "executor_replaced", FALSE),
  MoveInto(NewOf("policy"), "policy", "pair_replaced", TRUE),
  Store(ReceiptFile, "pair_replaced"),
  Journalled("verified"),
  Store(RestoredOf("executor"), "rollback_prepared"),
  Store(RestoredOf("policy"), "rollback_prepared"),
  MoveInto(RestoredOf("policy"), "policy", "rollback_policy_replaced", FALSE),
  MoveInto(RestoredOf("executor"), "executor", "rollback_executor_replaced", FALSE),
  Line("examine", NoFile, "none", "rolled_back", FALSE) >>

FirstLine      == 1
VerifiedLine   == 11
RollbackLine   == 12
RolledBackLine == 16

\* rollback() deals with a target that is new, and stores what it has not.
Called(i) ==
  \A k \in Targets : i.what = RestoredOf(k) =>
    pair[k] = NewOf(k) /\ (i.do = "make" => i.what \notin written.resources)

-----------------------------------------------------------------------------
NoUpgrade == line = 0

GoTo(n, p) == line' = n /\ point' = p
EndWith(answer) == GoTo(0, "act") /\ said' = answer

StartUpgrade ==
  /\ NoUpgrade /\ written = Unwritten /\ Inventoried
  /\ GoTo(FirstLine, "act") /\ moved' = FALSE
  /\ UNCHANGED <<pair, files, backup, temporary, written, said, upgradeDeaths>>

\* --recover and --rollback, of what is known and of what has not moved since;
\* the first is content with a verified pair, both with one rolled back.
StartUpgradeRecovery(mode) ==
  /\ NoUpgrade /\ written # Unwritten /\ Classified /\ Inventoried /\ ~moved
  /\ IF \/ mode = "recover" /\ written.phase = "verified"
        \/ written.phase = "rolled_back"
     THEN EndWith(written.phase)
     ELSE GoTo(RollbackLine, "act") /\ UNCHANGED said
  /\ UNCHANGED <<pair, files, backup, temporary, written, moved, upgradeDeaths>>

\* The line is done, or is left out.
Onward == IF line \in {VerifiedLine, RolledBackLine} THEN EndWith(Plan[line].phase)
          ELSE GoTo(line + 1, "act") /\ UNCHANGED said

SkipLine == ~Called(Plan[line]) /\ Onward /\ UNCHANGED <<pair, files, backup>>

MakeFile(i) ==
  /\ i.do = "make" /\ Called(i)
  /\ files' = files \cup {i.what} /\ GoTo(line, "stage") /\ UNCHANGED <<pair, backup, said>>

MakeBackup(i) == i.do = "mkdir" /\ backup' = TRUE /\ GoTo(line, "stage") /\ UNCHANGED <<pair, files, said>>

RenameFile(i) ==
  /\ i.do = "rename" /\ Called(i)
  /\ files' = files \ {i.what} /\ pair' = [pair EXCEPT ![i.target] = i.what]
  /\ GoTo(line, "stage") /\ UNCHANGED <<backup, said>>

JustJournal(i) == i.do = "nothing" /\ GoTo(line, "stage") /\ UNCHANGED <<pair, files, backup, said>>

\* The inventory, where a line begins or ends with it.
TakeInventory(n, p) ==
  /\ IF Classified /\ Inventoried THEN GoTo(n, p) /\ UNCHANGED said ELSE EndWith("blocked")
  /\ UNCHANGED <<pair, files, backup>>

\* What a line does before it writes the journal.
ActOnDisk ==
  /\ point = "act"
  /\ LET i == Plan[line]
     IN  \/ SkipLine \/ MakeFile(i) \/ MakeBackup(i) \/ RenameFile(i) \/ JustJournal(i)
         \/ i.do = "examine" /\ TakeInventory(line, "stage")
  /\ UNCHANGED <<temporary, written>>

StageJournal ==
  /\ point = "stage" /\ temporary' = TRUE /\ GoTo(line, "commit")
  /\ UNCHANGED <<pair, files, backup, written, said>>

\* A file just made is registered, the backup directory as it is.  The first
\* journal is linked to its name and the temporary one unlinked after that.
CommitJournal ==
  /\ point = "commit" /\ temporary' = (line = FirstLine)
  /\ LET i == Plan[line]
     IN  /\ written' = [phase |-> i.phase, backup |-> backup,
                        resources |-> written.resources \cup (IF i.do = "make" THEN {i.what} ELSE {})]
         /\ IF line = FirstLine THEN GoTo(line, "unlink") /\ UNCHANGED said
            ELSE IF i.checked THEN GoTo(line, "check") /\ UNCHANGED said ELSE Onward
  /\ UNCHANGED <<pair, files, backup>>

UnlinkTemporary == point = "unlink" /\ temporary' = FALSE /\ Onward /\ UNCHANGED <<pair, files, backup, written>>

CheckLine == point = "check" /\ TakeInventory(line + 1, "act") /\ UNCHANGED <<temporary, written>>

UpgradeStep ==
  /\ ~NoUpgrade /\ (ActOnDisk \/ StageJournal \/ CommitJournal \/ UnlinkTemporary \/ CheckLine)
  /\ UNCHANGED <<moved, upgradeDeaths>>

\* Killed, or stopped by an error or a signal: nothing is undone on the way out.
UpgradeDies ==
  /\ ~NoUpgrade /\ upgradeDeaths < MaxUpgradeDeaths /\ upgradeDeaths' = upgradeDeaths + 1
  /\ EndWith("dead")
  /\ UNCHANGED <<pair, files, backup, temporary, written, moved>>

\* The promoter runs only as the executor that the policy pins
\* (publisher-promotion.py:499), and knows nothing of this journal.
Pinned == (pair["executor"] = NewOf("executor")) = (pair["policy"] = NewOf("policy"))

PromotionRuns ==
  /\ NoUpgrade /\ Pinned /\ ~moved /\ moved' = TRUE
  /\ UNCHANGED <<pair, files, backup, temporary, written, line, point, said, upgradeDeaths>>

PairInit ==
  /\ pair = [k \in Targets |-> OldOf(k)] /\ files = {} /\ backup = FALSE /\ temporary = FALSE
  /\ written = Unwritten /\ line = 0 /\ point = "act" /\ said = "none" /\ moved = FALSE /\ upgradeDeaths = 0

PairNext ==
  \/ StartUpgrade \/ (\E mode \in {"recover", "rollback"} : StartUpgradeRecovery(mode))
  \/ UpgradeStep \/ UpgradeDies \/ PromotionRuns

PairSpec == PairInit /\ [][PairNext]_pairVars

-----------------------------------------------------------------------------
\* A death between the making of a file and its registration.
Leftover == temporary \/ ~(files \subseteq written.resources) \/ backup # written.backup

\* root-executor-pair-upgrade.py:241: wherever the upgrade or its rollback
\* died, no policy pins an executor that is not there yet while its own is
\* gone, the pair is told, and unless a file was left behind unregistered the
\* recovery is admitted; a promotion can stand in its way only when the pair
\* is whole.  And a process says what it left.
PairIsRecoverable ==
  /\ Classified
  /\ NoUpgrade /\ ~Leftover => Inventoried
  /\ NoUpgrade /\ moved => Pinned
  /\ NoUpgrade /\ said = "verified" => \A k \in Targets : pair[k] = NewOf(k)
  /\ NoUpgrade /\ said = "rolled_back" => \A k \in Targets : pair[k] # NewOf(k)
=============================================================================
