------------------------------ MODULE Upgrade ------------------------------
(***************************************************************************)
(* Opening the database of the Bus (database-upgrade.ts and the start of     *)
(* the constructor of store.ts). Every start ensures the schema; only a      *)
(* start that raises the version copies the database first. The copy, the    *)
(* rebuild and the migration commit one after another, and the process may   *)
(* die between any two of them and be started again, by the same build or    *)
(* by another one.                                                           *)
(***************************************************************************)
EXTENDS Naturals, Sequences

CONSTANTS
  Builds,             \* the builds of Floe: the version and the tables of each
  MaxStarts,          \* bound on the starts
  MaxUpgradeFaults    \* bound on deaths, bad copies and failed checks

ASSUME UpgradeAssumption ==
  \A b \in Builds : b.ver \in Nat \ {0} /\ b.makes # {}

VARIABLES
  file,               \* the database as it is committed
  copies,             \* the files under backups/, oldest first
  log,                \* schema_migrations, oldest first
  opening,            \* the start under way
  served,             \* has this database been served since it was opened?
  was,                \* the database as the first start to raise its version found it
  risen,              \* has a start that raises the version changed it since?
  starts, upgradeFaults

upgradeVars == <<file, copies, log, opening, served, was, risen, starts, upgradeFaults>>

Closed == [pc |-> "closed"]

(* What people left behind: nothing, a database that no build had stamped    *)
(* yet, or one of an earlier version; "paths" is the Workspace table that    *)
(* still owns local paths, "clash" two of its rows for one location.         *)
Unstamped(layout, rows) == [ver |-> 0, tables |-> {"a"}, outdated |-> {layout}, rows |-> rows]
Fresh == [ver |-> 0, tables |-> {}, outdated |-> {}, rows |-> 0]

UpgradeInit ==
  /\ file \in {Fresh} \cup {Unstamped(l, 1) : l \in {"paths", "clash"}}
                      \cup {[Unstamped(l, 1) EXCEPT !.ver = 1] : l \in {"retired", "notnull"}}
  /\ copies = <<>> /\ log = <<>> /\ opening = Closed
  /\ served = FALSE /\ was = file /\ risen = FALSE
  /\ starts = 0 /\ upgradeFaults = 0

Fault == upgradeFaults < MaxUpgradeFaults /\ upgradeFaults' = upgradeFaults + 1
NoFault == UNCHANGED upgradeFaults

(* Mutant: a database that was never stamped is taken for a new one. *)
NeedsCopy_Stamped(b) == 0 < file.ver /\ file.ver < b.ver

(* versionRises and hasUserState *)
NeedsCopy(b) == file.ver < b.ver /\ file.tables # {}

(* readUserVersion and the two refusals: a database that is too new is left  *)
(* as it is.                                                                 *)
Open(b) ==
  /\ opening = Closed /\ starts < MaxStarts /\ starts' = starts + 1
  /\ served' = FALSE
  /\ was' = IF served THEN file ELSE was
  /\ risen' = (risen /\ ~served)
  /\ opening' = IF file.ver > b.ver THEN Closed
                ELSE [pc |-> IF NeedsCopy(b) THEN "copy" ELSE "rebuild", by |-> b,
                      from |-> file.ver, copy |-> 0]
  /\ UNCHANGED <<file, copies, log>> /\ NoFault

(* VACUUM INTO a path that names the moment: what the disk made of it is     *)
(* known only when it was read again.                                        *)
Copy ==
  /\ opening.pc = "copy"
  /\ \E good \in BOOLEAN :
       /\ IF good THEN NoFault ELSE Fault
       /\ copies' = Append(copies, [of |-> file, good |-> good])
  /\ opening' = [opening EXCEPT !.pc = "verify", !.copy = Len(copies')]
  /\ UNCHANGED <<file, log, served, was, risen, starts>>

(* PRAGMA integrity_check *)
IntegrityChecked(c) == c.good

(* createVerifiedBackup, its end: a damaged copy stays where it is and the   *)
(* start fails.                                                              *)
Verify ==
  /\ opening.pc = "verify"
  /\ opening' = IF IntegrityChecked(copies[opening.copy]) THEN [opening EXCEPT !.pc = "rebuild"] ELSE Closed
  /\ UNCHANGED <<file, copies, log, served, was, risen, starts>> /\ NoFault

(* What a start at an unchanged version repairs is not copied first.         *)
Changed(to) ==
  LET rises == opening.from < opening.by.ver
  IN  /\ file' = to
      /\ risen' = (risen \/ (rises /\ to # file))
      /\ was' = IF rises \/ risen THEN was ELSE to

(* rebuildCapabilityGrantsForUntilRevoked and dropRetiredTables *)
Rebuilt(f) == [f EXCEPT !.outdated = @ \ {"retired", "notnull"}]

(* runTableRebuild, in a transaction of its own; a reference that would      *)
(* dangle undoes it and the start fails.                                     *)
Rebuild ==
  /\ opening.pc = "rebuild"
  /\ \/ /\ Changed(Rebuilt(file)) /\ NoFault
        /\ opening' = [opening EXCEPT !.pc = "migrate"]
     \/ /\ Rebuilt(file) # file /\ Fault
        /\ opening' = Closed /\ UNCHANGED <<file, risen, was>>
  /\ UNCHANGED <<copies, log, served, starts>>

(* migrate with every guarded conversion, and PRAGMA user_version *)
Ensured(f, b) ==
  [f EXCEPT !.tables = @ \cup b.makes, !.outdated = {}, !.ver = b.ver]

(* planWorkspaceIdentityMigration finds two rows for one location.           *)
Blocked(f) == "clash" \in f.outdated

(* The schema, the row of schema_migrations and the version in one           *)
(* transaction; rows that the plan refuses to convert undo all of it.        *)
Migrate ==
  /\ opening.pc = "migrate"
  /\ IF Blocked(file)
     THEN opening' = Closed /\ UNCHANGED <<file, risen, was, log, served>>
     ELSE /\ Changed(Ensured(file, opening.by))
          /\ log' = IF opening.from < opening.by.ver
                    THEN Append(log, [from |-> opening.from, to |-> opening.by.ver, copy |-> opening.copy])
                    ELSE log
          /\ opening' = [opening EXCEPT !.pc = "open"] /\ served' = TRUE
  /\ UNCHANGED <<copies, starts>> /\ NoFault

(* The Bus writes what people do; one write stands for many.                 *)
Write ==
  /\ opening.pc = "open" /\ file.rows < 2
  /\ file' = [file EXCEPT !.rows = @ + 1]
  /\ UNCHANGED <<copies, log, opening, served, was, risen, starts, upgradeFaults>>

(* The process ends: in its own time once it serves, by a fault before.      *)
Die ==
  /\ opening # Closed /\ opening' = Closed
  /\ IF opening.pc = "open" THEN NoFault ELSE Fault
  /\ \/ UNCHANGED copies
     \/ opening.pc = "copy" /\ copies' = Append(copies, [of |-> file, good |-> FALSE])
  /\ UNCHANGED <<file, log, served, was, risen, starts>>

UpgradeNext ==
  \/ \E b \in Builds : Open(b)
  \/ Copy \/ Verify \/ Rebuild \/ Migrate \/ Write \/ Die

UpgradeSpec == UpgradeInit /\ [][UpgradeNext]_upgradeVars

-----------------------------------------------------------------------------
(* Properties *)

(* However often a start that raises the version dies or fails, a sound copy *)
(* holds what people had before it (runDatabaseUpgrade: a verified backup    *)
(* before any mutation).                                                     *)
Recoverable ==
  risen /\ was.tables # {} => \E k \in DOMAIN copies : copies[k].good /\ copies[k].of = was

(* Whatever a database went through, the build that serves it finds its own  *)
(* schema (runDatabaseUpgrade: new and existing databases converge).         *)
Converged ==
  opening.pc = "open" => opening.by.makes \subseteq file.tables /\ file.outdated = {}

(* The version that a database says it has, and the copies that its history  *)
(* names, are true.                                                          *)
HistoryIsTrue ==
  /\ file.ver > 1 => \E b \in Builds : b.ver = file.ver /\ b.makes \subseteq file.tables
  /\ \A i \in DOMAIN log : log[i].copy # 0 =>
        copies[log[i].copy].good /\ copies[log[i].copy].of.ver = log[i].from

(* Whatever happens while the database is opened, what people had before its *)
(* version rose can be had again, the build that serves it finds its own     *)
(* schema, and its history is true (runDatabaseUpgrade).                     *)
DatabaseOpens == Recoverable /\ Converged /\ HistoryIsTrue
=============================================================================
